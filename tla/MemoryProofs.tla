---------------------------- MODULE MemoryProofs ----------------------------
(***************************************************************************)
(* Proofs about the simulated memory, for every size of the chunks and     *)
(* every program: the rows stay in order, so that the binary searches find *)
(* what they look for, and memory behaves as a plain function from units   *)
(* to words.                                                               *)
(***************************************************************************)
EXTENDS MemProps, SequenceTheorems, Loops

----------------------------------------------------------------------------
(* Rows in order.                                                          *)

Row      == [addr : Nat, data : Seq(Value)]
Memories == [rows : Seq(Row), chunks : Nat, rd : Nat, wr : Nat]
Fine(m)  == m \in Memories /\ Ordered(m)

\* MEM_BAD is something a unit can hold.
LEMMA BadValue == MEM_BAD \in Value
BY MemAssumption DEF MEM_BAD, Value

\* What a row of a memory in order is.
LEMMA RowFacts ==
  ASSUME NEW m, Fine(m), NEW i \in 1..Len(m.rows)
  PROVE  /\ m.rows[i] \in Row /\ m.rows[i].addr \in Nat /\ m.rows[i].data \in Seq(Value)
         /\ Len(m.rows[i].data) \in Nat /\ End(m.rows[i]) \in Nat
         /\ i <= m.chunks => Len(m.rows[i].data) > 0 /\ m.rows[i].addr < End(m.rows[i])
         /\ i > m.chunks => Len(m.rows[i].data) = 0 /\ End(m.rows[i]) = m.rows[i].addr
<1>1. m.rows \in Seq(Row) /\ m.chunks \in 0..Len(m.rows) BY DEF Fine, Memories, Ordered
<1>2. m.rows[i] \in Row BY <1>1
<1>3. m.rows[i].addr \in Nat /\ m.rows[i].data \in Seq(Value) BY <1>2 DEF Row
<1>4. Len(m.rows[i].data) \in Nat BY <1>3
<1>5. ASSUME i <= m.chunks PROVE Len(m.rows[i].data) > 0
  <2>1. m.rows[i].data # <<>> BY <1>1, <1>5 DEF Fine, Ordered
  <2> QED BY <1>3, <1>4, <2>1
<1>6. ASSUME i > m.chunks PROVE Len(m.rows[i].data) = 0
  <2>1. i \in Behind(m) BY <1>1, <1>6 DEF Behind
  <2>2. m.rows[i].data = <<>> BY <2>1 DEF Fine, Ordered
  <2> QED BY <2>2
<1> QED BY <1>1, <1>2, <1>3, <1>4, <1>5, <1>6 DEF End

\* The chunk count and the rows remembered of a memory in order.
LEMMA CountFacts ==
  ASSUME NEW m, Fine(m)
  PROVE  /\ m.rows \in Seq(Row) /\ Len(m.rows) \in Nat /\ m.chunks \in 0..Len(m.rows) /\ m.chunks \in Nat
         /\ m.rd \in 0..Len(m.rows) /\ m.wr \in 0..Len(m.rows)
BY DEF Fine, Memories, Ordered

\* What a row in use is.
LEMMA InUse ==
  ASSUME NEW m, Fine(m), NEW k \in 1..m.chunks
  PROVE  /\ k \in 1..Len(m.rows) /\ m.rows[k].addr \in Nat /\ End(m.rows[k]) \in Nat
         /\ m.rows[k].data \in Seq(Value) /\ Len(m.rows[k].data) \in Nat /\ Len(m.rows[k].data) > 0
         /\ m.rows[k].addr < End(m.rows[k])
<1>1. k \in 1..Len(m.rows) /\ k <= m.chunks BY CountFacts
<1> QED BY <1>1, RowFacts

\* A row ends before every row behind it, not only the next one.
LEMMA RowsApart ==
  ASSUME NEW m, Fine(m), NEW i \in 1..m.chunks, NEW j \in 1..m.chunks, i < j
  PROVE  End(m.rows[i]) <= m.rows[j].addr
<1> DEFINE T == {d \in Nat : i + 1 + d <= m.chunks => End(m.rows[i]) <= m.rows[i + 1 + d].addr}
           N == m.chunks - i - 1
<1>1. m.chunks \in 0..Len(m.rows) /\ Len(m.rows) \in Nat BY CountFacts
<1>2. \A k \in 1..(m.chunks - 1) : End(m.rows[k]) <= m.rows[k + 1].addr BY DEF Fine, Ordered
<1>3. \A k \in 1..m.chunks : m.rows[k].addr \in Nat /\ End(m.rows[k]) \in Nat /\ m.rows[k].addr < End(m.rows[k])
  BY InUse
<1>4. N \in Nat BY <1>1
<1>5. 0 \in T BY <1>1, <1>2
<1>6. ASSUME NEW d \in 0..(N - 1), d \in T PROVE d + 1 \in T
  <2>1. i + 1 + d \in 1..(m.chunks - 1) BY <1>1, <1>4
  <2>2. End(m.rows[i]) <= m.rows[i + 1 + d].addr BY <1>1, <1>6, <2>1
  <2>3. End(m.rows[i + 1 + d]) <= m.rows[i + 1 + d + 1].addr BY <1>2, <2>1
  <2>4. i + 1 + d + 1 = i + 1 + (d + 1) /\ i + 1 + d \in 1..m.chunks /\ i + 1 + (d + 1) \in 1..m.chunks BY <1>1, <2>1
  <2> QED BY <1>3, <2>2, <2>3, <2>4
<1>7. 0..N \subseteq T
  <2> HIDE DEF T, N
  <2> QED BY <1>4, <1>5, <1>6, UpTo
<1>8. j - i - 1 \in 0..N /\ i + 1 + (j - i - 1) = j BY <1>1
<1>9. j - i - 1 \in T BY <1>7, <1>8
<1> QED BY <1>1, <1>8, <1>9

----------------------------------------------------------------------------
(* Searching.                                                              *)

\* The recursive function of the binary search exists: it is built up for
\* longer and longer intervals.
LEMMA HalveRuns ==
  ASSUME NEW m, NEW a, m.chunks \in Nat,
         NEW i \in 1..(m.chunks + 1), NEW j \in 1..(m.chunks + 1), NEW k, k = (i + j) \div 2
  PROVE  Halve(m, a)[<<i, j>>] =
           IF i + 1 >= j THEN i
           ELSE IF a < m.rows[k].addr THEN Halve(m, a)[<<i, k>>] ELSE Halve(m, a)[<<k, j>>]
<1> DEFINE Places == 1..(m.chunks + 1)
           Pairs == Places \X Places
           Mid(p) == (p[1] + p[2]) \div 2
           Body(f, p) == IF p[1] + 1 >= p[2] THEN p[1]
                         ELSE IF a < m.rows[Mid(p)].addr THEN f[<<p[1], Mid(p)>>]
                         ELSE f[<<Mid(p), p[2]>>]
           Full(f) == f = [p \in Pairs |-> Body(f, p)]
           T == {d \in Nat : \E f : \A p \in Pairs : p[2] - p[1] <= d => f[p] = Body(f, p)}
<1>1. 0 \in T
  <2> DEFINE f == [p \in Pairs |-> p[1]]
  <2>1. \A p \in Pairs : p[2] - p[1] <= 0 => f[p] = Body(f, p)
    <3> TAKE p \in Pairs
    <3>1. f[p] = p[1] OBVIOUS
    <3> HIDE DEF f
    <3> QED BY <3>1
  <2> HIDE DEF f, Body
  <2> QED BY <2>1
<1>2. ASSUME NEW p \in Pairs, ~ (p[1] + 1 >= p[2])
      PROVE  /\ Mid(p) \in Places /\ <<p[1], Mid(p)>> \in Pairs /\ <<Mid(p), p[2]>> \in Pairs
             /\ p[1] < Mid(p) /\ Mid(p) < p[2]
  <2>1. p[1] \in Places /\ p[2] \in Places OBVIOUS
  <2>2. p[1] < Mid(p) /\ Mid(p) < p[2] /\ Mid(p) \in Int BY <1>2, <2>1
  <2> HIDE DEF Mid
  <2> QED BY <2>1, <2>2
<1>3. ASSUME NEW d \in Nat, NEW f, \A p \in Pairs : p[2] - p[1] <= d => f[p] = Body(f, p)
      PROVE  LET g == [p \in Pairs |-> Body(f, p)]
             IN  \A p \in Pairs : p[2] - p[1] <= d + 1 => g[p] = Body(g, p)
  <2> DEFINE g == [p \in Pairs |-> Body(f, p)]
  <2> SUFFICES ASSUME NEW p \in Pairs, p[2] - p[1] <= d + 1 PROVE g[p] = Body(g, p)
    OBVIOUS
  <2>1. \A q \in Pairs : g[q] = Body(f, q) OBVIOUS
  <2> HIDE DEF g
  <2>2. CASE p[1] + 1 >= p[2] BY <2>1, <2>2
  <2>3. CASE ~ (p[1] + 1 >= p[2])
    <3> DEFINE c == Mid(p)
    <3>1. c \in Places /\ <<p[1], c>> \in Pairs /\ <<c, p[2]>> \in Pairs /\ p[1] < c /\ c < p[2]
      BY <1>2, <2>3
    <3>2. p[1] \in Int /\ p[2] \in Int /\ c \in Int BY <3>1
    <3> HIDE DEF c
    <3> DEFINE l == <<p[1], c>>
               r == <<c, p[2]>>
    <3>3. l[2] - l[1] <= d /\ r[2] - r[1] <= d BY <3>1, <3>2
    <3>4. l \in Pairs /\ r \in Pairs BY <3>1
    <3> HIDE DEF l, r
    <3> HIDE DEF Body
    <3>5. f[l] = g[l] /\ f[r] = g[r] BY <1>3, <2>1, <3>3, <3>4
    <3>6. Body(f, p) = IF a < m.rows[c].addr THEN f[l] ELSE f[r] BY <2>3 DEF Body, c, l, r
    <3>7. Body(g, p) = IF a < m.rows[c].addr THEN g[l] ELSE g[r] BY <2>3 DEF Body, c, l, r
    <3> QED BY <2>1, <3>5, <3>6, <3>7
  <2> QED BY <2>2, <2>3
<1>4. \E f : Full(f)
  <2>1. 0..m.chunks \subseteq T
    <3>1. ASSUME NEW d \in 0..(m.chunks - 1), d \in T PROVE d + 1 \in T
      <4>1. PICK f : \A p \in Pairs : p[2] - p[1] <= d => f[p] = Body(f, p) BY <3>1
      <4> DEFINE g == [p \in Pairs |-> Body(f, p)]
      <4> HIDE DEF Body, Pairs
      <4>2. \A p \in Pairs : p[2] - p[1] <= d + 1 => g[p] = Body(g, p) BY <1>3, <4>1
      <4> HIDE DEF g
      <4> QED BY <4>2
    <3> HIDE DEF T
    <3> QED BY <1>1, <3>1, UpTo
  <2>2. m.chunks \in T
    <3> HIDE DEF T
    <3> QED BY <2>1
  <2>3. PICK f : \A p \in Pairs : p[2] - p[1] <= m.chunks => f[p] = Body(f, p) BY <2>2
  <2> DEFINE g == [p \in Pairs |-> Body(f, p)]
  <2>4. \A p \in Pairs : p[2] - p[1] <= m.chunks + 1 => g[p] = Body(g, p)
    <3> HIDE DEF Body, Pairs
    <3> QED BY <1>3, <2>3
  <2>5. \A p \in Pairs : p[2] - p[1] <= m.chunks + 1 OBVIOUS
  <2>6. DOMAIN g = Pairs /\ g = [p \in Pairs |-> g[p]]
    <3> HIDE DEF Body
    <3> QED OBVIOUS
  <2> HIDE DEF g, Body, Pairs
  <2>7. g = [p \in Pairs |-> Body(g, p)] BY <2>4, <2>5, <2>6
  <2> QED BY <2>7
<1>5. Halve(m, a) = CHOOSE f : Full(f) BY DEF Halve
<1>6. Full(Halve(m, a))
  <2> HIDE DEF Full
  <2> QED BY <1>4, <1>5
<1> DEFINE p == <<i, j>>
<1>7. p \in Pairs /\ p[1] = i /\ p[2] = j OBVIOUS
<1>8. Halve(m, a)[p] = Body(Halve(m, a), p)
  <2> HIDE DEF Body, Pairs, p
  <2> QED BY <1>6, <1>7
<1> QED BY <1>8

\* What the search ends with, between any two places.
LEMMA HalveFinds ==
  ASSUME NEW m, NEW a, m.chunks \in Nat,
         NEW i \in 1..(m.chunks + 1), NEW j \in 1..(m.chunks + 1), i < j,
         NEW r, r = Halve(m, a)[<<i, j>>]
  PROVE  /\ r \in i..(j - 1)
         /\ r = i \/ ~ (a < m.rows[r].addr)
         /\ r = j - 1 \/ a < m.rows[r + 1].addr
<1> DEFINE Found(x, y, z) == /\ z \in x..(y - 1)
                             /\ z = x \/ ~ (a < m.rows[z].addr)
                             /\ z = y - 1 \/ a < m.rows[z + 1].addr
           Places == 1..(m.chunks + 1)
           T == {d \in Nat : \A x, y \in Places : x < y /\ y - x <= d => Found(x, y, Halve(m, a)[<<x, y>>])}
<1>1. 0 \in T OBVIOUS
<1>2. ASSUME NEW d \in 0..(m.chunks - 1), d \in T PROVE d + 1 \in T
  <2> SUFFICES ASSUME NEW x \in Places, NEW y \in Places, x < y, y - x <= d + 1
               PROVE  Found(x, y, Halve(m, a)[<<x, y>>])
    OBVIOUS
  <2> DEFINE k == (x + y) \div 2
  <2>1. Halve(m, a)[<<x, y>>] =
           IF x + 1 >= y THEN x
           ELSE IF a < m.rows[k].addr THEN Halve(m, a)[<<x, k>>] ELSE Halve(m, a)[<<k, y>>]
    BY HalveRuns
  <2>2. CASE x + 1 >= y
    <3>1. y - 1 = x BY <2>2
    <3> QED BY <2>1, <2>2, <3>1
  <2>3. CASE ~ (x + 1 >= y)
    <3>1. k \in Places /\ x < k /\ k < y /\ k - x <= d /\ y - k <= d BY <2>3
    <3> HIDE DEF k
    <3>2. Found(x, k, Halve(m, a)[<<x, k>>]) /\ Found(k, y, Halve(m, a)[<<k, y>>])
      <4> HIDE DEF Found
      <4> QED BY <1>2, <3>1
    <3>3. CASE a < m.rows[k].addr
      <4> DEFINE z == Halve(m, a)[<<x, k>>]
      <4>1. Halve(m, a)[<<x, y>>] = z BY <2>1, <2>3, <3>3
      <4>2. Found(x, k, z) BY <3>2
      <4> HIDE DEF z
      <4>3. Found(x, y, z) BY <3>1, <3>3, <4>2
      <4> QED BY <4>1, <4>3
    <3>4. CASE ~ (a < m.rows[k].addr)
      <4> DEFINE z == Halve(m, a)[<<k, y>>]
      <4>1. Halve(m, a)[<<x, y>>] = z BY <2>1, <2>3, <3>4
      <4>2. Found(k, y, z) BY <3>2
      <4> HIDE DEF z
      <4>3. Found(x, y, z) BY <3>1, <3>4, <4>2
      <4> QED BY <4>1, <4>3
    <3> QED BY <3>3, <3>4
  <2> QED BY <2>2, <2>3
<1>3. 0..m.chunks \subseteq T
  <2> HIDE DEF T
  <2> QED BY <1>1, <1>2, UpTo
<1>4. m.chunks \in T /\ j - i <= m.chunks BY <1>3
<1>5. Found(i, j, r)
  <2> HIDE DEF Found
  <2> QED BY <1>4
<1> QED BY <1>5

\* The search ends at the last row that begins at or below a, at the first row
\* if there is none.
LEMMA SearchEnds ==
  ASSUME NEW m, Fine(m), m.chunks > 0, NEW a \in Nat, NEW i, i = LastAtOrBelow(m, a)
  PROVE  /\ i \in 1..m.chunks
         /\ i = 1 \/ m.rows[i].addr <= a
         /\ \A k \in 1..m.chunks : k > i => a < m.rows[k].addr
<1>1. m.chunks \in Nat /\ m.chunks \in 0..Len(m.rows) /\ Len(m.rows) \in Nat BY CountFacts
<1>2. \A k \in 1..m.chunks : m.rows[k].addr \in Nat /\ End(m.rows[k]) \in Nat /\ m.rows[k].addr < End(m.rows[k])
  BY InUse
<1> DEFINE j == m.chunks + 1
<1>3. 1 \in 1..(m.chunks + 1) /\ j \in 1..(m.chunks + 1) /\ 1 < j BY <1>1
<1>4. i = Halve(m, a)[<<1, j>>] BY DEF LastAtOrBelow
<1>5. /\ i \in 1..(j - 1)
      /\ i = 1 \/ ~ (a < m.rows[i].addr)
      /\ i = j - 1 \/ a < m.rows[i + 1].addr
  <2> HIDE DEF j
  <2> QED BY ONLY <1>1, <1>3, <1>4, HalveFinds
<1>6. i \in 1..m.chunks BY <1>1, <1>5
<1>7. i = 1 \/ m.rows[i].addr <= a BY <1>2, <1>5, <1>6
<1>8. ASSUME NEW k \in 1..m.chunks, k > i PROVE a < m.rows[k].addr
  <2>1. i # j - 1 /\ i + 1 \in 1..m.chunks BY <1>1, <1>6, <1>8
  <2>2. a < m.rows[i + 1].addr BY <1>5, <2>1
  <2>3. CASE k = i + 1 BY <2>2, <2>3
  <2>4. CASE k # i + 1
    <3>1. i + 1 < k BY <1>6, <1>8, <2>4
    <3>2. End(m.rows[i + 1]) <= m.rows[k].addr BY <2>1, <3>1, RowsApart
    <3> QED BY <1>2, <2>1, <2>2, <3>2
  <2> QED BY <2>3, <2>4
<1> QED BY <1>6, <1>7, <1>8

\* No unit is in two rows.
LEMMA OneRow ==
  ASSUME NEW m, Fine(m), NEW i \in 1..m.chunks, NEW j \in 1..m.chunks, NEW u \in Nat,
         In(m.rows[i], u), In(m.rows[j], u)
  PROVE  i = j
<1>1. m.chunks \in 0..Len(m.rows) /\ Len(m.rows) \in Nat BY CountFacts
<1>2. \A k \in 1..m.chunks : m.rows[k].addr \in Nat /\ End(m.rows[k]) \in Nat BY InUse
<1>3. ASSUME i < j PROVE FALSE
  <2>1. End(m.rows[i]) <= m.rows[j].addr BY <1>3, RowsApart
  <2> QED BY <1>2, <2>1 DEF In
<1>4. ASSUME j < i PROVE FALSE
  <2>1. End(m.rows[j]) <= m.rows[i].addr BY <1>4, RowsApart
  <2> QED BY <1>2, <2>1 DEF In
<1> QED BY <1>3, <1>4

\* Unit u of memory m is v: it is in a row, or in none and MEM_BAD.
Reads(m, u, v) ==
  /\ \A i \in 1..m.chunks : In(m.rows[i], u) => At(m.rows[i], u) = v
  /\ (\A i \in 1..m.chunks : ~ In(m.rows[i], u)) => v = MEM_BAD

\* A unit is one value.
LEMMA ReadsOne == ASSUME NEW m, NEW u, NEW v, NEW w, Reads(m, u, v), Reads(m, u, w) PROVE v = w
BY DEF Reads

\* What is in a row is a value.
LEMMA InValue ==
  ASSUME NEW m, Fine(m), NEW i \in 1..Len(m.rows), NEW u \in Nat, In(m.rows[i], u)
  PROVE  /\ i <= m.chunks /\ 1 + u - m.rows[i].addr \in 1..Len(m.rows[i].data)
         /\ At(m.rows[i], u) \in Value
<1>1. /\ m.rows[i].addr \in Nat /\ m.rows[i].data \in Seq(Value) /\ Len(m.rows[i].data) \in Nat
      /\ i > m.chunks => Len(m.rows[i].data) = 0
  BY RowFacts
<1>2. 1 + u - m.rows[i].addr \in 1..Len(m.rows[i].data) BY <1>1 DEF In, End
<1>3. m.chunks \in Nat BY CountFacts
<1>4. i <= m.chunks BY <1>1, <1>2, <1>3
<1> QED BY <1>1, <1>2, <1>4 DEF At

\* What a unit is read as is a value of eight bytes.
LEMMA ReadsValue ==
  ASSUME NEW m, Fine(m), NEW u \in Nat, NEW v, Reads(m, u, v)
  PROVE  v \in Value
<1>1. m.chunks \in 0..Len(m.rows) /\ Len(m.rows) \in Nat BY CountFacts
<1>2. CASE \A i \in 1..m.chunks : ~ In(m.rows[i], u) BY <1>2, BadValue DEF Reads
<1>3. CASE \E i \in 1..m.chunks : In(m.rows[i], u)
  <2>1. PICK i \in 1..m.chunks : In(m.rows[i], u) BY <1>3
  <2>2. i \in 1..Len(m.rows) BY <1>1
  <2> QED BY <2>1, <2>2, InValue DEF Reads
<1> QED BY <1>2, <1>3

\* Read finds the unit, whichever row is remembered, and remembers a row.
LEMMA ReadFinds ==
  ASSUME NEW m, Fine(m), NEW u \in Nat
  PROVE  ReadRow(m, u) \in 0..Len(m.rows) /\ Reads(m, u, ReadValue(m, u))
<1>1. m.chunks \in 0..Len(m.rows) /\ m.chunks \in Nat /\ Len(m.rows) \in Nat /\ m.rd \in 0..Len(m.rows) BY CountFacts
<1>2. \A k \in 1..m.chunks : m.rows[k].addr \in Nat /\ End(m.rows[k]) \in Nat BY InUse
<1>3. ASSUME NEW i \in 1..Len(m.rows), In(m.rows[i], u) PROVE Reads(m, u, At(m.rows[i], u))
  <2>1. i \in 1..m.chunks BY <1>1, <1>3, InValue
  <2>2. \A k \in 1..m.chunks : In(m.rows[k], u) => k = i BY <1>3, <2>1, OneRow
  <2> QED BY <1>3, <2>1, <2>2 DEF Reads
<1>4. CASE Hit(m, m.rd, u)
  <2>1. m.rd \in 1..Len(m.rows) /\ In(m.rows[m.rd], u) BY <1>1, <1>4 DEF Hit
  <2>2. ReadRow(m, u) = m.rd BY <1>4 DEF ReadRow
  <2>3. ReadValue(m, u) = At(m.rows[m.rd], u) BY <2>1, <2>2 DEF ReadValue
  <2> QED BY <1>1, <1>3, <2>1, <2>2, <2>3
<1>5. CASE ~ Hit(m, m.rd, u)
  <2>1. ReadRow(m, u) = _binsearch(m, u) BY <1>5 DEF ReadRow
  <2>2. CASE m.chunks = 0
    <3>1. ReadRow(m, u) = 0 BY <2>1, <2>2 DEF _binsearch
    <3> QED BY <1>1, <2>2, <3>1 DEF ReadValue, Reads
  <2>3. CASE m.chunks > 0
    <3> DEFINE i == LastAtOrBelow(m, u)
    <3>1. /\ i \in 1..m.chunks /\ (i = 1 \/ m.rows[i].addr <= u)
          /\ \A k \in 1..m.chunks : k > i => u < m.rows[k].addr
      BY <2>3, SearchEnds
    <3>2. ReadRow(m, u) = IF In(m.rows[i], u) THEN i ELSE 0 BY <2>1, <2>3 DEF _binsearch
    <3> HIDE DEF i
    <3>3. CASE In(m.rows[i], u)
      <4>1. ReadValue(m, u) = At(m.rows[i], u) BY <3>1, <3>2, <3>3 DEF ReadValue
      <4> QED BY <1>1, <1>3, <3>1, <3>2, <3>3, <4>1
    <3>4. CASE ~ In(m.rows[i], u)
      <4>1. ASSUME NEW k \in 1..m.chunks, In(m.rows[k], u) PROVE FALSE
        <5>1. ~ (k > i) BY <1>2, <3>1, <4>1 DEF In
        <5>2. k < i BY <3>1, <3>4, <4>1, <5>1
        <5>3. End(m.rows[k]) <= m.rows[i].addr BY <3>1, <5>2, RowsApart
        <5> QED BY <1>2, <3>1, <4>1, <5>2, <5>3 DEF In
      <4>2. ReadValue(m, u) = MEM_BAD BY <3>2, <3>4 DEF ReadValue
      <4> QED BY <1>1, <3>2, <3>4, <4>1, <4>2 DEF Reads
    <3> QED BY <3>3, <3>4
  <2> QED BY <1>1, <2>2, <2>3
<1> QED BY <1>4, <1>5

\* Where Write looks: the rows before w end at or below a, those behind it begin
\* at or above a, and row w holds a, ends at it or is behind it.
LEMMA WritePlace ==
  ASSUME NEW m, Fine(m), NEW a \in Nat, NEW w, w = _binsearchw(m, a)
  PROVE  /\ w \in 1..(m.chunks + 1) /\ (w <= m.chunks => a <= End(m.rows[w]))
         /\ \A k \in 1..m.chunks : k < w => End(m.rows[k]) <= a
         /\ \A k \in 1..m.chunks : k > w => a <= m.rows[k].addr
<1>1. m.chunks \in 0..Len(m.rows) /\ m.chunks \in Nat /\ Len(m.rows) \in Nat BY CountFacts
<1>2. \A k \in 1..m.chunks : m.rows[k].addr \in Nat /\ End(m.rows[k]) \in Nat /\ m.rows[k].addr < End(m.rows[k])
  BY InUse
<1>3. CASE m.chunks = 0 BY <1>1, <1>3 DEF _binsearchw
<1>4. CASE m.chunks > 0
  <2> DEFINE i == LastAtOrBelow(m, a)
             r == m.rows[i]
  <2>1. /\ i \in 1..m.chunks /\ (i = 1 \/ m.rows[i].addr <= a)
        /\ \A k \in 1..m.chunks : k > i => a < m.rows[k].addr
    BY <1>4, SearchEnds
  <2>2. w = IF r.addr <= a /\ a <= End(r)
            THEN IF i > 1 /\ End(m.rows[i - 1]) = a THEN i - 1 ELSE i
            ELSE IF a < m.rows[1].addr THEN 1
            ELSE IF a > End(m.rows[m.chunks]) THEN m.chunks + 1 ELSE i + 1
    BY <1>4 DEF _binsearchw
  <2> HIDE DEF i
  <2>3. \A k \in 1..m.chunks : k < i => End(m.rows[k]) <= m.rows[i].addr BY <2>1, RowsApart
  <2>4. CASE r.addr <= a /\ a <= End(r)
    <3>1. w \in {i - 1, i} /\ w >= 1 /\ (w = i - 1 => End(m.rows[w]) = a) BY <2>1, <2>2, <2>4
    <3>2. \A k \in 1..m.chunks : k < i => End(m.rows[k]) <= a BY <1>2, <2>1, <2>3, <2>4
    <3>3. CASE w = i
      <4>1. a <= End(m.rows[w]) BY <2>4, <3>3
      <4>2. \A k \in 1..m.chunks : k > w => a <= m.rows[k].addr BY <1>2, <2>1, <3>3
      <4> QED BY <1>1, <2>1, <3>2, <3>3, <4>1, <4>2
    <3>4. CASE w = i - 1
      <4>1. w \in 1..m.chunks /\ w < i BY <1>1, <2>1, <3>1, <3>4
      <4>2. End(m.rows[w]) <= m.rows[i].addr BY <2>3, <4>1
      <4>3. m.rows[i].addr = a BY <1>2, <2>1, <2>4, <3>1, <3>4, <4>2
      <4>4. \A k \in 1..m.chunks : k > w => k = i \/ k > i BY <2>1, <3>4
      <4>5. a <= End(m.rows[w]) BY <3>1, <3>4
      <4>6. \A k \in 1..m.chunks : k > w => a <= m.rows[k].addr BY <1>2, <2>1, <4>3, <4>4
      <4>7. \A k \in 1..m.chunks : k < w => End(m.rows[k]) <= a BY <2>1, <3>2, <4>1
      <4> QED BY <1>1, <4>1, <4>5, <4>6, <4>7
    <3> QED BY <3>1, <3>3, <3>4
  <2>5. CASE ~ (r.addr <= a /\ a <= End(r)) /\ a < m.rows[1].addr
    <3>1. w = 1 BY <2>2, <2>5
    <3>2. \A k \in 1..m.chunks : k > 1 => a <= m.rows[k].addr
      <4> TAKE k \in 1..m.chunks
      <4> HAVE k > 1
      <4>1. 1 \in 1..m.chunks /\ 1 < k BY <1>1, <1>4
      <4>2. End(m.rows[1]) <= m.rows[k].addr BY <4>1, RowsApart
      <4> QED BY <1>2, <2>5, <4>1, <4>2
    <3>3. 1 \in 1..m.chunks BY <1>1, <1>4
    <3>4. a <= End(m.rows[1]) BY <1>2, <2>5, <3>3
    <3> QED BY <1>1, <3>1, <3>2, <3>3, <3>4
  <2>6. CASE ~ (r.addr <= a /\ a <= End(r)) /\ ~ (a < m.rows[1].addr)
    <3>1. m.rows[i].addr <= a BY <1>1, <1>2, <1>4, <2>1, <2>6
    <3>2. a > End(m.rows[i]) BY <1>2, <2>1, <2>6, <3>1
    <3>3. \A k \in 1..m.chunks : k <= i => End(m.rows[k]) <= a BY <1>2, <2>1, <2>3, <3>1, <3>2
    <3>4. CASE a > End(m.rows[m.chunks])
      <4>1. w = m.chunks + 1 BY <2>2, <2>6, <3>4
      <4>2. i = m.chunks
        <5>1. SUFFICES ASSUME i < m.chunks PROVE FALSE BY <1>1, <2>1
        <5>2. m.chunks \in 1..m.chunks BY <1>1, <1>4
        <5>3. a < m.rows[m.chunks].addr BY <2>1, <5>1, <5>2
        <5> QED BY <1>2, <3>4, <5>2, <5>3
      <4> QED BY <1>1, <3>3, <4>1, <4>2
    <3>5. CASE ~ (a > End(m.rows[m.chunks]))
      <4>1. w = i + 1 BY <2>2, <2>6, <3>5
      <4>2. \A k \in 1..m.chunks : (k < w => k <= i) /\ (k >= w => k > i) BY <2>1, <4>1
      <4>3. ASSUME w <= m.chunks PROVE a <= End(m.rows[w])
        <5>1. w \in 1..m.chunks /\ w > i BY <2>1, <4>1, <4>3
        <5>2. a < m.rows[w].addr BY <2>1, <5>1
        <5> QED BY <1>2, <5>1, <5>2
      <4>4. \A k \in 1..m.chunks : k > w => a <= m.rows[k].addr BY <1>2, <2>1, <4>1
      <4>5. w \in 1..(m.chunks + 1) BY <1>1, <2>1, <4>1
      <4> QED BY <3>3, <4>2, <4>3, <4>4, <4>5
    <3> QED BY <3>4, <3>5
  <2> QED BY <2>4, <2>5, <2>6
<1> QED BY <1>1, <1>3, <1>4

----------------------------------------------------------------------------
(* Changing rows.                                                          *)

\* What is in a row is what a read gives; what is in none is MEM_BAD.
LEMMA RowReads ==
  ASSUME NEW m, Fine(m), NEW i \in 1..m.chunks, NEW u \in Nat, In(m.rows[i], u)
  PROVE  Reads(m, u, At(m.rows[i], u))
BY OneRow DEF Reads

\* n holds what m does.
Same(m, n) == \A u \in Nat : \A v : Reads(m, u, v) => Reads(n, u, v)

\* n holds what m does if its rows hold that, and every unit that is in a row
\* of m is in one of n.
LEMMA SameIf ==
  ASSUME NEW m, NEW n,
         \A i \in 1..n.chunks : \A u \in Nat : In(n.rows[i], u) => Reads(m, u, At(n.rows[i], u)),
         \A k \in 1..m.chunks : \A u \in Nat : In(m.rows[k], u) => \E i \in 1..n.chunks : In(n.rows[i], u)
  PROVE  Same(m, n)
<1> SUFFICES ASSUME NEW u \in Nat, NEW v, Reads(m, u, v) PROVE Reads(n, u, v)
  BY DEF Same
<1>1. ASSUME NEW i \in 1..n.chunks, In(n.rows[i], u) PROVE At(n.rows[i], u) = v BY <1>1, ReadsOne
<1>2. ASSUME \A i \in 1..n.chunks : ~ In(n.rows[i], u) PROVE v = MEM_BAD
  <2>1. \A k \in 1..m.chunks : ~ In(m.rows[k], u) BY <1>2
  <2> QED BY <2>1 DEF Reads
<1> QED BY <1>1, <1>2 DEF Reads

\* Which row was used last is not part of what a memory holds.
LEMMA Remembers ==
  ASSUME NEW m, Fine(m), NEW r \in 0..Len(m.rows)
  PROVE  /\ Fine([m EXCEPT !.rd = r]) /\ Fine([m EXCEPT !.wr = r])
         /\ \A u, v : Reads([m EXCEPT !.rd = r], u, v) <=> Reads(m, u, v)
         /\ \A u, v : Reads([m EXCEPT !.wr = r], u, v) <=> Reads(m, u, v)
<1>1. m \in Memories /\ Len(m.rows) \in Nat BY CountFacts DEF Fine
<1> DEFINE n == [m EXCEPT !.rd = r]
           p == [m EXCEPT !.wr = r]
<1>2. n \in Memories /\ n.rows = m.rows /\ n.chunks = m.chunks /\ n.rd = r /\ n.wr = m.wr BY <1>1 DEF Memories
<1>3. p \in Memories /\ p.rows = m.rows /\ p.chunks = m.chunks /\ p.rd = m.rd /\ p.wr = r BY <1>1 DEF Memories
<1> HIDE DEF n, p
<1>4. Fine(n) BY <1>2 DEF Fine, Ordered, Behind
<1>5. Fine(p) BY <1>3 DEF Fine, Ordered, Behind
<1>6. \A u, v : Reads(n, u, v) <=> Reads(m, u, v) BY <1>2 DEF Reads
<1>7. \A u, v : Reads(p, u, v) <=> Reads(m, u, v) BY <1>3 DEF Reads
<1> QED BY <1>4, <1>5, <1>6, <1>7 DEF n, p

WithRow(m, c, r) == [m EXCEPT !.rows[c] = r]

\* A row may be replaced by another one that fits between its neighbours.
LEMMA Replaced ==
  ASSUME NEW m, Fine(m), NEW c \in 1..m.chunks, NEW r \in Row, r.data # <<>>,
         c > 1 => End(m.rows[c - 1]) <= r.addr, c < m.chunks => End(r) <= m.rows[c + 1].addr,
         NEW n, n = WithRow(m, c, r)
  PROVE  /\ Fine(n) /\ n.chunks = m.chunks /\ Len(n.rows) = Len(m.rows)
         /\ n.rows[c] = r /\ \A i \in 1..Len(m.rows) : i # c => n.rows[i] = m.rows[i]
<1>1. m \in Memories /\ m.rows \in Seq(Row) BY DEF Fine, Memories
<1>2. m.chunks \in 0..Len(m.rows) /\ m.chunks \in Nat /\ Len(m.rows) \in Nat /\ c \in 1..Len(m.rows) BY CountFacts
<1>3. n.rows = [m.rows EXCEPT ![c] = r] /\ n.chunks = m.chunks /\ n.rd = m.rd /\ n.wr = m.wr
  BY <1>1 DEF Memories, WithRow
<1>4. n.rows \in Seq(Row) /\ Len(n.rows) = Len(m.rows) BY <1>1, <1>2, <1>3
<1>5. n \in Memories BY <1>1, <1>3, <1>4 DEF Memories, WithRow
<1>6. n.rows[c] = r /\ \A i \in 1..Len(m.rows) : i # c => n.rows[i] = m.rows[i] BY <1>1, <1>2, <1>3
<1>7. \A i \in 1..n.chunks : n.rows[i].data # <<>> BY <1>2, <1>3, <1>6 DEF Fine, Ordered
<1>8. ASSUME NEW i \in 1..(n.chunks - 1) PROVE End(n.rows[i]) <= n.rows[i + 1].addr
  <2>1. i \in 1..Len(m.rows) /\ i + 1 \in 1..Len(m.rows) /\ i \in 1..(m.chunks - 1) BY <1>2, <1>3
  <2>2. End(m.rows[i]) <= m.rows[i + 1].addr BY <2>1 DEF Fine, Ordered
  <2>3. CASE i = c BY <1>2, <1>3, <1>6, <2>1, <2>3
  <2>4. CASE i + 1 = c
    <3>1. c - 1 = i /\ c > 1 BY <2>1, <2>4
    <3> QED BY <1>6, <2>1, <2>4, <3>1
  <2>5. CASE i # c /\ i + 1 # c BY <1>6, <2>1, <2>2, <2>5
  <2> QED BY <2>3, <2>4, <2>5
<1>9. \A i \in Behind(n) : n.rows[i].data = <<>>
  <2> TAKE i \in Behind(n)
  <2>1. i \in Behind(m) /\ i \in 1..Len(m.rows) /\ i # c BY <1>2, <1>3, <1>4 DEF Behind
  <2> QED BY <1>6, <2>1 DEF Fine, Ordered
<1>10. n.chunks \in 0..Len(n.rows) /\ {n.rd, n.wr} \subseteq 0..Len(n.rows) BY <1>3, <1>4 DEF Fine, Ordered
<1> QED BY <1>3, <1>4, <1>5, <1>6, <1>7, <1>8, <1>9, <1>10 DEF Fine, Ordered

\* A row may grow into units that are in no row, with MEM_BAD in them.
LEMMA Grown ==
  ASSUME NEW m, Fine(m), NEW c \in 1..m.chunks, NEW r \in Row,
         c > 1 => End(m.rows[c - 1]) <= r.addr, c < m.chunks => End(r) <= m.rows[c + 1].addr,
         r.addr <= m.rows[c].addr, End(m.rows[c]) <= End(r),
         \A u \in Nat : In(r, u) => At(r, u) = IF In(m.rows[c], u) THEN At(m.rows[c], u) ELSE MEM_BAD,
         NEW n, n = WithRow(m, c, r)
  PROVE  Fine(n) /\ n.chunks = m.chunks /\ Len(n.rows) = Len(m.rows) /\ n.rows[c] = r /\ Same(m, n)
<1>1. m.chunks \in 0..Len(m.rows) /\ m.chunks \in Nat /\ Len(m.rows) \in Nat /\ c \in 1..Len(m.rows) BY CountFacts
<1>2. \A k \in 1..m.chunks : m.rows[k].addr \in Nat /\ End(m.rows[k]) \in Nat /\ m.rows[k].addr < End(m.rows[k])
  BY InUse
<1>3. r.addr \in Nat /\ Len(r.data) \in Nat /\ End(r) \in Nat BY DEF Row, End
<1>4. r.data # <<>> BY <1>2, <1>3 DEF End
<1>5. /\ Fine(n) /\ n.chunks = m.chunks /\ Len(n.rows) = Len(m.rows)
      /\ n.rows[c] = r /\ \A i \in 1..Len(m.rows) : i # c => n.rows[i] = m.rows[i]
  <2>1. Fine(m) /\ c \in 1..m.chunks /\ r \in Row /\ n = WithRow(m, c, r) OBVIOUS
  <2>2. (c > 1 => End(m.rows[c - 1]) <= r.addr) /\ (c < m.chunks => End(r) <= m.rows[c + 1].addr) OBVIOUS
  <2> QED BY ONLY <1>4, <2>1, <2>2, Replaced
<1>6. ASSUME NEW i \in 1..n.chunks, NEW u \in Nat, In(n.rows[i], u) PROVE Reads(m, u, At(n.rows[i], u))
  <2>1. i \in 1..m.chunks /\ i \in 1..Len(m.rows) BY <1>1, <1>5
  <2>2. CASE i # c
    <3>1. n.rows[i] = m.rows[i] BY <1>5, <2>1, <2>2
    <3> QED BY <1>6, <2>1, <3>1, RowReads
  <2>3. CASE i = c /\ In(m.rows[c], u)
    <3>1. At(n.rows[i], u) = At(m.rows[c], u) BY <1>5, <1>6, <2>3
    <3> QED BY <2>3, <3>1, RowReads
  <2>4. CASE i = c /\ ~ In(m.rows[c], u)
    <3>1. At(n.rows[i], u) = MEM_BAD /\ In(r, u) BY <1>5, <1>6, <2>4
    <3>2. ASSUME NEW k \in 1..m.chunks, In(m.rows[k], u) PROVE FALSE
      <4>1. k # c BY <2>4, <3>2
      <4>2. k \in 1..n.chunks /\ In(n.rows[k], u) BY <1>1, <1>5, <3>2, <4>1
      <4>3. k = i BY <1>5, <1>6, <4>2, OneRow
      <4> QED BY <2>4, <4>1, <4>3
    <3> QED BY <3>1, <3>2 DEF Reads
  <2> QED BY <2>2, <2>3, <2>4
<1>7. ASSUME NEW k \in 1..m.chunks, NEW u \in Nat, In(m.rows[k], u) PROVE \E i \in 1..n.chunks : In(n.rows[i], u)
  <2>1. CASE k = c
    <3>1. In(r, u) BY <1>2, <1>3, <1>7, <2>1 DEF In
    <3> QED BY <1>5, <3>1
  <2>2. CASE k # c BY <1>1, <1>5, <1>7, <2>2
  <2> QED BY <2>1, <2>2
<1> QED BY <1>5, <1>6, <1>7, SameIf

\* Set changes one unit of a row.
LEMMA SetRow ==
  ASSUME NEW r \in Row, NEW a \in Nat, In(r, a), NEW v \in Value, NEW s, s = Set(r, a, v)
  PROVE  /\ s \in Row /\ s.addr = r.addr /\ Len(s.data) = Len(r.data) /\ End(s) = End(r)
         /\ \A u \in Nat : In(s, u) <=> In(r, u)
         /\ \A u \in Nat : In(r, u) => At(s, u) = IF u = a THEN v ELSE At(r, u)
<1>1. r.addr \in Nat /\ r.data \in Seq(Value) /\ Len(r.data) \in Nat BY DEF Row
<1>2. 1 + a - r.addr \in 1..Len(r.data) BY <1>1 DEF In, End
<1>3. s.addr = r.addr /\ s.data = [r.data EXCEPT ![1 + a - r.addr] = v] BY DEF Set, Row
<1>4. s.data \in Seq(Value) /\ Len(s.data) = Len(r.data) BY <1>1, <1>2, <1>3
<1>5. s \in Row BY <1>1, <1>3, <1>4 DEF Set, Row
<1>6. End(s) = End(r) BY <1>3, <1>4 DEF End
<1>7. \A u \in Nat : In(s, u) <=> In(r, u) BY <1>3, <1>6 DEF In
<1>8. ASSUME NEW u \in Nat, In(r, u) PROVE At(s, u) = IF u = a THEN v ELSE At(r, u)
  <2>1. 1 + u - r.addr \in 1..Len(r.data) BY <1>1, <1>8 DEF In, End
  <2>2. s.data[1 + u - r.addr] = IF 1 + u - r.addr = 1 + a - r.addr THEN v ELSE r.data[1 + u - r.addr]
    BY <1>1, <1>2, <1>3, <2>1
  <2> QED BY <1>1, <1>3, <2>2 DEF At
<1> QED BY <1>3, <1>4, <1>5, <1>6, <1>7, <1>8

\* Storing a word in a row changes what is in its unit only.
LEMMA SetEffect ==
  ASSUME NEW m, Fine(m), NEW c \in 1..m.chunks, NEW a \in Nat, In(m.rows[c], a), NEW v \in Value,
         NEW n, n = WithRow(m, c, Set(m.rows[c], a, v))
  PROVE  /\ Fine(n) /\ n.chunks = m.chunks /\ Len(n.rows) = Len(m.rows)
         /\ \A u \in Nat : \A x : Reads(m, u, x) => Reads(n, u, IF u = a THEN v ELSE x)
<1> DEFINE r == Set(m.rows[c], a, v)
<1>1. m.chunks \in 0..Len(m.rows) /\ m.chunks \in Nat /\ Len(m.rows) \in Nat BY CountFacts
<1>2. c \in 1..Len(m.rows) /\ m.rows[c] \in Row BY <1>1, RowFacts
<1>3. Len(m.rows[c].data) > 0 /\ Len(m.rows[c].data) \in Nat BY InUse
<1>4. /\ r \in Row /\ r.addr = m.rows[c].addr /\ Len(r.data) = Len(m.rows[c].data) /\ End(r) = End(m.rows[c])
      /\ \A u \in Nat : In(r, u) <=> In(m.rows[c], u)
      /\ \A u \in Nat : In(m.rows[c], u) => At(r, u) = IF u = a THEN v ELSE At(m.rows[c], u)
  BY <1>2, SetRow
<1> HIDE DEF r
<1>5. r.data # <<>> BY <1>3, <1>4
<1>6. c > 1 => End(m.rows[c - 1]) <= r.addr
  <2>1. ASSUME c > 1 PROVE c - 1 \in 1..m.chunks /\ c - 1 < c BY <1>1, <2>1
  <2> QED BY <1>4, <2>1, RowsApart
<1>7. c < m.chunks => End(r) <= m.rows[c + 1].addr
  <2>1. ASSUME c < m.chunks PROVE c + 1 \in 1..m.chunks /\ c < c + 1 BY <1>1, <2>1
  <2> QED BY <1>4, <2>1, RowsApart
<1>8. /\ Fine(n) /\ n.chunks = m.chunks /\ Len(n.rows) = Len(m.rows)
      /\ n.rows[c] = r /\ \A i \in 1..Len(m.rows) : i # c => n.rows[i] = m.rows[i]
  <2>1. Fine(m) /\ c \in 1..m.chunks /\ n = WithRow(m, c, r) BY DEF r
  <2> QED BY ONLY <1>4, <1>5, <1>6, <1>7, <2>1, Replaced
<1>9. ASSUME NEW u \in Nat, NEW i \in 1..m.chunks PROVE In(n.rows[i], u) <=> In(m.rows[i], u)
  <2>1. i \in 1..Len(m.rows) BY <1>1
  <2> QED BY <1>4, <1>8, <2>1
<1>10. ASSUME NEW u \in Nat, NEW x, Reads(m, u, x) PROVE Reads(n, u, IF u = a THEN v ELSE x)
  <2>1. ASSUME NEW i \in 1..m.chunks, In(n.rows[i], u) PROVE At(n.rows[i], u) = IF u = a THEN v ELSE x
    <3>1. In(m.rows[i], u) /\ i \in 1..Len(m.rows) BY <1>1, <1>9, <2>1
    <3>2. At(m.rows[i], u) = x BY <1>10, <3>1 DEF Reads
    <3>3. CASE i = c BY <1>4, <1>8, <3>1, <3>2, <3>3
    <3>4. CASE i # c
      <4>1. u # a BY <3>1, <3>4, OneRow
      <4> QED BY <1>8, <3>1, <3>2, <3>4, <4>1
    <3> QED BY <3>3, <3>4
  <2>2. ASSUME \A i \in 1..m.chunks : ~ In(n.rows[i], u) PROVE (IF u = a THEN v ELSE x) = MEM_BAD
    <3>1. \A i \in 1..m.chunks : ~ In(m.rows[i], u) BY <1>9, <2>2
    <3> QED BY <1>10, <3>1 DEF Reads
  <2> QED BY <1>8, <2>1, <2>2 DEF Reads
<1> QED BY <1>8, <1>10

\* What a new part of a row is filled with.
LEMMA BadRow == ASSUME NEW k \in Nat
                PROVE  /\ Bad(k) \in Seq(Value) /\ Len(Bad(k)) = k
                       /\ \A i \in 1..k : Bad(k)[i] = MEM_BAD
BY BadValue DEF Bad

\* A row with other data is the row with its address and that data.
LEMMA RowData == ASSUME NEW r \in Row, NEW d
                 PROVE  [r EXCEPT !.data = d] = [addr |-> r.addr, data |-> d]
BY DEF Row

\* What is where in one sequence behind another one.
LEMMA JoinData ==
  ASSUME NEW S, NEW s \in Seq(S), NEW t \in Seq(S), NEW d, d = s \o t
  PROVE  /\ d \in Seq(S) /\ Len(d) = Len(s) + Len(t)
         /\ \A i \in 1..Len(s) : d[i] = s[i]
         /\ \A i \in 1..Len(t) : d[Len(s) + i] = t[i]
<1>1. Len(s) \in Nat /\ Len(t) \in Nat OBVIOUS
<1>2. d \in Seq(S) /\ Len(d) = Len(s) + Len(t) BY ConcatProperties
<1>3. \A i \in 1..(Len(s) + Len(t)) : d[i] = IF i <= Len(s) THEN s[i] ELSE t[i - Len(s)] BY ConcatProperties
<1>4. ASSUME NEW i \in 1..Len(s) PROVE d[i] = s[i]
  <2>1. i \in 1..(Len(s) + Len(t)) /\ i <= Len(s) BY <1>1
  <2> QED BY <1>3, <2>1
<1>5. ASSUME NEW i \in 1..Len(t) PROVE d[Len(s) + i] = t[i]
  <2>1. Len(s) + i \in 1..(Len(s) + Len(t)) /\ ~ (Len(s) + i <= Len(s)) /\ Len(s) + i - Len(s) = i BY <1>1
  <2> QED BY <1>3, <2>1
<1> QED BY <1>2, <1>4, <1>5

\* Extending a row by doubling it reaches the next unit and no other row.
LEMMA MoreEffect ==
  ASSUME NEW m, Fine(m), NEW c \in 1..m.chunks, c < m.chunks => End(m.rows[c]) < m.rows[c + 1].addr,
         NEW n, n = get_more(m, c)
  PROVE  /\ Fine(n) /\ n.chunks = m.chunks /\ Len(n.rows) = Len(m.rows) /\ Same(m, n)
         /\ In(n.rows[c], End(m.rows[c]))
<1> DEFINE q == m.rows[c]
           want == IF Len(q.data) < DoubleThreshold THEN Len(q.data) ELSE ChunkSize
           room == m.rows[c + 1].addr - End(q)
           k == IF c < m.chunks THEN Least(want, room) ELSE want
           r == [addr |-> q.addr, data |-> q.data \o Bad(k)]
<1> HIDE DEF q, want, room, k, r
<1>1. m.chunks \in 0..Len(m.rows) /\ m.chunks \in Nat /\ Len(m.rows) \in Nat /\ m.rows \in Seq(Row) BY CountFacts
<1>2. c \in 1..Len(m.rows) /\ q \in Row BY <1>1, RowFacts DEF q
<1>3. /\ q.addr \in Nat /\ q.data \in Seq(Value) /\ Len(q.data) \in Nat /\ Len(q.data) > 0
      /\ End(q) = q.addr + Len(q.data) BY InUse DEF End, q
<1>4. want \in Nat \ {0} BY <1>3, MemAssumption DEF want
<1>5. k \in Nat \ {0} /\ (c < m.chunks => End(q) + k <= m.rows[c + 1].addr)
  <2>1. CASE c < m.chunks
    <3>1. c + 1 \in 1..m.chunks BY <1>1, <2>1
    <3>2. m.rows[c + 1].addr \in Nat BY <3>1, InUse
    <3>3. End(q) < m.rows[c + 1].addr /\ room = m.rows[c + 1].addr - End(q) BY <2>1 DEF q, room
    <3>4. k = Least(want, room) BY <2>1 DEF k
    <3>5. End(q) \in Nat BY <1>3
    <3>6. room \in Nat \ {0} /\ End(q) + room = m.rows[c + 1].addr BY ONLY <3>2, <3>3, <3>5
    <3>7. k \in Nat \ {0} /\ k <= room BY <1>4, <3>4, <3>6 DEF Least
    <3> QED BY <3>5, <3>6, <3>7
  <2>2. CASE ~ (c < m.chunks) BY <1>4, <2>2 DEF k
  <2> QED BY <2>1, <2>2
<1>6. n = WithRow(m, c, r)
  <2>1. n = [m EXCEPT !.rows[c].data = @ \o Bad(k)] BY DEF get_more, k, want, room, q
  <2>2. [q EXCEPT !.data = @ \o Bad(k)] = r BY <1>2, RowData DEF r
  <2>3. n = [m EXCEPT !.rows[c] = [q EXCEPT !.data = @ \o Bad(k)]] BY <2>1 DEF q
  <2> QED BY <2>2, <2>3 DEF WithRow
<1>7. /\ r.data \in Seq(Value) /\ Len(r.data) = Len(q.data) + k
      /\ \A i \in 1..Len(q.data) : r.data[i] = q.data[i]
      /\ \A i \in 1..k : r.data[Len(q.data) + i] = MEM_BAD
  <2>1. Bad(k) \in Seq(Value) /\ Len(Bad(k)) = k /\ \A i \in 1..k : Bad(k)[i] = MEM_BAD BY <1>5, BadRow
  <2>2. r.data = q.data \o Bad(k) BY DEF r
  <2>3. q.data \in Seq(Value) BY <1>3
  <2> DEFINE s == q.data
             t == Bad(k)
             d == r.data
  <2> HIDE DEF s, t, d
  <2>4. s \in Seq(Value) /\ t \in Seq(Value) /\ d = s \o t BY <2>1, <2>2, <2>3 DEF s, t, d
  <2>5. /\ d \in Seq(Value) /\ Len(d) = Len(s) + Len(t)
        /\ \A i \in 1..Len(s) : d[i] = s[i]
        /\ \A i \in 1..Len(t) : d[Len(s) + i] = t[i]
    BY ONLY <2>4, JoinData
  <2> QED BY <2>1, <2>5 DEF s, t, d
<1>8. r \in Row /\ r.addr = q.addr BY <1>3, <1>7 DEF Row, r
<1>9. End(r) = End(q) + k BY <1>3, <1>5, <1>7, <1>8 DEF End
<1>10. ASSUME NEW u \in Nat, In(r, u) PROVE At(r, u) = IF In(q, u) THEN At(q, u) ELSE MEM_BAD
  <2>1. 1 + u - q.addr \in 1..(Len(q.data) + k) BY <1>3, <1>5, <1>8, <1>9, <1>10 DEF In
  <2>2. In(q, u) <=> 1 + u - q.addr \in 1..Len(q.data) BY <1>3, <1>8, <1>10 DEF In
  <2>3. At(r, u) = r.data[1 + u - q.addr] /\ At(q, u) = q.data[1 + u - q.addr] BY <1>8 DEF At
  <2>4. CASE In(q, u) BY <1>7, <2>2, <2>3, <2>4
  <2>5. CASE ~ In(q, u)
    <3> DEFINE i == 1 + u - q.addr - Len(q.data)
    <3>1. i \in 1..k /\ Len(q.data) + i = 1 + u - q.addr BY <1>3, <1>5, <2>1, <2>2, <2>5
    <3> HIDE DEF i
    <3>2. r.data[Len(q.data) + i] = MEM_BAD BY <1>7, <3>1
    <3> QED BY <2>3, <2>5, <3>1, <3>2
  <2> QED BY <2>4, <2>5
<1>11. c > 1 => End(m.rows[c - 1]) <= r.addr
  <2>1. ASSUME c > 1 PROVE c - 1 \in 1..m.chunks /\ c - 1 < c BY <1>1, <2>1
  <2> QED BY <1>8, <2>1, RowsApart DEF q
<1>12. c < m.chunks => End(r) <= m.rows[c + 1].addr BY <1>5, <1>9
<1>13. r.addr <= q.addr /\ End(q) <= End(r) BY <1>3, <1>5, <1>8, <1>9
<1>14. Fine(n) /\ n.chunks = m.chunks /\ Len(n.rows) = Len(m.rows) /\ n.rows[c] = r /\ Same(m, n)
  <2>1. Fine(m) /\ c \in 1..m.chunks OBVIOUS
  <2> QED BY ONLY <1>6, <1>8, <1>10, <1>11, <1>12, <1>13, <2>1, Grown DEF q
<1>15. In(r, End(q)) BY <1>3, <1>5, <1>8, <1>9 DEF In
<1> QED BY <1>14, <1>15 DEF q

\* Extending the next row downward reaches the unit and no other row.
LEMMA DownEffect ==
  ASSUME NEW m, Fine(m), NEW c \in 1..m.chunks, c > 1, NEW size \in Nat, NEW a \in Nat,
         End(m.rows[c - 1]) <= a, a < m.rows[c].addr, m.rows[c].addr - a <= size,
         NEW n, n = GrowDown(m, c, size)
  PROVE  /\ Fine(n) /\ n.chunks = m.chunks /\ Len(n.rows) = Len(m.rows) /\ Same(m, n)
         /\ In(n.rows[c], a)
<1> DEFINE q == m.rows[c]
           e == End(m.rows[c - 1])
           gap == Least(q.addr - e, size)
           r == [addr |-> q.addr - gap, data |-> Bad(gap) \o q.data]
<1> HIDE DEF q, e, gap, r
<1>1. m.chunks \in 0..Len(m.rows) /\ m.chunks \in Nat /\ Len(m.rows) \in Nat /\ m.rows \in Seq(Row) BY CountFacts
<1>2. c \in 1..Len(m.rows) /\ q \in Row BY <1>1, RowFacts DEF q
<1>3. /\ q.addr \in Nat /\ q.data \in Seq(Value) /\ Len(q.data) \in Nat /\ Len(q.data) > 0
      /\ End(q) = q.addr + Len(q.data) BY InUse DEF End, q
<1>4. e \in Nat /\ e <= a /\ a < q.addr /\ q.addr - a <= size
  <2>1. c - 1 \in 1..m.chunks BY <1>1
  <2> QED BY <2>1, InUse DEF e, q
<1>5. gap \in Nat /\ gap <= q.addr - e /\ q.addr - a <= gap BY <1>3, <1>4 DEF gap, Least
<1>6. n = WithRow(m, c, r)
  <2>1. n = [m EXCEPT !.rows[c] = [addr |-> @.addr - gap, data |-> Bad(gap) \o @.data]]
    BY DEF GrowDown, gap, q, e
  <2>2. n = [m EXCEPT !.rows[c] = [addr |-> q.addr - gap, data |-> Bad(gap) \o q.data]] BY <2>1 DEF q
  <2> QED BY <2>2 DEF WithRow, r
<1>7. /\ r.data \in Seq(Value) /\ Len(r.data) = gap + Len(q.data)
      /\ \A i \in 1..gap : r.data[i] = MEM_BAD
      /\ \A i \in 1..Len(q.data) : r.data[gap + i] = q.data[i]
  <2>1. Bad(gap) \in Seq(Value) /\ Len(Bad(gap)) = gap /\ \A i \in 1..gap : Bad(gap)[i] = MEM_BAD BY <1>5, BadRow
  <2>2. r.data = Bad(gap) \o q.data BY DEF r
  <2> DEFINE s == Bad(gap)
             t == q.data
             d == r.data
  <2> HIDE DEF s, t, d
  <2>3. s \in Seq(Value) /\ t \in Seq(Value) /\ d = s \o t BY <1>3, <2>1, <2>2 DEF s, t, d
  <2>4. /\ d \in Seq(Value) /\ Len(d) = Len(s) + Len(t)
        /\ \A i \in 1..Len(s) : d[i] = s[i]
        /\ \A i \in 1..Len(t) : d[Len(s) + i] = t[i]
    BY ONLY <2>3, JoinData
  <2> QED BY <2>1, <2>4 DEF s, t, d
<1>8. r.addr = q.addr - gap BY DEF r
<1>9. r.addr \in Nat BY <1>3, <1>4, <1>5, <1>8
<1>10. r \in Row BY <1>7, <1>8, <1>9 DEF Row, r
<1>11. End(r) = End(q) BY <1>3, <1>5, <1>7, <1>8 DEF End
<1>12. ASSUME NEW u \in Nat, In(r, u) PROVE At(r, u) = IF In(q, u) THEN At(q, u) ELSE MEM_BAD
  <2>1. 1 + u - r.addr \in 1..(gap + Len(q.data))
    <3> DEFINE x == r.addr
               y == q.addr
               l == Len(q.data)
    <3>1. x <= u /\ u < y + l BY <1>3, <1>11, <1>12 DEF In
    <3>2. x = y - gap /\ y \in Nat /\ gap \in Nat /\ l \in Nat /\ u \in Nat BY <1>3, <1>5, <1>8, <1>12
    <3> HIDE DEF x, y, l
    <3>3. 1 + u - x \in 1..(gap + l) BY ONLY <3>1, <3>2
    <3> QED BY <3>3 DEF x, l
  <2>2. In(q, u) <=> q.addr <= u BY <1>11, <1>12 DEF In
  <2>3. At(r, u) = r.data[1 + u - r.addr] /\ At(q, u) = q.data[1 + u - q.addr] BY DEF At
  <2>4. CASE In(q, u)
    <3> DEFINE i == 1 + u - q.addr
    <3>3. i \in 1..Len(q.data)
      <4>1. q.addr <= u BY <2>2, <2>4
      <4>2. 1 + u - r.addr = gap + i BY <1>3, <1>5, <1>8
      <4>3. i \in Int /\ i >= 1 BY <1>3, <4>1
      <4> QED BY <1>3, <1>5, <2>1, <4>2, <4>3
    <3>1. i \in 1..Len(q.data) /\ gap + i = 1 + u - r.addr BY <1>3, <1>5, <1>8, <3>3
    <3>2. At(q, u) = q.data[i] BY <2>3
    <3> HIDE DEF i
    <3> QED BY <1>7, <2>3, <2>4, <3>1, <3>2
  <2>5. CASE ~ In(q, u)
    <3>1. 1 + u - r.addr \in 1..gap BY <1>3, <1>5, <1>8, <2>1, <2>2, <2>5
    <3> QED BY <1>7, <2>3, <2>5, <3>1
  <2> QED BY <2>4, <2>5
<1>13. c > 1 => End(m.rows[c - 1]) <= r.addr BY <1>3, <1>4, <1>5, <1>8 DEF e
<1>14. c < m.chunks => End(r) <= m.rows[c + 1].addr
  <2>1. ASSUME c < m.chunks PROVE c + 1 \in 1..m.chunks /\ c < c + 1 BY <1>1, <2>1
  <2> QED BY <1>11, <2>1, RowsApart DEF q
<1>15. r.addr <= q.addr /\ End(q) <= End(r) BY <1>3, <1>5, <1>8, <1>11
<1>16. Fine(n) /\ n.chunks = m.chunks /\ Len(n.rows) = Len(m.rows) /\ n.rows[c] = r /\ Same(m, n)
  <2>1. Fine(m) /\ c \in 1..m.chunks OBVIOUS
  <2> QED BY ONLY <1>6, <1>10, <1>12, <1>13, <1>14, <1>15, <2>1, Grown DEF q
<1>17. In(r, a) BY <1>3, <1>4, <1>5, <1>8, <1>11 DEF In
<1> QED BY <1>16, <1>17

\* Merging two rows that touch keeps what is in them, and leaves room for the
\* unit between them in the first one.
LEMMA MergeEffect ==
  ASSUME NEW m, Fine(m), NEW c \in 1..(m.chunks - 1), End(m.rows[c]) = m.rows[c + 1].addr,
         NEW n, n = merge_chunks(m, c)
  PROVE  /\ Fine(n) /\ n.chunks = m.chunks - 1 /\ Len(n.rows) = Len(m.rows) /\ Same(m, n)
         /\ n.rd = m.rd /\ n.wr = m.wr /\ In(n.rows[c], End(m.rows[c]))
<1> DEFINE q == m.rows[c]
           p == m.rows[c + 1]
           d == q.data \o p.data
           New(i) == IF i = c THEN Joined(q, p)
                     ELSE IF c < i /\ i < m.chunks THEN m.rows[i + 1]
                     ELSE IF i = m.chunks THEN [addr |-> m.rows[i].addr, data |-> <<>>] ELSE m.rows[i]
<1> HIDE DEF q, p, d, New
<1>1. m.chunks \in 0..Len(m.rows) /\ m.chunks \in Nat /\ Len(m.rows) \in Nat /\ m.rows \in Seq(Row) BY CountFacts
<1>2. c \in 1..m.chunks /\ c + 1 \in 1..m.chunks /\ c \in 1..Len(m.rows) /\ c + 1 \in 1..Len(m.rows) BY <1>1
<1>3. q \in Row /\ p \in Row BY <1>2, RowFacts DEF q, p
<1>4. /\ q.addr \in Nat /\ q.data \in Seq(Value) /\ Len(q.data) \in Nat /\ Len(q.data) > 0
      /\ End(q) = q.addr + Len(q.data) BY <1>2, InUse DEF End, q
<1>5. /\ p.addr \in Nat /\ p.data \in Seq(Value) /\ Len(p.data) \in Nat /\ Len(p.data) > 0
      /\ End(p) = p.addr + Len(p.data) /\ p.addr = End(q) BY <1>2, InUse DEF End, p, q
<1>6. d \in Seq(Value) /\ Len(d) = Len(q.data) + Len(p.data)
      BY ConcatProperties, <1>4, <1>5 DEF d
<1>61. /\ \A i \in 1..Len(q.data) : d[i] = q.data[i]
      /\ \A i \in 1..Len(p.data) : d[Len(q.data) + i] = p.data[i]
  <2> DEFINE s == q.data
             t == p.data
  <2> HIDE DEF s, t
  <2>1. s \in Seq(Value) /\ t \in Seq(Value) /\ d = s \o t BY <1>4, <1>5 DEF s, t, d
  <2>2. /\ d \in Seq(Value) /\ Len(d) = Len(s) + Len(t)
        /\ \A i \in 1..Len(s) : d[i] = s[i]
        /\ \A i \in 1..Len(t) : d[Len(s) + i] = t[i]
    BY ONLY <2>1, JoinData
  <2> QED BY <2>2 DEF s, t
<1>8. m \in Memories BY DEF Fine
<1> DEFINE rows == [i \in 1..Len(m.rows) |-> New(i)]
<1>7. n = [m EXCEPT !.chunks = m.chunks - 1, !.rows = rows]
  <2> DEFINE x == [i \in 1..Len(m.rows) |->
                     IF i = c THEN Joined(m.rows[c], m.rows[c + 1])
                     ELSE IF c < i /\ i < m.chunks THEN m.rows[i + 1]
                     ELSE IF i = m.chunks THEN [addr |-> m.rows[i].addr, data |-> <<>>] ELSE m.rows[i]]
  <2>2. x = rows BY DEF New, q, p
  <2>3. n = [m EXCEPT !.chunks = m.chunks - 1, !.rows = x] BY DEF merge_chunks
  <2> QED BY <2>2, <2>3
<1>72. Joined(q, p) = [addr |-> q.addr, data |-> d] BY <1>3, RowData DEF Joined, d
<1>10. ASSUME NEW i \in 1..Len(m.rows) PROVE New(i) \in Row
  <2>1. m.rows[i] \in Row /\ (i < m.chunks => m.rows[i + 1] \in Row) BY <1>1, RowFacts
  <2>2. Joined(q, p) \in Row BY <1>4, <1>6, <1>72 DEF Row
  <2>3. [addr |-> m.rows[i].addr, data |-> <<>>] \in Row
    <3>1. <<>> \in Seq(Value) BY EmptySeq
    <3> QED BY <2>1, <3>1 DEF Row
  <2> QED BY <2>1, <2>2, <2>3 DEF New
<1>11. rows \in Seq(Row) /\ Len(rows) = Len(m.rows) BY <1>1, <1>10
<1> HIDE DEF rows
<1>12. n \in Memories /\ n.rows = rows /\ n.chunks = m.chunks - 1 /\ n.rd = m.rd /\ n.wr = m.wr
  <2> DEFINE k == m.chunks - 1
  <2>1. k \in Nat BY <1>1, <1>2
  <2>2. n = [m EXCEPT !.chunks = k, !.rows = rows] BY <1>7
  <2> HIDE DEF k
  <2>3. rows \in Seq(Row) BY <1>11
  <2>4. n \in Memories /\ n.rows = rows /\ n.chunks = k /\ n.rd = m.rd /\ n.wr = m.wr
    BY <1>8, <2>1, <2>2, <2>3 DEF Memories
  <2> QED BY <2>4 DEF k
<1>9. /\ n.rows = [i \in 1..Len(m.rows) |-> New(i)] /\ n.chunks = m.chunks - 1 /\ Len(n.rows) = Len(m.rows)
      /\ n.rd = m.rd /\ n.wr = m.wr
  BY <1>11, <1>12 DEF rows
<1>13. n.rows[c].addr = q.addr /\ n.rows[c].data = d
  <2>1. n.rows[c] = Joined(q, p) BY <1>2, <1>9 DEF New
  <2> QED BY <1>72, <2>1
<1>14. End(n.rows[c]) = End(p) /\ Len(d) > 0
  <2>1. End(n.rows[c]) = q.addr + Len(d) BY <1>13 DEF End
  <2> DEFINE a == q.addr
             x == Len(q.data)
             y == Len(p.data)
             z == Len(d)
  <2>2. /\ a \in Nat /\ x \in Nat /\ y \in Nat /\ y > 0 /\ End(p) = End(q) + y /\ End(q) = a + x /\ z = x + y
        /\ End(n.rows[c]) = a + z
    BY <1>4, <1>5, <1>6, <2>1
  <2> HIDE DEF a, x, y, z
  <2>3. z > 0 /\ End(n.rows[c]) = End(p) BY ONLY <2>2
  <2> QED BY <2>3 DEF z
<1>15. \A i \in 1..n.chunks : i < c => n.rows[i] = m.rows[i] BY <1>1, <1>2, <1>9 DEF New
<1>16. \A i \in 1..n.chunks : i > c => n.rows[i] = m.rows[i + 1] BY <1>1, <1>2, <1>9 DEF New
<1>17. \A i \in Behind(n) : n.rows[i].data = <<>>
  <2> TAKE i \in Behind(n)
  <2>1. i \in m.chunks..Len(m.rows) /\ i \in 1..Len(m.rows) /\ i > c BY <1>1, <1>2, <1>9 DEF Behind
  <2>2. CASE i = m.chunks
    <3>1. n.rows[i] = [addr |-> m.rows[i].addr, data |-> <<>>] BY <1>9, <2>1, <2>2 DEF New
    <3> QED BY <3>1
  <2>3. CASE i # m.chunks
    <3>1. n.rows[i] = m.rows[i] BY <1>1, <1>9, <2>1, <2>3 DEF New
    <3>2. i \in Behind(m) BY <1>1, <2>1, <2>3 DEF Behind
    <3> QED BY <3>1, <3>2 DEF Fine, Ordered
  <2> QED BY <2>2, <2>3
<1>18. \A i \in 1..n.chunks : n.rows[i].data # <<>>
  <2> TAKE i \in 1..n.chunks
  <2>1. i \in 1..m.chunks /\ i + 1 \in 1..m.chunks BY <1>1, <1>9
  <2>2. m.rows[i].data # <<>> /\ m.rows[i + 1].data # <<>> BY <2>1 DEF Fine, Ordered
  <2>3. d # <<>> BY <1>14
  <2>4. CASE i = c BY <1>13, <2>3, <2>4
  <2>5. CASE i < c BY <1>15, <2>2, <2>5
  <2>6. CASE i > c BY <1>16, <2>2, <2>6
  <2> QED BY <1>2, <2>1, <2>4, <2>5, <2>6
<1>19. \A i \in 1..(n.chunks - 1) : End(n.rows[i]) <= n.rows[i + 1].addr
  <2> TAKE i \in 1..(n.chunks - 1)
  <2>1. /\ i \in 1..n.chunks /\ i + 1 \in 1..n.chunks /\ i \in 1..(m.chunks - 1)
        /\ i + 1 \in 1..(m.chunks - 1) /\ i + 2 = i + 1 + 1 BY <1>1, <1>9
  <2>2. End(m.rows[i]) <= m.rows[i + 1].addr /\ End(m.rows[i + 1]) <= m.rows[i + 2].addr
    BY <2>1 DEF Fine, Ordered
  <2>3. CASE i + 1 < c BY <1>15, <2>1, <2>2, <2>3
  <2>4. CASE i + 1 = c
    <3>1. n.rows[i] = m.rows[i] /\ n.rows[i + 1].addr = m.rows[i + 1].addr BY <1>13, <1>15, <2>1, <2>4 DEF q
    <3> QED BY <2>2, <3>1
  <2>5. CASE i = c
    <3>1. n.rows[i + 1] = m.rows[i + 2] BY <1>16, <2>1, <2>5
    <3> QED BY <1>14, <2>2, <2>5, <3>1 DEF p
  <2>6. CASE i > c
    <3>1. n.rows[i] = m.rows[i + 1] /\ n.rows[i + 1] = m.rows[i + 2] BY <1>16, <2>1, <2>6
    <3> QED BY <2>2, <3>1
  <2> QED BY <1>2, <2>1, <2>3, <2>4, <2>5, <2>6
<1>20. Fine(n)
  <2>1. n.chunks \in 0..Len(n.rows) /\ {n.rd, n.wr} \subseteq 0..Len(n.rows)
    BY <1>1, <1>2, <1>9 DEF Fine, Ordered
  <2> QED BY <1>12, <1>17, <1>18, <1>19, <2>1 DEF Fine, Ordered
<1>21. ASSUME NEW u \in Nat
       PROVE  /\ In(n.rows[c], u) <=> In(q, u) \/ In(p, u)
              /\ In(q, u) => At(n.rows[c], u) = At(q, u)
              /\ In(p, u) => At(n.rows[c], u) = At(p, u)
  <2>1. In(n.rows[c], u) <=> In(q, u) \/ In(p, u) BY <1>4, <1>5, <1>13, <1>14 DEF In
  <2>2. At(n.rows[c], u) = d[1 + u - q.addr] BY <1>13 DEF At
  <2>3. ASSUME In(q, u) PROVE At(n.rows[c], u) = At(q, u)
    <3>1. 1 + u - q.addr \in 1..Len(q.data) BY <1>4, <2>3 DEF In
    <3> QED BY <1>61, <2>2, <3>1 DEF At
  <2>4. ASSUME In(p, u) PROVE At(n.rows[c], u) = At(p, u)
    <3> DEFINE i == 1 + u - p.addr
    <3>1. i \in 1..Len(p.data) /\ Len(q.data) + i = 1 + u - q.addr
      <4>1. p.addr <= u /\ u < p.addr + Len(p.data) BY <1>5, <2>4 DEF In
      <4>2. p.addr = q.addr + Len(q.data) BY <1>4, <1>5
      <4>3. p.addr \in Nat /\ q.addr \in Nat /\ Len(p.data) \in Nat /\ Len(q.data) \in Nat BY <1>4, <1>5
      <4>4. i \in 1..Len(p.data) BY <4>1, <4>3
      <4>5. Len(q.data) + i = 1 + u - q.addr BY <4>2, <4>3
      <4> QED BY <4>4, <4>5
    <3>2. At(p, u) = p.data[i] BY DEF At
    <3> HIDE DEF i
    <3> QED BY <1>61, <2>2, <3>1, <3>2
  <2> QED BY <2>1, <2>3, <2>4
<1>22. ASSUME NEW i \in 1..n.chunks, NEW u \in Nat, In(n.rows[i], u) PROVE Reads(m, u, At(n.rows[i], u))
  <2>1. i \in 1..m.chunks /\ i + 1 \in 1..m.chunks BY <1>1, <1>9
  <2>2. CASE i < c
    <3>1. n.rows[i] = m.rows[i] BY <1>15, <2>2
    <3> QED BY <1>22, <2>1, <3>1, RowReads
  <2>3. CASE i > c
    <3>1. n.rows[i] = m.rows[i + 1] BY <1>16, <2>3
    <3> QED BY <1>22, <2>1, <3>1, RowReads
  <2>4. CASE i = c
    <3>1. ASSUME In(q, u) PROVE Reads(m, u, At(n.rows[i], u))
      <4>1. Reads(m, u, At(q, u)) BY <1>2, <3>1, RowReads DEF q
      <4> QED BY <1>21, <2>4, <3>1, <4>1
    <3>2. ASSUME In(p, u) PROVE Reads(m, u, At(n.rows[i], u))
      <4>1. Reads(m, u, At(p, u)) BY <1>2, <3>2, RowReads DEF p
      <4> QED BY <1>21, <2>4, <3>2, <4>1
    <3> QED BY <1>21, <1>22, <2>4, <3>1, <3>2
  <2> QED BY <1>2, <2>1, <2>2, <2>3, <2>4
<1>23. ASSUME NEW k \in 1..m.chunks, NEW u \in Nat, In(m.rows[k], u) PROVE \E i \in 1..n.chunks : In(n.rows[i], u)
  <2>1. CASE k < c
    <3>1. k \in 1..n.chunks BY <1>1, <1>2, <1>9, <2>1
    <3> QED BY <1>15, <1>23, <2>1, <3>1
  <2>2. CASE k = c \/ k = c + 1
    <3>1. c \in 1..n.chunks BY <1>1, <1>2, <1>9
    <3>2. In(n.rows[c], u) BY <1>21, <1>23, <2>2 DEF q, p
    <3> QED BY <3>1, <3>2
  <2>3. CASE k > c + 1
    <3>1. k - 1 \in 1..n.chunks /\ k - 1 > c /\ k - 1 + 1 = k BY <1>1, <1>2, <1>9, <2>3
    <3>2. n.rows[k - 1] = m.rows[k] BY <1>16, <3>1
    <3> QED BY <1>23, <3>1, <3>2
  <2> QED BY <1>2, <2>1, <2>2, <2>3
<1>24. In(n.rows[c], End(q)) BY <1>4, <1>5, <1>13, <1>14 DEF In
<1> QED BY <1>9, <1>20, <1>22, <1>23, <1>24, SameIf DEF q

WithNew(rows, K, c, r) == InsertAt(SubSeq(rows, 1, K), c, r) \o SubSeq(rows, K + 2, Len(rows))

Shifted(rows, K, c, r, out) ==
  /\ out \in Seq(Row) /\ Len(out) >= Len(rows) /\ Len(out) >= K + 1 /\ Len(out) <= Len(rows) + 1
  /\ out[c] = r
  /\ \A i \in 1..K : i < c => out[i] = rows[i]
  /\ \A i \in 1..K : i >= c => out[i + 1] = rows[i]
  /\ \A i \in (K + 2)..Len(out) : i \in 1..Len(rows) /\ out[i] = rows[i]

\* Where the rows are after one is put at place c of K rows in use.
LEMMA Inserted ==
  ASSUME NEW rows \in Seq(Row), NEW K \in 0..Len(rows), NEW c \in 1..(K + 1), NEW r \in Row,
         NEW out, out = WithNew(rows, K, c, r)
  PROVE  Shifted(rows, K, c, r, out)
<1> DEFINE h == SubSeq(rows, 1, K)
           a == SubSeq(h, 1, c - 1)
           b == a \o <<r>>
           t == SubSeq(h, c, Len(h))
           u == b \o t
           w == SubSeq(rows, K + 2, Len(rows))
           l == Len(rows)
<1>1. l \in Nat /\ K \in Nat /\ K <= l /\ c \in 1..(K + 1) OBVIOUS
<1>2. h \in Seq(Row) /\ Len(h) = K /\ \A i \in 1..K : h[i] = rows[i]
  <2>1. \A i \in 1..K : rows[i] \in Row OBVIOUS
  <2> QED BY <1>1, <2>1, SubSeqProperties
<1>3. out = u \o w BY DEF InsertAt, WithNew
<1> HIDE DEF h
<1>4. a \in Seq(Row) /\ Len(a) = c - 1 /\ \A i \in 1..(c - 1) : a[i] = h[i]
  <2>1. \A i \in 1..(c - 1) : h[i] \in Row BY <1>1, <1>2
  <2> QED BY <1>1, <2>1, SubSeqProperties
<1>5. t \in Seq(Row) /\ Len(t) = K + 1 - c /\ \A i \in 1..(K + 1 - c) : t[i] = h[c + i - 1]
  <2>1. \A i \in c..Len(h) : h[i] \in Row BY <1>1, <1>2
  <2> QED BY <1>1, <1>2, <2>1, SubSeqProperties
<1>6. /\ w \in Seq(Row) /\ Len(w) = (IF K + 2 <= l THEN l - K - 1 ELSE 0)
      /\ \A i \in 1..(l - K - 1) : w[i] = rows[K + 1 + i]
  <2>1. \A i \in (K + 2)..l : rows[i] \in Row BY <1>1
  <2>2. /\ w \in Seq(Row) /\ Len(w) = (IF K + 2 <= l THEN l - (K + 2) + 1 ELSE 0)
        /\ \A i \in 1..(l - (K + 2) + 1) : w[i] = rows[K + 2 + i - 1]
    BY <1>1, <2>1, SubSeqProperties
  <2> HIDE DEF l, w
  <2>3. l - (K + 2) + 1 = l - K - 1 BY <1>1
  <2>4. \A i \in Nat : K + 2 + i - 1 = K + 1 + i BY <1>1
  <2> QED BY <2>2, <2>3, <2>4
<1> HIDE DEF a, t, w
<1>7. b \in Seq(Row) /\ Len(b) = c /\ b[c] = r /\ \A i \in 1..(c - 1) : b[i] = a[i] BY <1>1, <1>4
<1> HIDE DEF b
<1>8. /\ u \in Seq(Row) /\ Len(u) = K + 1 /\ \A i \in 1..c : u[i] = b[i]
      /\ \A i \in 1..(K + 1 - c) : u[c + i] = t[i]
  <2>1. /\ u \in Seq(Row) /\ Len(u) = Len(b) + Len(t) /\ \A i \in 1..Len(b) : u[i] = b[i]
        /\ \A i \in 1..Len(t) : u[Len(b) + i] = t[i]
    BY <1>5, <1>7, JoinData
  <2> HIDE DEF u
  <2> QED BY <1>1, <1>5, <1>7, <2>1
<1> HIDE DEF u
<1>9. /\ out \in Seq(Row) /\ Len(out) = K + 1 + Len(w) /\ \A i \in 1..(K + 1) : out[i] = u[i]
      /\ \A i \in 1..Len(w) : out[K + 1 + i] = w[i]
  <2>1. /\ out \in Seq(Row) /\ Len(out) = Len(u) + Len(w) /\ \A i \in 1..Len(u) : out[i] = u[i]
        /\ \A i \in 1..Len(w) : out[Len(u) + i] = w[i]
    <3>1. u \in Seq(Row) /\ w \in Seq(Row) BY <1>6, <1>8
    <3> QED BY ONLY <1>3, <3>1, JoinData
  <2> QED BY <1>8, <2>1
<1> HIDE DEF l
<1>10. Len(out) >= l /\ Len(out) >= K + 1 /\ Len(out) <= l + 1
  <2> DEFINE y == Len(w)
             z == Len(out)
  <2>1. z = K + 1 + y /\ y = (IF K + 2 <= l THEN l - K - 1 ELSE 0) BY <1>6, <1>9
  <2> HIDE DEF y, z
  <2>2. z >= l /\ z >= K + 1 /\ z <= l + 1 BY <1>1, <2>1
  <2> QED BY <2>2 DEF z
<1>11. out[c] = r
  <2>1. c \in 1..c BY <1>1
  <2>2. out[c] = u[c] BY <1>1, <1>9
  <2>3. u[c] = b[c] BY <1>8, <2>1
  <2> QED BY <1>7, <2>2, <2>3
<1>12. ASSUME NEW i \in 1..K, i < c PROVE out[i] = rows[i]
  <2>1. i \in 1..(K + 1) /\ i \in 1..c /\ i \in 1..(c - 1) BY <1>1, <1>12
  <2>2. out[i] = u[i] BY <1>9, <2>1
  <2>3. u[i] = b[i] BY <1>8, <2>1
  <2>4. b[i] = a[i] /\ a[i] = h[i] /\ h[i] = rows[i] BY <1>2, <1>4, <1>7, <2>1
  <2> QED BY <2>2, <2>3, <2>4
<1>13. ASSUME NEW i \in 1..K, i >= c PROVE out[i + 1] = rows[i]
  <2> DEFINE k == i + 1 - c
  <2>1. i + 1 \in 1..(K + 1) /\ k \in 1..(K + 1 - c) /\ c + k = i + 1 /\ c + k - 1 = i BY <1>1, <1>13
  <2> HIDE DEF k
  <2>2. out[i + 1] = u[i + 1] BY <1>9, <2>1
  <2>3. u[c + k] = t[k] BY <1>8, <2>1
  <2>4. t[k] = h[c + k - 1] BY <1>5, <2>1
  <2> QED BY <1>2, <2>1, <2>2, <2>3, <2>4
<1>14. ASSUME NEW i \in (K + 2)..Len(out) PROVE i \in 1..l /\ out[i] = rows[i]
  <2> DEFINE k == i - K - 1
  <2> DEFINE y == Len(w)
             z == Len(out)
  <2>5. y \in Nat /\ z = K + 1 + y
    <3>1. w \in Seq(Row) BY <1>6
    <3>2. y \in Nat BY ONLY <3>1
    <3>3. z = K + 1 + y BY <1>9
    <3> QED BY ONLY <3>2, <3>3
  <2>6. i \in (K + 2)..z BY <1>14
  <2> HIDE DEF y, z
  <2>7. k \in 1..y /\ K + 1 + k = i BY <1>1, <2>5, <2>6
  <2>1. Len(w) \in Nat /\ k \in 1..Len(w) /\ K + 1 + k = i BY <2>5, <2>7 DEF y
  <2>2. k \in 1..(l - K - 1) /\ i \in 1..l BY <1>1, <1>6, <2>1
  <2> HIDE DEF k
  <2>3. out[K + 1 + k] = w[k] BY <1>9, <2>1
  <2>4. w[k] = rows[K + 1 + k] BY <1>6, <2>2
  <2> QED BY <2>1, <2>2, <2>3, <2>4
<1> QED BY <1>9, <1>10, <1>11, <1>12, <1>13, <1>14 DEF l, Shifted

\* A new row of MEM_BAD between the rows before and behind it.
LEMMA InsertEffect ==
  ASSUME NEW m, Fine(m), NEW c \in 1..(m.chunks + 1), NEW r \in Row, r.data # <<>>,
         \A i \in 1..Len(r.data) : r.data[i] = MEM_BAD,
         \A k \in 1..m.chunks : k < c => End(m.rows[k]) <= r.addr,
         \A k \in 1..m.chunks : k >= c => End(r) <= m.rows[k].addr,
         NEW n, n = InsertRow(m, c, r)
  PROVE  /\ Fine(n) /\ n.chunks = m.chunks + 1 /\ n.chunks <= Len(n.rows) /\ Same(m, n) /\ n.rows[c] = r
<1> DEFINE K == m.chunks
           out == WithNew(m.rows, K, c, r)
<1>1. K \in 0..Len(m.rows) /\ K \in Nat /\ Len(m.rows) \in Nat /\ m.rows \in Seq(Row) /\ m \in Memories
  BY CountFacts DEF Fine
<1>2. n = [m EXCEPT !.chunks = K + 1, !.rows = out] BY DEF InsertRow, WithNew
<1> HIDE DEF out
<1>3. /\ out \in Seq(Row) /\ Len(out) >= Len(m.rows) /\ Len(out) >= K + 1
      /\ out[c] = r
      /\ \A i \in 1..K : i < c => out[i] = m.rows[i]
      /\ \A i \in 1..K : i >= c => out[i + 1] = m.rows[i]
      /\ \A i \in (K + 2)..Len(out) : i \in 1..Len(m.rows) /\ out[i] = m.rows[i]
  <2> DEFINE rows == m.rows
  <2>1. rows \in Seq(Row) /\ K \in 0..Len(rows) /\ c \in 1..(K + 1) BY <1>1
  <2>2. out = WithNew(rows, K, c, r) BY DEF out
  <2> HIDE DEF rows, K
  <2>3. r \in Row OBVIOUS
  <2>4. Shifted(rows, K, c, r, out) BY ONLY <2>1, <2>2, <2>3, Inserted
  <2> QED BY <2>4 DEF rows, Shifted
<1>4. n \in Memories /\ n.rows = out /\ n.chunks = K + 1 /\ n.rd = m.rd /\ n.wr = m.wr
  <2> DEFINE k == K + 1
  <2>1. n = [m EXCEPT !.chunks = k, !.rows = out] BY <1>2
  <2>2. k \in Nat /\ m \in Memories /\ out \in Seq(Row) BY <1>1, <1>3
  <2> HIDE DEF k, K
  <2>3. n \in Memories /\ n.rows = out /\ n.chunks = k /\ n.rd = m.rd /\ n.wr = m.wr
    BY ONLY <2>1, <2>2 DEF Memories
  <2> QED BY <2>3 DEF k
<1>5. Len(out) \in Nat /\ r.addr \in Nat /\ Len(r.data) \in Nat /\ End(r) = r.addr + Len(r.data) /\ End(r) \in Nat
  BY <1>3 DEF Row, End
<1>6. ASSUME NEW i \in 1..(K + 1)
      PROVE  \/ i < c /\ i \in 1..K /\ n.rows[i] = m.rows[i]
             \/ i = c /\ n.rows[i] = r
             \/ i > c /\ i - 1 \in 1..K /\ n.rows[i] = m.rows[i - 1]
  <2>1. CASE i < c BY <1>1, <1>3, <1>4, <2>1
  <2>2. CASE i = c BY <1>3, <1>4, <2>2
  <2>3. CASE i > c
    <3>1. i - 1 \in 1..K /\ i - 1 >= c /\ i - 1 + 1 = i BY <1>1, <2>3
    <3> QED BY <1>3, <1>4, <2>3, <3>1
  <2> QED BY <1>1, <2>1, <2>2, <2>3
<1>7. \A i \in 1..K : m.rows[i].data # <<>> BY DEF Fine, Ordered
<1>8. \A i \in 1..n.chunks : n.rows[i].data # <<>> BY <1>4, <1>6, <1>7
<1>9. \A i \in 1..(K - 1) : End(m.rows[i]) <= m.rows[i + 1].addr BY DEF Fine, Ordered
<1>10. ASSUME NEW i \in 1..(n.chunks - 1) PROVE End(n.rows[i]) <= n.rows[i + 1].addr
  <2>1. i \in 1..(K + 1) /\ i + 1 \in 1..(K + 1) /\ i \in 1..K BY <1>1, <1>4
  <2>2. CASE i + 1 < c
    <3>1. n.rows[i] = m.rows[i] /\ n.rows[i + 1] = m.rows[i + 1] /\ i \in 1..(K - 1) BY <1>1, <1>6, <2>1, <2>2
    <3> QED BY <1>9, <3>1
  <2>3. CASE i + 1 = c
    <3>1. n.rows[i] = m.rows[i] /\ n.rows[i + 1] = r /\ i < c BY <1>1, <1>6, <2>1, <2>3
    <3> QED BY <2>1, <3>1
  <2>4. CASE i = c
    <3>1. n.rows[i] = r /\ n.rows[i + 1] = m.rows[i] BY <1>1, <1>3, <1>4, <2>1, <2>4
    <3> QED BY <2>1, <2>4, <3>1
  <2>5. CASE i > c
    <3>1. n.rows[i] = m.rows[i - 1] /\ n.rows[i + 1] = m.rows[i] /\ i - 1 \in 1..(K - 1) /\ i - 1 + 1 = i
      BY <1>1, <1>3, <1>4, <1>6, <2>1, <2>5
    <3> QED BY <1>9, <3>1
  <2> QED BY <1>1, <2>1, <2>2, <2>3, <2>4, <2>5
<1>11. \A i \in Behind(n) : n.rows[i].data = <<>>
  <2> TAKE i \in Behind(n)
  <2>1. i \in (K + 2)..Len(out) BY <1>1, <1>4 DEF Behind
  <2>2. i \in 1..Len(m.rows) /\ n.rows[i] = m.rows[i] BY <1>3, <1>4, <2>1
  <2>3. i \in Behind(m) BY <1>1, <1>5, <2>1, <2>2 DEF Behind
  <2> QED BY <2>2, <2>3 DEF Fine, Ordered
<1>12. n.chunks \in 0..Len(n.rows) /\ {n.rd, n.wr} \subseteq 0..Len(n.rows)
  <2>1. m.rd \in 0..Len(m.rows) /\ m.wr \in 0..Len(m.rows) BY CountFacts
  <2>2. Len(n.rows) \in Nat /\ Len(m.rows) <= Len(n.rows) /\ K + 1 <= Len(n.rows) BY <1>3, <1>4, <1>5
  <2>3. n.rd = m.rd /\ n.wr = m.wr /\ n.chunks = K + 1 /\ K \in Nat /\ Len(m.rows) \in Nat BY <1>1, <1>4
  <2> HIDE DEF K
  <2>4. n.rd \in 0..Len(n.rows) /\ n.wr \in 0..Len(n.rows) BY <2>1, <2>2, <2>3
  <2>5. n.chunks \in 0..Len(n.rows) BY <2>2, <2>3
  <2> QED BY <2>4, <2>5
<1>13. Fine(n) BY <1>4, <1>8, <1>10, <1>11, <1>12 DEF Fine, Ordered
<1>14. ASSUME NEW i \in 1..n.chunks, NEW u \in Nat, In(n.rows[i], u) PROVE Reads(m, u, At(n.rows[i], u))
  <2>1. i \in 1..(K + 1) BY <1>4
  <2>2. CASE i # c
    <3>1. PICK k \in 1..K : n.rows[i] = m.rows[k] BY <1>6, <2>1, <2>2
    <3> QED BY <1>14, <3>1, RowReads
  <2>3. CASE i = c
    <3>1. n.rows[i] = r BY <1>3, <1>4, <2>3
    <3>2. 1 + u - r.addr \in 1..Len(r.data) BY <1>5, <1>14, <3>1 DEF In
    <3>3. At(n.rows[i], u) = MEM_BAD BY <3>1, <3>2 DEF At
    <3>4. r.addr <= u /\ u < End(r) BY <1>14, <3>1 DEF In
    <3>5. ASSUME NEW k \in 1..m.chunks, In(m.rows[k], u) PROVE FALSE
      <4>1. m.rows[k].addr \in Nat /\ End(m.rows[k]) \in Nat /\ m.rows[k].addr <= u /\ u < End(m.rows[k])
        BY <3>5, InUse DEF In
      <4>2. CASE k < c BY <1>5, <3>4, <4>1, <4>2
      <4>3. CASE k >= c BY <1>5, <3>4, <4>1, <4>3
      <4> QED BY <1>1, <4>2, <4>3
    <3> QED BY <3>3, <3>5 DEF Reads
  <2> QED BY <2>2, <2>3
<1>15. ASSUME NEW k \in 1..m.chunks, NEW u \in Nat, In(m.rows[k], u) PROVE \E i \in 1..n.chunks : In(n.rows[i], u)
  <2>1. CASE k < c
    <3>1. k \in 1..n.chunks /\ n.rows[k] = m.rows[k] BY <1>1, <1>3, <1>4, <2>1
    <3> QED BY <1>15, <3>1
  <2>2. CASE k >= c
    <3>1. k + 1 \in 1..n.chunks /\ n.rows[k + 1] = m.rows[k] BY <1>1, <1>3, <1>4, <2>2
    <3> QED BY <1>15, <3>1
  <2> QED BY <1>1, <2>1, <2>2
<1> QED BY <1>3, <1>4, <1>12, <1>13, <1>14, <1>15, SameIf

----------------------------------------------------------------------------
(* Writing.                                                                *)

\* n is what m becomes when v is stored at a.
Stored(m, n, a, v) == \A u \in Nat : \A x : Reads(m, u, x) => Reads(n, u, IF u = a THEN v ELSE x)

\* A unit is made part of a row, and then written there.
LEMMA ThenSet ==
  ASSUME NEW m, NEW p, Fine(p), Same(m, p), NEW c \in 1..p.chunks, NEW a \in Nat, In(p.rows[c], a),
         NEW v \in Value, NEW n, n = WithRow(p, c, Set(p.rows[c], a, v))
  PROVE  Fine(n) /\ Stored(m, n, a, v)
<1>1. Fine(n) /\ \A u \in Nat : \A x : Reads(p, u, x) => Reads(n, u, IF u = a THEN v ELSE x) BY SetEffect
<1> QED BY <1>1 DEF Same, Stored

\* The statics of create_new_chunk.
Adjusts == [size : ChunkSize..AdjLimit, last : Nat]

\* adj_merge_size stays between CHUNK_SIZE and ADJ_LIMIT.
LEMMA AdjustedFacts ==
  ASSUME NEW adj \in Adjusts, NEW c \in Nat
  PROVE  Adjusted(adj, c) \in Adjusts /\ Adjusted(adj, c).size \in Nat /\ Adjusted(adj, c).size >= ChunkSize
<1>1. ChunkSize \in Nat /\ AdjLimit \in Nat /\ ChunkSize <= AdjLimit BY MemAssumption
<1>2. adj.size \in Nat /\ adj.size >= ChunkSize /\ adj.size <= AdjLimit BY <1>1 DEF Adjusts
<1>3. Least(2 * adj.size, AdjLimit) \in ChunkSize..AdjLimit BY <1>1, <1>2 DEF Least
<1>4. Adjusted(adj, c) \in Adjusts BY <1>3 DEF Adjusted, Adjusts
<1> HIDE DEF Adjusted
<1> QED BY <1>1, <1>4 DEF Adjusts

\* Whatever case of Write it is, v is stored at a, nothing else changes, and the
\* rows are in order again.
LEMMA WriteEffect ==
  ASSUME NEW m, Fine(m), NEW adj \in Adjusts, NEW a \in Nat, NEW v \in Value,
         NEW r, r = Write(m, adj, a, v)
  PROVE  Fine(r.m) /\ r.adj \in Adjusts /\ Stored(m, r.m, a, v)
<1> DEFINE w == _binsearchw(m, a)
           in == [m EXCEPT !.wr = w]
           put(x) == [x EXCEPT !.rows[w] = Set(@, a, v)]
<1>1. m.chunks \in 0..Len(m.rows) /\ m.chunks \in Nat /\ Len(m.rows) \in Nat /\ m.wr \in 0..Len(m.rows)
      /\ m.rows \in Seq(Row) /\ m \in Memories
  BY CountFacts DEF Fine
<1>2. /\ w \in 1..(m.chunks + 1) /\ (w <= m.chunks => a <= End(m.rows[w]))
      /\ \A k \in 1..m.chunks : k < w => End(m.rows[k]) <= a
      /\ \A k \in 1..m.chunks : k > w => a <= m.rows[k].addr
  BY WritePlace
<1>3. Same(m, m) BY DEF Same
<1>4. r = IF Hit(m, m.wr, a) THEN Result([m EXCEPT !.rows[m.wr] = Set(@, a, v)], adj)
          ELSE IF w <= m.chunks /\ In(m.rows[w], a) THEN Result(put(in), adj)
          ELSE IF w <= m.chunks /\ a = End(m.rows[w])
               THEN IF w < m.chunks /\ m.rows[w + 1].addr = a
                    THEN Result(put(merge_chunks(in, w)), adj)
                    ELSE Result(put(get_more(in, w)), adj)
          ELSE IF Near(m, a, w)
               THEN LET now == Adjusted(adj, w)
                    IN  Result(put(GrowDown(in, w, now.size)), now)
          ELSE Result(put(InsertRow(in, w, NewRow(m, a, w))), adj)
  BY DEF Write, WriteAt
<1>5. \A x : put(x) = WithRow(x, w, Set(x.rows[w], a, v)) BY DEF WithRow
<1> HIDE DEF w, in, put
<1>6. \A n, k : Result(n, k).m = n /\ Result(n, k).adj = k BY DEF Result
<1>7. CASE Hit(m, m.wr, a)
  <2>1. m.wr \in 1..Len(m.rows) /\ In(m.rows[m.wr], a) BY <1>1, <1>7 DEF Hit
  <2>2. m.wr \in 1..m.chunks
    <3>1. m.wr <= m.chunks BY <2>1, InValue
    <3> QED BY <1>1, <2>1, <3>1
  <2> DEFINE n == [m EXCEPT !.rows[m.wr] = Set(@, a, v)]
             c == m.wr
  <2>3. n = WithRow(m, c, Set(m.rows[c], a, v)) BY DEF WithRow
  <2>4. r = Result(n, adj) BY <1>4, <1>7
  <2> HIDE DEF n, c
  <2>5. Fine(n) /\ Stored(m, n, a, v) BY <1>3, <2>1, <2>2, <2>3, ThenSet DEF c
  <2> QED BY <1>6, <2>4, <2>5
<1>8. ASSUME w <= m.chunks
      PROVE  /\ Fine(in) /\ Same(m, in) /\ in.rows = m.rows /\ in.chunks = m.chunks
             /\ w \in 1..m.chunks /\ w \in 1..in.chunks
  <2>1. w \in 0..Len(m.rows) /\ w \in 1..m.chunks BY <1>1, <1>2, <1>8
  <2>2. Fine(in) /\ Same(m, in) BY <2>1, Remembers DEF in, Same
  <2>3. in.rows = m.rows /\ in.chunks = m.chunks BY <1>1 DEF in, Memories
  <2> QED BY <2>1, <2>2, <2>3
<1>9. ASSUME NEW x, NEW k \in Adjusts, r = Result(put(x), k), Fine(x), Same(m, x), w \in 1..x.chunks, In(x.rows[w], a)
      PROVE  Fine(r.m) /\ r.adj \in Adjusts /\ Stored(m, r.m, a, v)
  <2>1. put(x) = WithRow(x, w, Set(x.rows[w], a, v)) BY <1>5
  <2>2. Fine(put(x)) /\ Stored(m, put(x), a, v) BY <1>9, <2>1, ThenSet
  <2> QED BY <1>6, <1>9, <2>2
<1>10. CASE ~ Hit(m, m.wr, a) /\ w <= m.chunks /\ In(m.rows[w], a)
  <2>1. r = Result(put(in), adj) BY <1>4, <1>10
  <2> QED BY <1>8, <1>9, <1>10, <2>1
<1>11. CASE ~ Hit(m, m.wr, a) /\ w <= m.chunks /\ ~ In(m.rows[w], a) /\ a = End(m.rows[w])
  <2>1. CASE w < m.chunks /\ m.rows[w + 1].addr = a
    <3> DEFINE x == merge_chunks(in, w)
    <3>1. r = Result(put(x), adj) BY <1>4, <1>11, <2>1
    <3>2. w \in 1..(in.chunks - 1) /\ End(in.rows[w]) = in.rows[w + 1].addr BY <1>1, <1>2, <1>8, <1>11, <2>1
    <3> HIDE DEF x
    <3>3. Fine(x) /\ x.chunks = in.chunks - 1 /\ Same(in, x) /\ In(x.rows[w], End(in.rows[w]))
      BY <1>8, <1>11, <3>2, MergeEffect DEF x
    <3>4. Same(m, x) BY <1>8, <1>11, <3>3 DEF Same
    <3> QED BY <1>8, <1>9, <1>11, <3>1, <3>2, <3>3, <3>4
  <2>2. CASE ~ (w < m.chunks /\ m.rows[w + 1].addr = a)
    <3> DEFINE x == get_more(in, w)
    <3>1. r = Result(put(x), adj) BY <1>4, <1>11, <2>2
    <3>2. w < in.chunks => End(in.rows[w]) < in.rows[w + 1].addr
      <4> SUFFICES ASSUME w < m.chunks PROVE End(m.rows[w]) < m.rows[w + 1].addr BY <1>8, <1>11
      <4>1. w + 1 \in 1..m.chunks /\ w + 1 > w BY <1>1, <1>2
      <4>2. a <= m.rows[w + 1].addr BY <1>2, <4>1
      <4>3. m.rows[w + 1].addr \in Nat BY <4>1, InUse
      <4> QED BY <1>11, <2>2, <4>2, <4>3
    <3> HIDE DEF x
    <3>3. Fine(x) /\ x.chunks = in.chunks /\ Same(in, x) /\ In(x.rows[w], End(in.rows[w]))
      BY <1>8, <1>11, <3>2, MoreEffect DEF x
    <3>4. Same(m, x) BY <1>8, <1>11, <3>3 DEF Same
    <3> QED BY <1>8, <1>9, <1>11, <3>1, <3>3, <3>4
  <2> QED BY <2>1, <2>2
<1>12. ASSUME w <= m.chunks, ~ In(m.rows[w], a), a # End(m.rows[w])
       PROVE  a < m.rows[w].addr /\ m.rows[w].addr \in Nat
  <2>1. m.rows[w].addr \in Nat /\ End(m.rows[w]) \in Nat /\ a <= End(m.rows[w]) BY <1>2, <1>8, <1>12, InUse
  <2> QED BY <1>12, <2>1 DEF In
<1>13. CASE /\ ~ Hit(m, m.wr, a) /\ ~ (w <= m.chunks /\ In(m.rows[w], a))
            /\ ~ (w <= m.chunks /\ a = End(m.rows[w])) /\ Near(m, a, w)
  <2> DEFINE now == Adjusted(adj, w)
             size == now.size
             x == GrowDown(in, w, size)
  <2>1. r = Result(put(x), now) BY <1>4, <1>13
  <2>2. w > 1 /\ w <= m.chunks /\ m.rows[w].addr - a < ChunkSize BY <1>13 DEF Near
  <2>3. now \in Adjusts /\ size \in Nat /\ size >= ChunkSize
    <3>1. w \in Nat BY <1>1, <1>2
    <3> QED BY <3>1, AdjustedFacts
  <2> HIDE DEF x, now, size
  <2>4. a < m.rows[w].addr /\ m.rows[w].addr \in Nat BY <1>12, <1>13, <2>2
  <2>5. in.rows[w].addr - a <= size BY <1>8, <2>2, <2>3, <2>4, MemAssumption
  <2>6. End(in.rows[w - 1]) <= a
    <3>1. w - 1 \in 1..m.chunks /\ w - 1 < w BY <1>1, <1>2, <2>2
    <3> QED BY <1>2, <1>8, <2>2, <3>1
  <2>7. Fine(x) /\ x.chunks = in.chunks /\ Same(in, x) /\ In(x.rows[w], a)
    BY <1>8, <2>2, <2>3, <2>4, <2>5, <2>6, DownEffect DEF x
  <2>8. Same(m, x) BY <1>8, <2>2, <2>7 DEF Same
  <2> QED BY <1>8, <1>9, <2>1, <2>2, <2>3, <2>7, <2>8
<1>14. CASE /\ ~ Hit(m, m.wr, a) /\ ~ (w <= m.chunks /\ In(m.rows[w], a))
            /\ ~ (w <= m.chunks /\ a = End(m.rows[w])) /\ ~ Near(m, a, w)
  <2> DEFINE new == NewRow(m, a, w)
             k == IF w <= m.chunks THEN Least(ChunkSize, m.rows[w].addr - a) ELSE ChunkSize
             n == InsertRow(m, w, new)
             x == [n EXCEPT !.wr = w]
  <2>1. k \in Nat \ {0} /\ (w <= m.chunks => a + k <= m.rows[w].addr)
    <3>1. CASE w <= m.chunks
      <4>1. a < m.rows[w].addr /\ m.rows[w].addr \in Nat BY <1>12, <1>14, <3>1
      <4> DEFINE d == m.rows[w].addr
      <4>2. k = IF ChunkSize < d - a THEN ChunkSize ELSE d - a BY <3>1 DEF Least
      <4>3. ChunkSize \in Nat \ {0} BY MemAssumption
      <4>4. a < d /\ d \in Nat BY <4>1
      <4> HIDE DEF k, d
      <4>5. k \in Nat \ {0} /\ a + k <= d BY <4>2, <4>3, <4>4
      <4> QED BY <4>5 DEF d
    <3>2. CASE ~ (w <= m.chunks) BY <3>2, MemAssumption
    <3> QED BY <3>1, <3>2
  <2>2. new = [addr |-> a, data |-> Bad(k)] BY DEF NewRow
  <2> HIDE DEF k, new
  <2>3. Bad(k) \in Seq(Value) /\ Len(Bad(k)) = k /\ \A i \in 1..k : Bad(k)[i] = MEM_BAD BY <2>1, BadRow
  <2>4. new.addr = a /\ new.data = Bad(k) BY <2>2
  <2>5. /\ new \in Row /\ new.data # <<>> /\ End(new) = a + k
        /\ \A i \in 1..Len(new.data) : new.data[i] = MEM_BAD
    <3>1. new \in Row BY <2>2, <2>3 DEF Row
    <3>2. End(new) = a + k BY <2>3, <2>4 DEF End
    <3>3. new.data # <<>> BY <2>1, <2>3, <2>4
    <3> QED BY <2>3, <2>4, <3>1, <3>2, <3>3
  <2>6. \A i \in 1..m.chunks : i < w => End(m.rows[i]) <= new.addr BY <1>2, <2>4
  <2>7. ASSUME NEW i \in 1..m.chunks, i >= w PROVE End(new) <= m.rows[i].addr
    <3>1. w <= m.chunks /\ w \in 1..m.chunks BY <1>1, <1>2, <2>7
    <3>2. a + k <= m.rows[w].addr BY <2>1, <3>1
    <3>3. CASE i = w BY <2>5, <3>2, <3>3
    <3>4. CASE i > w
      <4>1. End(m.rows[w]) <= m.rows[i].addr BY <3>1, <3>4, RowsApart
      <4>2. m.rows[w].addr \in Nat /\ End(m.rows[w]) \in Nat /\ m.rows[w].addr < End(m.rows[w]) BY <3>1, InUse
      <4>3. m.rows[i].addr \in Nat BY InUse
      <4> QED BY <2>1, <2>5, <3>2, <4>1, <4>2, <4>3
    <3> QED BY <1>2, <2>7, <3>3, <3>4
  <2>8. Fine(n) /\ n.chunks = m.chunks + 1 /\ n.chunks <= Len(n.rows) /\ Same(m, n) /\ n.rows[w] = new
    <3> HIDE DEF n
    <3>1. n = InsertRow(m, w, new) BY DEF n
    <3>2. Fine(m) /\ w \in 1..(m.chunks + 1) BY <1>2
    <3> QED BY ONLY <2>5, <2>6, <2>7, <3>1, <3>2, InsertEffect
  <2>9. InsertRow(in, w, new) = x BY <1>1 DEF InsertRow, in, Memories
  <2> HIDE DEF n
  <2>10. w \in 0..Len(n.rows)
    <3>1. Len(n.rows) \in Nat BY <2>8, CountFacts
    <3> QED BY <1>1, <1>2, <2>8, <3>1
  <2>11. Fine(x) /\ Same(n, x) BY <2>8, <2>10, Remembers DEF Same
  <2>12. x.rows = n.rows /\ x.chunks = n.chunks BY <2>8 DEF Fine, Memories
  <2>13. r = Result(put(x), adj) BY <1>4, <1>14, <2>9 DEF new
  <2> HIDE DEF x
  <2>14. Same(m, x) BY <2>8, <2>11 DEF Same
  <2>15. In(x.rows[w], a) BY <2>1, <2>4, <2>5, <2>8, <2>12 DEF In
  <2>16. w \in 1..x.chunks BY <1>2, <2>8, <2>12
  <2> QED BY <1>9, <2>11, <2>13, <2>14, <2>15, <2>16
<1> QED BY <1>7, <1>10, <1>11, <1>13, <1>14

----------------------------------------------------------------------------
(* Collecting.                                                             *)

\* To hold the same is transitive.
LEMMA SameToo == ASSUME NEW m, NEW n, NEW p, Same(m, n), Same(n, p) PROVE Same(m, p)
BY DEF Same

Fines  == {m \in Memories : Ordered(m)}
Passes == [m : Fines, i : Nat \ {0}]

\* A pass of chunk_gc leaves the rows in order and every unit as it is.
LEMMA CollectedEffect ==
  ASSUME NEW p \in Passes
  PROVE  Collected(p) \in Passes /\ Same(p.m, Collected(p).m) /\ Len(Collected(p).m.rows) = Len(p.m.rows)
<1>1. Fine(p.m) /\ p.i \in Nat \ {0} /\ p.m \in Fines BY DEF Passes, Fines, Fine
<1>2. p.m.chunks \in Nat BY <1>1, CountFacts
<1>3. Same(p.m, p.m) BY DEF Same
<1>4. CASE p.i >= p.m.chunks BY <1>3, <1>4 DEF Collected
<1>5. CASE ~ (p.i >= p.m.chunks) /\ End(p.m.rows[p.i]) = p.m.rows[p.i + 1].addr
  <2> DEFINE n == merge_chunks(p.m, p.i)
             q == [p EXCEPT !.m = n]
  <2>1. Collected(p) = q BY <1>5 DEF Collected
  <2> HIDE DEF n
  <2>2. p.i \in 1..(p.m.chunks - 1) BY <1>1, <1>2, <1>5
  <2>3. Fine(n) /\ Same(p.m, n) /\ Len(n.rows) = Len(p.m.rows) BY <1>1, <1>5, <2>2, MergeEffect DEF n
  <2>4. n \in Fines BY <2>3 DEF Fine, Fines
  <2>5. q \in Passes /\ q.m = n BY <1>1, <2>4 DEF Passes
  <2> QED BY <2>1, <2>3, <2>5
<1>6. CASE ~ (p.i >= p.m.chunks) /\ End(p.m.rows[p.i]) # p.m.rows[p.i + 1].addr
  <2>1. Collected(p) = [p EXCEPT !.i = p.i + 1] BY <1>6 DEF Collected
  <2>2. p.i + 1 \in Nat \ {0} BY <1>1
  <2>3. Collected(p) \in Passes /\ Collected(p).m = p.m BY <1>1, <2>1, <2>2 DEF Passes
  <2> QED BY <1>3, <2>3
<1> QED BY <1>4, <1>5, <1>6

\* chunk_gc leaves the rows in order and every unit as it is.
LEMMA CollectEffect ==
  ASSUME NEW m, Fine(m), NEW n, n = chunk_gc(m)
  PROVE  Fine(n) /\ Same(m, n)
<1> DEFINE N == m.chunks
           first == [m |-> m, i |-> 1]
           next == [s \in Passes \X (1..N) |-> Collected(s[1])]
           Full(f) == f = [k \in 0..N |-> IF k = 0 THEN first ELSE Collected(f[k - 1])]
           F == Collect(m)
           T == {k \in Nat : F[k] \in Passes /\ Same(m, F[k].m)}
<1>1. N \in Nat BY CountFacts
<1>2. first \in Passes BY DEF Passes, Fines, Fine
<1>3. next \in [Passes \X (1..N) -> Passes] BY CollectedEffect
<1>4. \E f : Full(f)
  <2> HIDE DEF N, first, next
  <2>1. PICK f \in [0..N -> Passes] : IsRun(f, N, first, next) BY <1>1, <1>2, <1>3, RunExists
  <2>2. ASSUME NEW k \in 1..N PROVE next[<<f[k - 1], k>>] = Collected(f[k - 1])
    <3>1. k - 1 \in 0..N BY <1>1
    <3>2. <<f[k - 1], k>> \in Passes \X (1..N) BY <3>1
    <3> QED BY <3>2 DEF next
  <2>3. \A k \in 0..N : k # 0 => k \in 1..N BY <1>1
  <2>4. Full(f) BY <2>1, <2>2, <2>3 DEF IsRun
  <2> QED BY <2>4
<1>5. F = CHOOSE f : Full(f) BY DEF Collect
<1>6. Full(F)
  <2> HIDE DEF Full, F
  <2> QED BY <1>4, <1>5
<1>7. F[0] = first /\ \A k \in 1..N : F[k] = Collected(F[k - 1])
  <2> HIDE DEF F, first
  <2> QED BY <1>1, <1>6
<1> HIDE DEF F, Full, next
<1>8. 0 \in T
  <2>1. Same(m, m) BY DEF Same
  <2>2. F[0] \in Passes /\ F[0].m = m BY <1>2, <1>7
  <2> QED BY <2>1, <2>2
<1>9. ASSUME NEW k \in 0..(N - 1), k \in T PROVE k + 1 \in T
  <2>1. k + 1 \in 1..N /\ (k + 1) - 1 = k BY <1>1
  <2>2. F[k + 1] = Collected(F[k]) BY <1>7, <2>1
  <2>3. F[k] \in Passes /\ Same(m, F[k].m) BY <1>9
  <2>4. F[k + 1] \in Passes /\ Same(F[k].m, F[k + 1].m) BY <2>2, <2>3, CollectedEffect
  <2>5. Same(m, F[k + 1].m) BY <2>3, <2>4, SameToo
  <2> QED BY <1>1, <2>4, <2>5
<1>10. 0..N \subseteq T
  <2> HIDE DEF T, N
  <2> QED BY <1>1, <1>8, <1>9, UpTo
<1>11. N \in 0..N BY <1>1
<1>12. F[N] \in Passes /\ Same(m, F[N].m) BY <1>10, <1>11
<1>13. n = F[N].m BY DEF chunk_gc, F
<1> HIDE DEF N
<1> QED BY <1>12, <1>13 DEF Passes, Fines, Fine

----------------------------------------------------------------------------
(* Image files.                                                            *)

\* all has the elements of the sequences ss and no others.
HasAll(all, ss) ==
  /\ \A k \in 1..Len(all) : \E i \in 1..Len(ss) : \E j \in 1..Len(ss[i]) : all[k] = ss[i][j]
  /\ \A i \in 1..Len(ss) : \A j \in 1..Len(ss[i]) : \E k \in 1..Len(all) : all[k] = ss[i][j]

\* FlattenSeq puts together the elements of the sequences, all of them and no
\* others.
LEMMA FlattenFacts ==
  ASSUME NEW S, NEW ss \in Seq(Seq(S)), NEW all, all = FlattenSeq(ss)
  PROVE  all \in Seq(S) /\ HasAll(all, ss)
<1> DEFINE L == Len(ss)
           N == L - 1
           Full(f) == f = [i \in 1..L |-> IF i = 1 THEN ss[i] ELSE f[i - 1] \o ss[i]]
           F == CHOOSE f : Full(f)
           Holds(k) == /\ F[k + 1] \in Seq(S)
                       /\ \A x \in 1..Len(F[k + 1]) : \E i \in 1..(k + 1) : \E j \in 1..Len(ss[i]) : F[k + 1][x] = ss[i][j]
                       /\ \A i \in 1..(k + 1) : \A j \in 1..Len(ss[i]) : \E x \in 1..Len(F[k + 1]) : F[k + 1][x] = ss[i][j]
           T == {k \in Nat : Holds(k)}
<1>1. L \in Nat /\ \A i \in 1..L : ss[i] \in Seq(S) /\ Len(ss[i]) \in Nat OBVIOUS
<1>2. CASE L = 0
  <2>1. all = ss BY <1>2 DEF FlattenSeq
  <2>2. ss = <<>> BY <1>2, EmptySeq
  <2> QED BY <2>1, <2>2 DEF HasAll
<1>3. CASE L # 0
  <2> DEFINE first == ss[1]
             next == [s \in Seq(S) \X (1..N) |-> s[1] \o ss[s[2] + 1]]
  <2>1. N \in Nat /\ first \in Seq(S) BY <1>1, <1>3
  <2>2. next \in [Seq(S) \X (1..N) -> Seq(S)]
    <3> SUFFICES ASSUME NEW s \in Seq(S) \X (1..N) PROVE s[1] \o ss[s[2] + 1] \in Seq(S) OBVIOUS
    <3>1. s[1] \in Seq(S) /\ s[2] + 1 \in 1..L BY <1>1, <2>1
    <3>2. ss[s[2] + 1] \in Seq(S) BY <1>1, <3>1
    <3> QED BY <3>1, <3>2
  <2>3. \E f : Full(f)
    <3> HIDE DEF first, next, N
    <3>1. PICK f \in [0..N -> Seq(S)] : IsRun(f, N, first, next) BY <2>1, <2>2, RunExists
    <3> DEFINE g == [i \in 1..L |-> f[i - 1]]
    <3>2. ASSUME NEW i \in 1..L PROVE g[i] = IF i = 1 THEN ss[i] ELSE g[i - 1] \o ss[i]
      <4>1. g[i] = f[i - 1] /\ i - 1 \in 0..N BY <1>1 DEF N
      <4>2. f[i - 1] = IF i - 1 = 0 THEN first ELSE next[<<f[i - 1 - 1], i - 1>>]
        <5> DEFINE k == i - 1
        <5>1. k \in 0..N BY <4>1
        <5> HIDE DEF k
        <5>2. f[k] = IF k = 0 THEN first ELSE next[<<f[k - 1], k>>] BY <3>1, <5>1 DEF IsRun
        <5> QED BY <5>2 DEF k
      <4>3. CASE i = 1 BY <4>1, <4>2, <4>3 DEF first
      <4>4. CASE i # 1
        <5>1. i - 1 \in 1..N /\ i - 1 - 1 \in 0..N /\ i - 1 \in 1..L /\ i - 1 # 0 BY <1>1, <4>4 DEF N
        <5>2. g[i - 1] = f[i - 1 - 1] BY <5>1
        <5> DEFINE s == <<f[i - 1 - 1], i - 1>>
        <5>3. s \in Seq(S) \X (1..N) /\ s[1] = f[i - 1 - 1] /\ s[2] = i - 1 BY <5>1
        <5>4. f[i - 1] = next[s] BY <4>2, <5>1
        <5> HIDE DEF s, g
        <5>5. next[s] = s[1] \o ss[s[2] + 1] BY <5>3 DEF next
        <5>6. s[2] + 1 = i BY <5>3
        <5>7. g[i] = g[i - 1] \o ss[i] BY <4>1, <5>2, <5>3, <5>4, <5>5, <5>6
        <5> QED BY <4>4, <5>7
      <4> QED BY <4>3, <4>4
    <3>3. g = [i \in 1..L |-> g[i]] OBVIOUS
    <3> HIDE DEF g
    <3>4. Full(g) BY <3>2, <3>3
    <3> QED BY <3>4
  <2>4. all = F[L] BY <1>3 DEF FlattenSeq
  <2>5. Full(F)
    <3> HIDE DEF Full
    <3> QED BY <2>3
  <2>6. F[1] = ss[1] /\ \A i \in 1..L : i # 1 => F[i] = F[i - 1] \o ss[i]
    <3> HIDE DEF F, L
    <3>1. 1 \in 1..L BY <1>1, <1>3
    <3>2. \A i \in 1..L : F[i] = IF i = 1 THEN ss[i] ELSE F[i - 1] \o ss[i] BY <2>5
    <3> QED BY <3>1, <3>2
  <2> HIDE DEF F, Full
  <2>7. 0 \in T
    <3>1. \A i \in 1..(0 + 1) : i = 1 OBVIOUS
    <3>2. F[0 + 1] = ss[1] /\ ss[1] \in Seq(S) BY <1>1, <1>3, <2>6
    <3>3. Holds(0) BY <3>1, <3>2
    <3> HIDE DEF Holds
    <3> QED BY <3>3
  <2>8. ASSUME NEW k \in 0..(N - 1), k \in T PROVE k + 1 \in T
    <3> DEFINE a == F[k + 1]
               c == k + 1 + 1
               b == ss[c]
               d == F[c]
    <3>1. c \in 1..L /\ c # 1 /\ c - 1 = k + 1 BY <1>1, <2>1
    <3>2. d = a \o b BY <2>6, <3>1
    <3>3. /\ a \in Seq(S)
          /\ \A x \in 1..Len(a) : \E i \in 1..(k + 1) : \E j \in 1..Len(ss[i]) : a[x] = ss[i][j]
          /\ \A i \in 1..(k + 1) : \A j \in 1..Len(ss[i]) : \E x \in 1..Len(a) : a[x] = ss[i][j]
      BY <2>8
    <3>4. b \in Seq(S) BY <1>1, <3>1
    <3> HIDE DEF a, b, d
    <3>5. /\ d \in Seq(S) /\ Len(d) = Len(a) + Len(b)
          /\ \A i \in 1..Len(a) : d[i] = a[i]
          /\ \A i \in 1..Len(b) : d[Len(a) + i] = b[i]
      BY <3>2, <3>3, <3>4, JoinData
    <3>6. Len(a) \in Nat /\ Len(b) \in Nat BY <3>3, <3>4
    <3>7. ASSUME NEW x \in 1..Len(d) PROVE \E i \in 1..c : \E j \in 1..Len(ss[i]) : d[x] = ss[i][j]
      <4>1. CASE x <= Len(a)
        <5>1. x \in 1..Len(a) BY <3>6, <4>1
        <5>2. PICK i \in 1..(k + 1) : \E j \in 1..Len(ss[i]) : a[x] = ss[i][j] BY <3>3, <5>1
        <5>3. i \in 1..c /\ d[x] = a[x] BY <3>5, <5>1
        <5> QED BY <5>2, <5>3
      <4>2. CASE x > Len(a)
        <5> DEFINE y == x - Len(a)
        <5>1. y \in 1..Len(b) /\ Len(a) + y = x BY <3>5, <3>6, <4>2
        <5>2. d[x] = b[y] BY <3>5, <5>1
        <5>3. c \in 1..c BY <3>1
        <5> HIDE DEF y, c
        <5> QED BY <5>1, <5>2, <5>3 DEF b
      <4> QED BY <3>6, <4>1, <4>2
    <3>8. ASSUME NEW i \in 1..c, NEW j \in 1..Len(ss[i]) PROVE \E x \in 1..Len(d) : d[x] = ss[i][j]
      <4>1. CASE i = c
        <5>1. j \in 1..Len(b) BY <4>1 DEF b
        <5>2. Len(a) + j \in 1..Len(d) /\ d[Len(a) + j] = b[j] BY <3>5, <3>6, <5>1
        <5> QED BY <4>1, <5>2 DEF b
      <4>2. CASE i # c
        <5>1. i \in 1..(k + 1) BY <4>2
        <5>2. PICK x \in 1..Len(a) : a[x] = ss[i][j] BY <3>3, <5>1
        <5>3. x \in 1..Len(d) /\ d[x] = a[x] BY <3>5, <3>6
        <5> QED BY <5>2, <5>3
      <4> QED BY <4>1, <4>2
    <3>9. Holds(k + 1) BY <3>5, <3>7, <3>8 DEF d
    <3>10. k + 1 \in Nat OBVIOUS
    <3> HIDE DEF Holds
    <3> QED BY <3>9, <3>10
  <2>9. 0..N \subseteq T
    <3> HIDE DEF T, N
    <3> QED BY <2>1, <2>7, <2>8, UpTo
  <2>10. N \in 0..N /\ N + 1 = L BY <1>1, <2>1
  <2>11. Holds(N)
    <3> HIDE DEF Holds, N
    <3> QED BY <2>9, <2>10
  <2>12. F[N + 1] = all BY <2>4, <2>10
  <2>13. /\ all \in Seq(S)
         /\ \A x \in 1..Len(all) : \E i \in 1..(N + 1) : \E j \in 1..Len(ss[i]) : all[x] = ss[i][j]
         /\ \A i \in 1..(N + 1) : \A j \in 1..Len(ss[i]) : \E x \in 1..Len(all) : all[x] = ss[i][j]
    BY <2>11, <2>12
  <2>14. N + 1 = L BY <2>10
  <2>15. HasAll(all, ss)
    <3> HIDE DEF N
    <3>1. \A x \in 1..Len(all) : \E i \in 1..L : \E j \in 1..Len(ss[i]) : all[x] = ss[i][j]
      <4> HIDE DEF L
      <4> QED BY ONLY <2>13, <2>14
    <3>2. \A i \in 1..L : \A j \in 1..Len(ss[i]) : \E x \in 1..Len(all) : all[x] = ss[i][j]
      <4> HIDE DEF L
      <4> QED BY ONLY <2>13, <2>14
    <3> QED BY ONLY <3>1, <3>2 DEF HasAll, L
  <2> QED BY <2>13, <2>15
<1> QED BY <1>2, <1>3

Entry == [kind : {"word", "@", "*"}, addr : Nat, v : Value] \cup [kind : {"+", "-"}, addr : Nat, v : Byte]
EntryAt(item, j) == [kind |-> item.kind, addr |-> item.addr + j - 1, v |-> item.data[j]]

HasAllOf(es, items) ==
  /\ \A k \in 1..Len(es) : \E i \in 1..Len(items) : \E j \in 1..Len(items[i].data) :
       es[k] = EntryAt(items[i], j)
  /\ \A i \in 1..Len(items) : \A j \in 1..Len(items[i].data) : \E k \in 1..Len(es) :
       es[k] = EntryAt(items[i], j)

\* The entries of an image are its words and bytes, each with its address.
LEMMA EntriesFacts ==
  ASSUME NEW items \in Seq(Item), NEW es, es = Entries(items)
  PROVE  es \in Seq(Entry) /\ HasAllOf(es, items)
<1> DEFINE Of(item) == [j \in 1..Len(item.data) |-> EntryAt(item, j)]
           ss == [i \in 1..Len(items) |-> Of(items[i])]
<1>1. Len(items) \in Nat /\ \A i \in 1..Len(items) : items[i] \in Item OBVIOUS
<1>2. ASSUME NEW item \in Item PROVE Of(item) \in Seq(Entry) /\ Len(Of(item)) = Len(item.data)
  <2> DEFINE n == Len(item.data)
  <2>1. n \in Nat BY DEF Item
  <2>2. ASSUME NEW j \in 1..n PROVE EntryAt(item, j) \in Entry
    <3>1. item.addr + j - 1 \in Nat BY <2>1, <2>2 DEF Item
    <3>2. \/ item.kind \in {"word", "@", "*"} /\ item.data[j] \in Value
          \/ item.kind \in {"+", "-"} /\ item.data[j] \in Byte
      BY <2>1, <2>2 DEF Item
    <3> QED BY <3>1, <3>2 DEF EntryAt, Entry
  <2> HIDE DEF n
  <2>3. [j \in 1..n |-> EntryAt(item, j)] \in Seq(Entry) /\ Len([j \in 1..n |-> EntryAt(item, j)]) = n
    BY <2>1, <2>2
  <2> QED BY <2>3 DEF n
<1> HIDE DEF Of
<1>3. ss \in Seq(Seq(Entry)) /\ Len(ss) = Len(items) /\ \A i \in 1..Len(items) : ss[i] = Of(items[i]) BY <1>1, <1>2
<1>4. es = FlattenSeq(ss) BY DEF Entries, EntryAt, Of
<1> HIDE DEF ss
<1>5. es \in Seq(Entry) /\ HasAll(es, ss)
  <2>1. ss \in Seq(Seq(Entry)) BY <1>3
  <2> QED BY ONLY <1>4, <2>1, FlattenFacts
<1>6. ASSUME NEW i \in 1..Len(items)
      PROVE  Len(ss[i]) = Len(items[i].data) /\ \A j \in 1..Len(items[i].data) : ss[i][j] = EntryAt(items[i], j)
  <2>1. ss[i] = Of(items[i]) /\ items[i] \in Item BY <1>1, <1>3
  <2>2. Len(ss[i]) = Len(items[i].data) BY <1>2, <2>1
  <2>3. \A j \in 1..Len(items[i].data) : Of(items[i])[j] = EntryAt(items[i], j) BY DEF Of
  <2> QED BY <2>1, <2>2, <2>3
<1>7. ASSUME NEW k \in 1..Len(es)
      PROVE  \E i \in 1..Len(items) : \E j \in 1..Len(items[i].data) : es[k] = EntryAt(items[i], j)
  <2>1. PICK i \in 1..Len(ss) : \E j \in 1..Len(ss[i]) : es[k] = ss[i][j] BY <1>5 DEF HasAll
  <2>2. i \in 1..Len(items) BY <1>3, <2>1
  <2>3. PICK j \in 1..Len(ss[i]) : es[k] = ss[i][j] BY <2>1
  <2>4. j \in 1..Len(items[i].data) /\ ss[i][j] = EntryAt(items[i], j) BY <1>6, <2>2, <2>3
  <2> QED BY <2>2, <2>3, <2>4
<1>8. ASSUME NEW i \in 1..Len(items), NEW j \in 1..Len(items[i].data)
      PROVE  \E k \in 1..Len(es) : es[k] = EntryAt(items[i], j)
  <2>1. i \in 1..Len(ss) /\ j \in 1..Len(ss[i]) /\ ss[i][j] = EntryAt(items[i], j) BY <1>3, <1>6
  <2> QED BY <1>5, <2>1 DEF HasAll
<1> QED BY <1>5, <1>7, <1>8 DEF HasAllOf

\* A dump of a memory is an image.
LEMMA DumpFacts ==
  ASSUME NEW m, Fine(m), NEW items, items = DumpImage(m)
  PROVE  /\ items \in Seq(Item) /\ Len(items) = m.chunks
         /\ \A i \in 1..m.chunks : /\ items[i].kind \in {"@", "*"}
                                   /\ items[i].addr = m.rows[i].addr /\ items[i].data = m.rows[i].data
<1>1. m.chunks \in Nat BY CountFacts
<1> DEFINE Kind(i) == IF \A j \in 1..Len(m.rows[i].data) : m.rows[i].data[j] = m.rows[i].data[1] THEN "@" ELSE "*"
           One(i) == [kind |-> Kind(i), addr |-> m.rows[i].addr, data |-> m.rows[i].data]
<1>2. items = [i \in 1..m.chunks |-> One(i)] BY DEF DumpImage
<1>3. \A i \in 1..m.chunks : Kind(i) \in {"@", "*"} OBVIOUS
<1> HIDE DEF Kind
<1>4. \A i \in 1..m.chunks : One(i) \in Item BY <1>3, InUse DEF Item
<1>5. items \in Seq(Item) /\ Len(items) = m.chunks
  <2> HIDE DEF One
  <2> QED BY <1>1, <1>2, <1>4
<1>6. \A i \in 1..m.chunks : items[i] = One(i)
  <2> HIDE DEF One
  <2> QED BY <1>2
<1>7. ASSUME NEW i \in 1..m.chunks
      PROVE  items[i].kind \in {"@", "*"} /\ items[i].addr = m.rows[i].addr /\ items[i].data = m.rows[i].data
  <2>1. items[i] = [kind |-> Kind(i), addr |-> m.rows[i].addr, data |-> m.rows[i].data] BY <1>6
  <2> QED BY <1>3, <2>1
<1> QED BY <1>5, <1>7

\* The memory and the statics before and after a call.
States == [m : Fines, adj : Adjusts]

\* What an entry puts into its unit of a memory.
Changes(m, e) == IF IsByte(e) THEN [ReadValue(m, UnitOf(e)) EXCEPT ![LaneOf(e)] = e.v] ELSE e.v

\* What an entry of an image has: a word, or a byte and a lane.
LEMMA EntryFacts ==
  ASSUME NEW e \in Entry
  PROVE  /\ UnitOf(e) \in Nat
         /\ IsByte(e) => e.v \in Byte /\ LaneOf(e) \in Lane
         /\ ~ IsByte(e) => e.v \in Value
<1>1. e.addr \in Nat BY DEF Entry
<1>2. e.addr \div 8 \in Nat /\ e.addr % 4 \in 0..3 BY <1>1
<1>3. IsByte(e) => e.v \in Byte BY DEF Entry, IsByte
<1>4. ~ IsByte(e) => e.v \in Value BY DEF Entry, IsByte
<1>5. LaneOf(e) \in Lane
  <2> DEFINE l == e.addr % 4
  <2>1. l \in 0..3 BY <1>2
  <2>2. LaneOf(e) = IF e.kind = "+" THEN 3 - l ELSE l BY DEF LaneOf
  <2> HIDE DEF l
  <2> QED BY <2>1, <2>2 DEF Lane
<1> QED BY <1>1, <1>2, <1>3, <1>4, <1>5 DEF UnitOf

\* An entry leaves a value in its unit.
LEMMA ChangesValue ==
  ASSUME NEW m \in Fines, NEW e \in Entry PROVE Changes(m, e) \in Value
<1>1. UnitOf(e) \in Nat BY EntryFacts
<1>2. CASE ~ IsByte(e) BY <1>2, EntryFacts DEF Changes
<1>3. CASE IsByte(e)
  <2> DEFINE x == ReadValue(m, UnitOf(e))
  <2>1. x \in Value BY <1>1, ReadFinds, ReadsValue DEF Fines, Fine
  <2>2. e.v \in Byte /\ LaneOf(e) \in Lane BY <1>3, EntryFacts
  <2>3. Changes(m, e) = [x EXCEPT ![LaneOf(e)] = e.v] BY <1>3 DEF Changes
  <2> HIDE DEF x
  <2> QED BY <2>1, <2>2, <2>3 DEF Value
<1> QED BY <1>2, <1>3

\* An entry changes its unit and nothing else.
LEMMA PutEffect ==
  ASSUME NEW r \in States, NEW e \in Entry
  PROVE  Put(r, e) \in States /\ Stored(r.m, Put(r, e).m, UnitOf(e), Changes(r.m, e))
<1> DEFINE u == UnitOf(e)
           v == Changes(r.m, e)
           n == [r.m EXCEPT !.rd = ReadRow(r.m, u)]
           from == IF IsByte(e) THEN n ELSE r.m
           w == Write(from, r.adj, u, v)
<1>1. Fine(r.m) /\ r.m \in Fines /\ r.adj \in Adjusts BY DEF States, Fines, Fine
<1>2. u \in Nat BY EntryFacts
<1>3. v \in Value BY <1>1, ChangesValue
<1>4. Put(r, e) = w BY DEF Put, Changes
<1>5. Fine(from) /\ Same(r.m, from)
  <2>1. ReadRow(r.m, u) \in 0..Len(r.m.rows) BY <1>1, <1>2, ReadFinds
  <2>2. Fine(n) /\ Same(r.m, n) BY <1>1, <2>1, Remembers DEF Same
  <2>3. Same(r.m, r.m) BY DEF Same
  <2> QED BY <1>1, <2>2, <2>3
<1> HIDE DEF u, v, from
<1>6. Fine(w.m) /\ w.adj \in Adjusts /\ Stored(from, w.m, u, v) BY <1>1, <1>2, <1>3, <1>5, WriteEffect
<1>7. Stored(r.m, w.m, u, v) BY <1>5, <1>6 DEF Stored, Same
<1>8. w = [m |-> w.m, adj |-> w.adj] BY DEF Write, WriteAt, Result
<1>9. w.m \in Fines BY <1>6 DEF Fines, Fine
<1> HIDE DEF w
<1>10. w \in States BY <1>6, <1>8, <1>9 DEF States
<1> QED BY <1>4, <1>7, <1>10 DEF u, v

\* Merging an image puts entry after entry.
LEMMA MergingRuns ==
  ASSUME NEW m \in Fines, NEW adj \in Adjusts, NEW es \in Seq(Entry), NEW F, F = Merging(m, adj, es)
  PROVE  /\ F[0] = Result(m, adj) /\ \A n \in 0..Len(es) : F[n] \in States
         /\ \A n \in 1..Len(es) : F[n] = Put(F[n - 1], es[n])
<1> DEFINE N == Len(es)
           first == Result(m, adj)
           next == [s \in States \X (1..N) |-> Put(s[1], es[s[2]])]
           Full(f) == f = [n \in 0..N |-> IF n = 0 THEN first ELSE Put(f[n - 1], es[n])]
           T == {n \in Nat : F[n] \in States}
<1>1. N \in Nat /\ \A n \in 1..N : es[n] \in Entry OBVIOUS
<1>2. first \in States BY DEF States, Result
<1>3. next \in [States \X (1..N) -> States]
  <2> SUFFICES ASSUME NEW s \in States \X (1..N) PROVE Put(s[1], es[s[2]]) \in States OBVIOUS
  <2>1. s[1] \in States /\ es[s[2]] \in Entry BY <1>1
  <2> QED BY <2>1, PutEffect
<1>4. F = CHOOSE f : Full(f) BY DEF Merging
<1> HIDE DEF N, first
<1>5. \E f : Full(f)
  <2> HIDE DEF next
  <2>1. PICK f \in [0..N -> States] : IsRun(f, N, first, next) BY <1>1, <1>2, <1>3, RunExists
  <2>2. ASSUME NEW n \in 1..N PROVE next[<<f[n - 1], n>>] = Put(f[n - 1], es[n])
    <3>1. n - 1 \in 0..N BY <1>1
    <3>2. <<f[n - 1], n>> \in States \X (1..N) BY <3>1
    <3> QED BY <3>2 DEF next
  <2>3. \A n \in 0..N : n # 0 => n \in 1..N BY <1>1
  <2>4. Full(f) BY <2>1, <2>2, <2>3 DEF IsRun
  <2> QED BY <2>4
<1>6. Full(F)
  <2> HIDE DEF Full
  <2> QED BY <1>4, <1>5
<1>7. F[0] = first /\ \A n \in 1..N : F[n] = Put(F[n - 1], es[n]) BY <1>1, <1>6
<1> HIDE DEF next, Full
<1>8. 0 \in T BY <1>2, <1>7
<1>9. ASSUME NEW n \in 0..(N - 1), n \in T PROVE n + 1 \in T
  <2>1. n + 1 \in 1..N /\ (n + 1) - 1 = n BY <1>1
  <2>2. F[n + 1] = Put(F[n], es[n + 1]) BY <1>7, <2>1
  <2>3. es[n + 1] \in Entry /\ F[n] \in States BY <1>1, <1>9, <2>1
  <2>4. F[n + 1] \in States BY <2>2, <2>3, PutEffect
  <2> QED BY <2>4
<1>10. 0..N \subseteq T
  <2> HIDE DEF T
  <2> QED BY <1>1, <1>8, <1>9, UpTo
<1> QED BY <1>7, <1>10 DEF N, first

Pairs == [a : Fines, b : Fines, adj : Adjusts]

\* The entry goes into the first memory, and what is then in its unit into the
\* second one.
LEMMA PutBothEffect ==
  ASSUME NEW r \in Pairs, NEW e \in Entry, NEW n, n = PutBoth(r, e)
  PROVE  /\ n \in Pairs /\ Stored(r.a, n.a, UnitOf(e), Changes(r.a, e))
         /\ Stored(r.b, n.b, UnitOf(e), ReadValue(n.a, UnitOf(e)))
<1> DEFINE u == UnitOf(e)
           from == Result(r.a, r.adj)
           one == Put(from, e)
           v == ReadValue(one.m, u)
           two == Write(r.b, one.adj, u, v)
<1>1. r.a \in Fines /\ r.b \in Fines /\ r.adj \in Adjusts BY DEF Pairs
<1>2. n = [a |-> one.m, b |-> two.m, adj |-> two.adj] BY DEF PutBoth
<1>3. from \in States /\ from.m = r.a BY <1>1 DEF States, Result
<1> HIDE DEF from
<1>4. one \in States /\ Stored(r.a, one.m, u, Changes(r.a, e)) BY <1>3, PutEffect
<1> HIDE DEF one
<1>5. one.m \in Fines /\ one.adj \in Adjusts BY <1>4 DEF States
<1>6. u \in Nat BY EntryFacts
<1> HIDE DEF u
<1>7. v \in Value BY <1>5, <1>6, ReadFinds, ReadsValue DEF Fines, Fine
<1> HIDE DEF v
<1>8. Fine(two.m) /\ two.adj \in Adjusts /\ Stored(r.b, two.m, u, v)
  BY <1>1, <1>5, <1>6, <1>7, WriteEffect DEF Fines, Fine
<1> HIDE DEF two
<1>9. two.m \in Fines BY <1>8 DEF Fine, Fines
<1>10. n \in Pairs /\ n.a = one.m /\ n.b = two.m BY <1>2, <1>5, <1>8, <1>9 DEF Pairs
<1> QED BY <1>4, <1>8, <1>10 DEF u, v

\* MergeImageAndDuplicate puts entry after entry into both.
LEMMA DuplicatingRuns ==
  ASSUME NEW a \in Fines, NEW b \in Fines, NEW adj \in Adjusts, NEW es \in Seq(Entry),
         NEW F, F = Duplicating(a, b, adj, es)
  PROVE  /\ F[0] = [a |-> a, b |-> b, adj |-> adj] /\ \A n \in 0..Len(es) : F[n] \in Pairs
         /\ \A n \in 1..Len(es) : F[n] = PutBoth(F[n - 1], es[n])
<1> DEFINE N == Len(es)
           first == [a |-> a, b |-> b, adj |-> adj]
           next == [s \in Pairs \X (1..N) |-> PutBoth(s[1], es[s[2]])]
           Full(f) == f = [n \in 0..N |-> IF n = 0 THEN first ELSE PutBoth(f[n - 1], es[n])]
           T == {n \in Nat : F[n] \in Pairs}
<1>1. N \in Nat /\ \A n \in 1..N : es[n] \in Entry OBVIOUS
<1>2. first \in Pairs BY DEF Pairs
<1>3. next \in [Pairs \X (1..N) -> Pairs]
  <2> SUFFICES ASSUME NEW s \in Pairs \X (1..N) PROVE PutBoth(s[1], es[s[2]]) \in Pairs OBVIOUS
  <2>1. s[1] \in Pairs /\ es[s[2]] \in Entry BY <1>1
  <2> QED BY <2>1, PutBothEffect
<1>4. F = CHOOSE f : Full(f) BY DEF Duplicating
<1> HIDE DEF N, first
<1>5. \E f : Full(f)
  <2> HIDE DEF next
  <2>1. PICK f \in [0..N -> Pairs] : IsRun(f, N, first, next) BY <1>1, <1>2, <1>3, RunExists
  <2>2. ASSUME NEW n \in 1..N PROVE next[<<f[n - 1], n>>] = PutBoth(f[n - 1], es[n])
    <3>1. n - 1 \in 0..N BY <1>1
    <3>2. <<f[n - 1], n>> \in Pairs \X (1..N) BY <3>1
    <3> QED BY <3>2 DEF next
  <2>3. \A n \in 0..N : n # 0 => n \in 1..N BY <1>1
  <2>4. Full(f) BY <2>1, <2>2, <2>3 DEF IsRun
  <2> QED BY <2>4
<1>6. Full(F)
  <2> HIDE DEF Full
  <2> QED BY <1>4, <1>5
<1>7. F[0] = first /\ \A n \in 1..N : F[n] = PutBoth(F[n - 1], es[n]) BY <1>1, <1>6
<1> HIDE DEF next, Full
<1>8. 0 \in T BY <1>2, <1>7
<1>9. ASSUME NEW n \in 0..(N - 1), n \in T PROVE n + 1 \in T
  <2>1. n + 1 \in 1..N /\ (n + 1) - 1 = n BY <1>1
  <2>2. F[n + 1] = PutBoth(F[n], es[n + 1]) BY <1>7, <2>1
  <2>3. es[n + 1] \in Entry /\ F[n] \in Pairs BY <1>1, <1>9, <2>1
  <2>4. F[n + 1] \in Pairs BY <2>2, <2>3, PutBothEffect
  <2> QED BY <2>4
<1>10. 0..N \subseteq T
  <2> HIDE DEF T
  <2> QED BY <1>1, <1>8, <1>9, UpTo
<1> QED BY <1>7, <1>10 DEF N, first

----------------------------------------------------------------------------
(* The rows stay in order.                                                 *)

MemInv == /\ mem \in [Mems -> Fines] /\ adjust \in Adjusts /\ file \in Seq(Item) /\ stores \in Nat

\* Two empty memories are in order.
LEMMA MemInvFirst == MemInit => MemInv
<1> SUFFICES ASSUME MemInit PROVE MemInv OBVIOUS
<1>1. EmptyMem \in Fines
  <2>1. EmptyMem \in Memories BY DEF EmptyMem, Memories
  <2>2. Ordered(EmptyMem) BY DEF EmptyMem, Ordered, Behind
  <2> QED BY <2>1, <2>2 DEF Fines
<1>2. mem \in [Mems -> Fines] BY <1>1 DEF MemInit, Mems
<1>3. adjust \in Adjusts BY MemAssumption DEF MemInit, Adjusts
<1> QED BY <1>2, <1>3 DEF MemInit, MemInv

\* No call puts a row out of order: stores, loads, dumps, merges, comparisons.
LEMMA MemInvNext == MemInv /\ [MemNext]_mvars => MemInv'
<1> SUFFICES ASSUME MemInv, [MemNext]_mvars PROVE MemInv' OBVIOUS
<1> DEFINE A == mem["A"]
           B == mem["B"]
<1>1. /\ A \in Fines /\ Fine(A) /\ B \in Fines /\ Fine(B) /\ mem \in [Mems -> Fines]
      /\ adjust \in Adjusts /\ file \in Seq(Item) /\ stores \in Nat
  BY DEF MemInv, Mems, Fines, Fine
<1>2. ASSUME NEW a, NEW b, Fine(a), Fine(b) PROVE [x \in {"A", "B"} |-> IF x = "A" THEN a ELSE b] \in [Mems -> Fines]
  BY <1>2 DEF Mems, Fines, Fine
<1>3. CASE Store
  <2>1. PICK a \in Unit, v \in Words :
          /\ stores' = stores + 1 /\ file' = file
          /\ mem' = [mem EXCEPT !["A"] = Write(A, adjust, a, v).m] /\ adjust' = Write(A, adjust, a, v).adj
    BY <1>3 DEF Store
  <2> DEFINE r == Write(A, adjust, a, v)
  <2>2. a \in Nat /\ v \in Value BY MemAssumption
  <2> HIDE DEF A
  <2>3. Fine(r.m) /\ r.adj \in Adjusts BY <1>1, <2>2, WriteEffect
  <2> HIDE DEF r
  <2>4. mem' \in [Mems -> Fines] BY <1>1, <2>1, <2>3 DEF r, Fine, Fines
  <2> QED BY <1>1, <2>1, <2>3, <2>4 DEF MemInv, r
<1>4. CASE Load
  <2>1. PICK a \in Unit : mem' = [mem EXCEPT !["A"].rd = ReadRow(A, a)]
    BY <1>4 DEF Load
  <2> DEFINE n == [A EXCEPT !.rd = ReadRow(A, a)]
  <2>2. a \in Nat BY MemAssumption
  <2>3. ReadRow(A, a) \in 0..Len(A.rows) BY <1>1, <2>2, ReadFinds
  <2>4. Fine(n) BY <1>1, <2>3, Remembers
  <2>5. mem' = [mem EXCEPT !["A"] = n] BY <2>1
  <2> HIDE DEF n
  <2>6. mem' \in [Mems -> Fines] BY <1>1, <2>4, <2>5 DEF Fine, Fines
  <2> QED BY <1>1, <1>4, <2>6 DEF Load, MemInv
<1>5. CASE Dump
  <2> DEFINE n == chunk_gc(A)
  <2>1. Fine(n) BY <1>1, CollectEffect
  <2>2. mem' = [mem EXCEPT !["A"] = n] /\ file' = DumpImage(mem'["A"]) /\ adjust' = adjust /\ stores' = stores + 1
    BY <1>5 DEF Dump, ImageCall
  <2> HIDE DEF n
  <2>3. mem' \in [Mems -> Fines] /\ mem'["A"] = n BY <1>1, <2>1, <2>2 DEF Fine, Fines, Mems
  <2>4. file' \in Seq(Item) BY <2>1, <2>2, <2>3, DumpFacts
  <2> QED BY <1>1, <2>2, <2>3, <2>4 DEF MemInv
<1>6. CASE Merge
  <2>1. PICK items \in Images \cup {file} :
          /\ mem' = [mem EXCEPT !["B"] = MergeImage(B, adjust, items).m]
          /\ adjust' = MergeImage(B, adjust, items).adj /\ file' = items /\ stores' = stores + 1
    BY <1>6 DEF Merge, ImageCall
  <2>2. items \in Seq(Item) BY <1>1, MemAssumption
  <2> DEFINE es == Entries(items)
             F == Merging(B, adjust, es)
             r == F[Len(es)]
  <2>3. es \in Seq(Entry) BY <2>2, EntriesFacts
  <2>4. MergeImage(B, adjust, items) = r BY DEF MergeImage
  <2> HIDE DEF es, B
  <2>5. Len(es) \in 0..Len(es) BY <2>3
  <2>6. r \in States BY <1>1, <2>3, <2>5, MergingRuns
  <2> HIDE DEF r
  <2>7. mem' \in [Mems -> Fines] BY <1>1, <2>1, <2>4, <2>6 DEF States
  <2> QED BY <1>1, <2>1, <2>2, <2>4, <2>6, <2>7 DEF MemInv, States
<1>7. CASE MergeDuplicate
  <2> DEFINE R(items) == MergeImageAndDuplicate(A, B, adjust, items)
  <2>1. PICK items \in Images \cup {file} :
          /\ mem' = [x \in {"A", "B"} |-> IF x = "A" THEN R(items).a ELSE R(items).b]
          /\ adjust' = R(items).adj /\ file' = items /\ stores' = stores + 1
    BY <1>7 DEF MergeDuplicate, ImageCall
  <2>2. items \in Seq(Item) BY <1>1, MemAssumption
  <2> DEFINE es == Entries(items)
             F == Duplicating(A, B, adjust, es)
             r == F[Len(es)]
  <2>3. es \in Seq(Entry) BY <2>2, EntriesFacts
  <2>4. R(items) = r BY DEF MergeImageAndDuplicate
  <2> HIDE DEF es, A, B, R
  <2>5. Len(es) \in 0..Len(es) BY <2>3
  <2>6. r \in Pairs BY <1>1, <2>3, <2>5, DuplicatingRuns
  <2> HIDE DEF r
  <2>7. Fine(r.a) /\ Fine(r.b) /\ r.adj \in Adjusts BY <2>6 DEF Pairs, Fine, Fines
  <2>8. mem' \in [Mems -> Fines] BY <1>2, <2>1, <2>4, <2>7
  <2> QED BY <1>1, <2>1, <2>2, <2>4, <2>7, <2>8 DEF MemInv
<1>8. CASE CompareBoth
  <2>1. mem' = [x \in {"A", "B"} |-> chunk_gc(mem[x])] /\ UNCHANGED <<adjust, file, stores>> BY <1>8 DEF CompareBoth
  <2>2. \A x \in {"A", "B"} : Fine(mem[x]) BY <1>1
  <2>3. \A x \in {"A", "B"} : Fine(chunk_gc(mem[x])) BY <2>2, CollectEffect
  <2>4. mem' \in [Mems -> Fines] BY <2>1, <2>3 DEF Mems, Fines, Fine
  <2> QED BY <1>1, <2>1, <2>4 DEF MemInv
<1>9. CASE UNCHANGED mvars BY <1>1, <1>9 DEF MemInv, mvars
<1> QED BY <1>3, <1>4, <1>5, <1>6, <1>7, <1>8, <1>9 DEF MemNext

\* In every memory, whatever is stored, read, dumped and merged, the rows are
\* sorted, disjoint and not empty, those behind them have no length, and the
\* rows remembered exist (mem.cc:405-583): what the searches rest on.
THEOREM RowsOrderedHolds == MemSpec => []RowsOrdered
<1>1. MemInit => MemInv BY MemInvFirst
<1>2. MemInv /\ [MemNext]_mvars => MemInv' BY MemInvNext
<1>3. MemInv => RowsOrdered BY DEF MemInv, RowsOrdered, Fines, Adjusts
<1> QED BY <1>1, <1>2, <1>3, PTL DEF MemSpec

----------------------------------------------------------------------------
(* Memory is a plain function.                                             *)

Contents(m) == [u \in Unit |-> ReadValue(m, u)]

\* The rows say what is read.
LEMMA ReadIs == ASSUME NEW m, Fine(m), NEW u \in Nat, NEW v, Reads(m, u, v) PROVE ReadValue(m, u) = v
BY ReadFinds, ReadsOne

\* Memories that hold the same are read the same.
LEMMA SameReads ==
  ASSUME NEW m, NEW n, Fine(m), Fine(n), Same(m, n)
  PROVE  (\A u \in Nat : ReadValue(n, u) = ReadValue(m, u)) /\ Contents(n) = Contents(m)
<1>1. ASSUME NEW u \in Nat PROVE ReadValue(n, u) = ReadValue(m, u)
  <2>1. Reads(m, u, ReadValue(m, u)) BY ReadFinds
  <2>2. Reads(n, u, ReadValue(m, u)) BY <2>1 DEF Same
  <2> QED BY <2>2, ReadIs
<1>2. Unit \subseteq Nat BY MemAssumption
<1> QED BY <1>1, <1>2 DEF Contents

\* What is read after a store.
LEMMA StoredReads ==
  ASSUME NEW m, NEW n, Fine(m), Fine(n), NEW a \in Nat, NEW v, Stored(m, n, a, v), NEW u \in Nat
  PROVE  ReadValue(n, u) = IF u = a THEN v ELSE ReadValue(m, u)
<1>1. Reads(m, u, ReadValue(m, u)) BY ReadFinds
<1>2. Reads(n, u, IF u = a THEN v ELSE ReadValue(m, u)) BY <1>1 DEF Stored
<1> QED BY <1>2, ReadIs

\* The run of Overlay is whatever is assigned step by step.
LEMMA OverlayIs ==
  ASSUME NEW f, NEW bytes, Len(bytes) \in Nat, NEW g, g = [n \in 0..Len(bytes) |-> g[n]],
         g[0] = f, \A n \in 1..Len(bytes) : g[n] = Plain!Assign(g[n - 1], bytes[n])
  PROVE  Plain!Overlay(f, bytes) = g[Len(bytes)]
<1> DEFINE N == Len(bytes)
           Full(h) == h = [n \in 0..N |-> IF n = 0 THEN f ELSE Plain!Assign(h[n - 1], bytes[n])]
           H == CHOOSE h : Full(h)
           T == {n \in Nat : H[n] = g[n]}
<1>1. N \in Nat OBVIOUS
<1>2. \A n \in 0..N : n # 0 => n \in 1..N BY <1>1
<1> HIDE DEF N
<1>3. Full(g)
  <2>1. \A n \in 0..N : g[n] = IF n = 0 THEN f ELSE Plain!Assign(g[n - 1], bytes[n]) BY <1>2 DEF N
  <2> QED BY <2>1 DEF N
<1>4. Full(H)
  <2> HIDE DEF Full
  <2> QED BY <1>3
<1> HIDE DEF H
<1>5. H[0] = f /\ \A n \in 1..N : H[n] = Plain!Assign(H[n - 1], bytes[n])
  <2>1. \A n \in 0..N : H[n] = IF n = 0 THEN f ELSE Plain!Assign(H[n - 1], bytes[n]) BY <1>4
  <2>2. 0 \in 0..N /\ \A n \in 1..N : n \in 0..N /\ n # 0 BY <1>1
  <2> QED BY <2>1, <2>2
<1>6. 0 \in T BY <1>5
<1>7. ASSUME NEW n \in 0..(N - 1), n \in T PROVE n + 1 \in T
  <2>1. n + 1 \in 1..N /\ (n + 1) - 1 = n BY <1>1
  <2>2. H[n + 1] = Plain!Assign(H[n], bytes[n + 1]) BY <1>5, <2>1
  <2>3. g[n + 1] = Plain!Assign(g[n], bytes[n + 1]) BY <2>1 DEF N
  <2> QED BY <1>7, <2>2, <2>3
<1>8. 0..N \subseteq T
  <2> HIDE DEF T
  <2> QED BY <1>1, <1>6, <1>7, UpTo
<1>9. H[N] = g[N] BY <1>1, <1>8
<1>10. Plain!Overlay(f, bytes) = H[N] BY DEF Plain!Overlay, H, N
<1> QED BY <1>9, <1>10 DEF N

\* The lane of a byte is the one meant.
OneLane(e) == IsByte(e) => LaneOf(e) = LaneMeant(e)

\* An entry assigns what it means.
LEMMA PutAssigns ==
  ASSUME NEW m \in Fines, NEW n \in Fines, NEW e \in Entry, OneLane(e), Stored(m, n, UnitOf(e), Changes(m, e))
  PROVE  Contents(n) = Plain!Assign(Contents(m), Meaning(e))
<1> DEFINE a == UnitOf(e)
           old == ReadValue(m, a)
           v == Changes(m, e)
           w == Meaning(e).v
           new == [l \in DOMAIN old |-> IF l \in DOMAIN w THEN w[l] ELSE old[l]]
<1>1. Fine(m) /\ Fine(n) /\ a \in Nat /\ Unit \subseteq Nat BY EntryFacts, MemAssumption DEF Fines, Fine
<1>2. ASSUME NEW u \in Nat PROVE ReadValue(n, u) = IF u = a THEN v ELSE ReadValue(m, u)
  <2> HIDE DEF a, v
  <2> QED BY <1>1, StoredReads DEF a, v
<1>3. old \in Value BY <1>1, ReadFinds, ReadsValue
<1>4. v = new
  <2>1. DOMAIN old = Lane BY <1>3 DEF Value
  <2>2. CASE IsByte(e)
    <3>1. w = [l \in {LaneOf(e)} |-> e.v] BY <2>2 DEF Meaning, OneLane
    <3>2. v = [old EXCEPT ![LaneOf(e)] = e.v] BY <2>2 DEF Changes
    <3>3. LaneOf(e) \in Lane BY <2>2, EntryFacts
    <3> HIDE DEF old, w, v
    <3> QED BY <2>1, <1>3, <3>1, <3>2, <3>3 DEF Value
  <2>3. CASE ~ IsByte(e)
    <3>1. w = e.v /\ v = e.v /\ e.v \in Value BY <2>3, EntryFacts DEF Meaning, Changes
    <3> HIDE DEF old, w, v
    <3> QED BY <2>1, <3>1 DEF Value
  <2> QED BY <2>2, <2>3
<1>5. Plain!Assign(Contents(m), Meaning(e)) =
        IF a \notin Unit THEN Contents(m) ELSE [Contents(m) EXCEPT ![a] =
          [l \in DOMAIN Contents(m)[a] |-> IF l \in DOMAIN w THEN w[l] ELSE Contents(m)[a][l]]]
  BY DEF Plain!Assign, Meaning, Contents
<1>6. CASE a \notin Unit
  <2> HIDE DEF a, v
  <2>1. \A u \in Unit : ReadValue(n, u) = ReadValue(m, u) BY <1>1, <1>2, <1>6
  <2> QED BY <1>5, <1>6, <2>1 DEF Contents
<1>7. CASE a \in Unit
  <2>1. Contents(m)[a] = old BY <1>7 DEF Contents
  <2>2. Plain!Assign(Contents(m), Meaning(e)) = [Contents(m) EXCEPT ![a] = v] BY <1>4, <1>5, <1>7, <2>1
  <2> HIDE DEF a, v
  <2> QED BY <1>1, <1>2, <1>7, <2>2 DEF Contents
<1> QED BY <1>6, <1>7

\* An entry means its unit, and a word means itself.
LEMMA MeaningFacts ==
  ASSUME NEW e PROVE Meaning(e).unit = UnitOf(e) /\ (~ IsByte(e) => Meaning(e).v = e.v)
BY DEF Meaning

\* An image file says what its entries mean, one by one.
LEMMA ImageFacts ==
  ASSUME NEW items \in Seq(Item), NEW es, es = Entries(items), NEW bytes, bytes = ImageOf(items)
  PROVE  /\ es \in Seq(Entry) /\ Len(es) \in Nat /\ Len(bytes) = Len(es)
         /\ \A n \in 1..Len(es) : es[n] \in Entry /\ bytes[n] = Meaning(es[n])
<1>1. es \in Seq(Entry) BY EntriesFacts
<1>2. Len(es) \in Nat /\ \A n \in 1..Len(es) : es[n] \in Entry BY <1>1
<1>3. bytes = [n \in 1..Len(es) |-> Meaning(es[n])] BY DEF ImageOf
<1> QED BY <1>1, <1>2, <1>3

AllOneLane(es) == \A n \in 1..Len(es) : OneLane(es[n])

\* Merging an image assigns what it says.
LEMMA MergeOverlay ==
  ASSUME NEW m \in Fines, NEW adj \in Adjusts, NEW items \in Seq(Item), AllOneLane(Entries(items)),
         NEW r, r = MergeImage(m, adj, items)
  PROVE  r \in States /\ Contents(r.m) = Plain!Overlay(Contents(m), ImageOf(items))
<1> DEFINE es == Entries(items)
           bytes == ImageOf(items)
           N == Len(es)
           F == Merging(m, adj, es)
           g == [n \in 0..N |-> Contents(F[n].m)]
<1>1. /\ es \in Seq(Entry) /\ N \in Nat /\ Len(bytes) = N
      /\ \A n \in 1..N : es[n] \in Entry /\ bytes[n] = Meaning(es[n])
  BY ImageFacts
<1>2. \A n \in 1..N : OneLane(es[n]) BY DEF AllOneLane
<1>3. r = F[N] BY DEF MergeImage
<1> HIDE DEF es, bytes
<1>4. /\ F[0] = Result(m, adj) /\ \A n \in 0..N : F[n] \in States
      /\ \A n \in 1..N : F[n] = Put(F[n - 1], es[n])
  BY <1>1, MergingRuns
<1> HIDE DEF F, N
<1>5. g[0] = Contents(m) BY <1>1, <1>4 DEF Result
<1>6. ASSUME NEW n \in 1..N PROVE g[n] = Plain!Assign(g[n - 1], bytes[n])
  <2> DEFINE p == F[n - 1]
             q == F[n]
             e == es[n]
  <2>1. n \in 0..N /\ n - 1 \in 0..N BY <1>1
  <2>2. p \in States /\ q \in States /\ q = Put(p, e) /\ e \in Entry /\ OneLane(e) /\ bytes[n] = Meaning(e)
    BY <1>1, <1>2, <1>4, <2>1
  <2>3. g[n] = Contents(q.m) /\ g[n - 1] = Contents(p.m) BY <2>1
  <2> HIDE DEF p, q, e, g
  <2>4. p.m \in Fines /\ q.m \in Fines BY <2>2 DEF States
  <2>5. Stored(p.m, q.m, UnitOf(e), Changes(p.m, e)) BY <2>2, PutEffect
  <2>6. Contents(q.m) = Plain!Assign(Contents(p.m), Meaning(e)) BY <2>2, <2>4, <2>5, PutAssigns
  <2> QED BY <2>2, <2>3, <2>6
<1>7. g = [n \in 0..Len(bytes) |-> g[n]] BY <1>1
<1>8. g[N] = Contents(r.m) /\ r \in States BY <1>1, <1>3, <1>4
<1> HIDE DEF g
<1>9. Plain!Overlay(Contents(m), bytes) = g[Len(bytes)]
  <2>1. Len(bytes) \in Nat /\ \A n \in 1..Len(bytes) : g[n] = Plain!Assign(g[n - 1], bytes[n]) BY <1>1, <1>6
  <2> QED BY ONLY <1>5, <1>7, <2>1, OverlayIs
<1> QED BY <1>1, <1>8, <1>9 DEF bytes

\* MergeImageAndDuplicate assigns it to the first memory, and the second one is
\* the same where the image has anything.
LEMMA DuplicateOverlay ==
  ASSUME NEW a \in Fines, NEW b \in Fines, NEW adj \in Adjusts, NEW items \in Seq(Item), AllOneLane(Entries(items)),
         NEW r, r = MergeImageAndDuplicate(a, b, adj, items)
  PROVE  /\ r \in Pairs /\ Contents(r.a) = Plain!Overlay(Contents(a), ImageOf(items))
         /\ \A u \in Unit : ReadValue(r.b, u) = IF u \in Plain!Units(ImageOf(items)) THEN ReadValue(r.a, u)
                                                ELSE ReadValue(b, u)
<1> DEFINE es == Entries(items)
           bytes == ImageOf(items)
           N == Len(es)
           F == Duplicating(a, b, adj, es)
           g == [n \in 0..N |-> Contents(F[n].a)]
           Done(n) == {UnitOf(es[k]) : k \in 1..n}
           Both(n) == \A u \in Unit : ReadValue(F[n].b, u) = IF u \in Done(n) THEN ReadValue(F[n].a, u)
                                                             ELSE ReadValue(b, u)
           T == {n \in Nat : Both(n)}
<1>1. /\ es \in Seq(Entry) /\ N \in Nat /\ Len(bytes) = N
      /\ \A n \in 1..N : es[n] \in Entry /\ bytes[n] = Meaning(es[n])
  BY ImageFacts
<1>2. \A n \in 1..N : OneLane(es[n]) BY DEF AllOneLane
<1>3. r = F[N] BY DEF MergeImageAndDuplicate
<1> HIDE DEF es, bytes
<1>4. /\ F[0] = [a |-> a, b |-> b, adj |-> adj] /\ \A n \in 0..N : F[n] \in Pairs
      /\ \A n \in 1..N : F[n] = PutBoth(F[n - 1], es[n])
  BY <1>1, DuplicatingRuns
<1> HIDE DEF F, N
<1>5. ASSUME NEW n \in 1..N
      PROVE  /\ F[n - 1] \in Pairs /\ F[n] \in Pairs /\ es[n] \in Entry /\ OneLane(es[n])
             /\ Stored(F[n - 1].a, F[n].a, UnitOf(es[n]), Changes(F[n - 1].a, es[n]))
             /\ Stored(F[n - 1].b, F[n].b, UnitOf(es[n]), ReadValue(F[n].a, UnitOf(es[n])))
  <2>1. n \in 0..N /\ n - 1 \in 0..N BY <1>1
  <2>2. F[n - 1] \in Pairs /\ F[n] \in Pairs /\ F[n] = PutBoth(F[n - 1], es[n]) /\ es[n] \in Entry /\ OneLane(es[n])
    BY <1>1, <1>2, <1>4, <2>1
  <2> QED BY <2>2, PutBothEffect
<1>6. g[0] = Contents(a) BY <1>1, <1>4
<1>7. ASSUME NEW n \in 1..N PROVE g[n] = Plain!Assign(g[n - 1], bytes[n])
  <2> DEFINE p == F[n - 1]
             q == F[n]
             e == es[n]
  <2>1. n \in 0..N /\ n - 1 \in 0..N BY <1>1
  <2>2. /\ p.a \in Fines /\ q.a \in Fines /\ e \in Entry /\ OneLane(e) /\ bytes[n] = Meaning(e)
        /\ Stored(p.a, q.a, UnitOf(e), Changes(p.a, e))
    BY <1>1, <1>5 DEF Pairs
  <2>3. g[n] = Contents(q.a) /\ g[n - 1] = Contents(p.a) BY <2>1
  <2> HIDE DEF p, q, e, g
  <2>4. Contents(q.a) = Plain!Assign(Contents(p.a), Meaning(e)) BY <2>2, PutAssigns
  <2> QED BY <2>2, <2>3, <2>4
<1>8. g = [n \in 0..Len(bytes) |-> g[n]] BY <1>1
<1>9. g[N] = Contents(r.a) /\ r \in Pairs BY <1>1, <1>3, <1>4
<1> HIDE DEF g
<1>10. Plain!Overlay(Contents(a), bytes) = g[Len(bytes)]
  <2>1. Len(bytes) \in Nat /\ \A n \in 1..Len(bytes) : g[n] = Plain!Assign(g[n - 1], bytes[n]) BY <1>1, <1>7
  <2> QED BY ONLY <1>6, <1>8, <2>1, OverlayIs
<1>11. 0 \in T
  <2>1. Done(0) = {} OBVIOUS
  <2>2. F[0].b = b BY <1>4
  <2>3. Both(0) BY <2>1, <2>2
  <2> HIDE DEF Both
  <2> QED BY <2>3
<1>12. ASSUME NEW n \in 0..(N - 1), n \in T PROVE n + 1 \in T
  <2> DEFINE p == F[n]
             q == F[n + 1]
             x == UnitOf(es[n + 1])
             v == Changes(p.a, es[n + 1])
  <2>1. n + 1 \in 1..N /\ (n + 1) - 1 = n /\ n \in Nat BY <1>1
  <2>2. /\ p \in Pairs /\ q \in Pairs /\ es[n + 1] \in Entry /\ Stored(p.a, q.a, x, v)
        /\ Stored(p.b, q.b, x, ReadValue(q.a, x))
    BY <1>5, <2>1
  <2>3. x \in Nat BY <2>2, EntryFacts
  <2>4. Done(n + 1) = Done(n) \cup {x}
    <3>1. 1..(n + 1) = (1..n) \cup {n + 1} BY <2>1
    <3> QED BY <3>1
  <2>5. Both(n) BY <1>12
  <2> HIDE DEF p, q, x, v, Done
  <2>6. Fine(p.a) /\ Fine(q.a) /\ Fine(p.b) /\ Fine(q.b) BY <2>2 DEF Pairs, Fines, Fine
  <2>7. ASSUME NEW u \in Unit
        PROVE  ReadValue(q.b, u) = IF u \in Done(n + 1) THEN ReadValue(q.a, u) ELSE ReadValue(b, u)
    <3>1. u \in Nat BY MemAssumption
    <3>2. ReadValue(q.a, u) = IF u = x THEN v ELSE ReadValue(p.a, u) BY <2>2, <2>3, <2>6, <3>1, StoredReads
    <3>3. ReadValue(q.b, u) = IF u = x THEN ReadValue(q.a, x) ELSE ReadValue(p.b, u)
      BY <2>2, <2>3, <2>6, <3>1, StoredReads
    <3>4. ReadValue(p.b, u) = IF u \in Done(n) THEN ReadValue(p.a, u) ELSE ReadValue(b, u) BY <2>5 DEF p
    <3> QED BY <2>4, <3>2, <3>3, <3>4
  <2>8. Both(n + 1) BY <2>7 DEF q
  <2> HIDE DEF Both
  <2> QED BY <2>1, <2>8
<1>13. 0..N \subseteq T
  <2> HIDE DEF T
  <2> QED BY <1>1, <1>11, <1>12, UpTo
<1>14. N \in 0..N BY <1>1
<1>15. Both(N)
  <2> HIDE DEF Both
  <2> QED BY <1>13, <1>14
<1>16. Plain!Units(bytes) = Done(N)
  <2>1. \A n \in 1..N : bytes[n].unit = UnitOf(es[n]) BY <1>1, MeaningFacts
  <2> QED BY <1>1, <2>1 DEF Plain!Units
<1> QED BY <1>1, <1>3, <1>9, <1>10, <1>15, <1>16 DEF bytes

\* A dump assigned to an empty memory is the memory.
LEMMA DumpOverlay ==
  ASSUME NEW m \in Fines
  PROVE  /\ AllOneLane(Entries(DumpImage(m)))
         /\ Plain!Overlay([u \in Unit |-> MEM_BAD], ImageOf(DumpImage(m))) = Contents(m)
<1> DEFINE items == DumpImage(m)
           es == Entries(items)
           bytes == ImageOf(items)
           N == Len(es)
           empty == [u \in Unit |-> MEM_BAD]
           Done(n) == {UnitOf(es[k]) : k \in 1..n}
           g == [n \in 0..N |-> [u \in Unit |-> IF u \in Done(n) THEN ReadValue(m, u) ELSE MEM_BAD]]
<1>1. Fine(m) BY DEF Fines, Fine
<1>2. /\ items \in Seq(Item) /\ Len(items) = m.chunks
      /\ \A i \in 1..m.chunks : /\ items[i].kind \in {"@", "*"}
                                /\ items[i].addr = m.rows[i].addr /\ items[i].data = m.rows[i].data
  BY <1>1, DumpFacts
<1> HIDE DEF items
<1>3. /\ es \in Seq(Entry) /\ N \in Nat /\ Len(bytes) = N
      /\ \A n \in 1..N : es[n] \in Entry /\ bytes[n] = Meaning(es[n])
  BY <1>2, ImageFacts
<1>4. /\ \A k \in 1..N : \E i \in 1..Len(items) : \E j \in 1..Len(items[i].data) : es[k] = EntryAt(items[i], j)
      /\ \A i \in 1..Len(items) : \A j \in 1..Len(items[i].data) : \E k \in 1..N : es[k] = EntryAt(items[i], j)
  <2>1. HasAllOf(es, items) BY <1>2, EntriesFacts
  <2> HIDE DEF es
  <2> QED BY <2>1 DEF HasAllOf
<1> HIDE DEF es, bytes, N
<1>5. ASSUME NEW i \in 1..m.chunks, NEW j \in 1..Len(m.rows[i].data), NEW e, e = EntryAt(items[i], j)
      PROVE  /\ ~ IsByte(e) /\ UnitOf(e) = m.rows[i].addr + j - 1 /\ UnitOf(e) \in Nat
             /\ In(m.rows[i], UnitOf(e)) /\ e.v = ReadValue(m, UnitOf(e))
  <2> DEFINE d == m.rows[i].data
             L == Len(d)
             a == m.rows[i].addr
             u == a + j - 1
  <2>1. e.kind \in {"@", "*"} /\ e.addr = u /\ e.v = d[j] BY <1>2, <1>5 DEF EntryAt
  <2>2. ~ IsByte(e) BY <2>1 DEF IsByte
  <2>3. UnitOf(e) = u BY <2>1, <2>2 DEF UnitOf
  <2>4. a \in Nat /\ L \in Nat /\ End(m.rows[i]) = a + L BY <1>1, InUse DEF End
  <2>5. j \in 1..L OBVIOUS
  <2> HIDE DEF L, d, a
  <2>6. u \in Nat /\ a <= u /\ u < a + L /\ 1 + u - a = j BY <2>4, <2>5
  <2> HIDE DEF u
  <2>7. In(m.rows[i], u) /\ At(m.rows[i], u) = d[j] BY <2>4, <2>6 DEF In, At, a, d
  <2>8. ReadValue(m, u) = d[j] BY <1>1, <2>6, <2>7, RowReads, ReadIs
  <2> QED BY <2>1, <2>2, <2>3, <2>6, <2>7, <2>8 DEF u, a
<1>6. ASSUME NEW k \in 1..N
      PROVE  /\ ~ IsByte(es[k]) /\ UnitOf(es[k]) \in Nat /\ es[k].v = ReadValue(m, UnitOf(es[k]))
  <2>1. PICK i \in 1..Len(items) : \E j \in 1..Len(items[i].data) : es[k] = EntryAt(items[i], j) BY <1>4
  <2>2. i \in 1..m.chunks /\ items[i].data = m.rows[i].data BY <1>2
  <2>3. PICK j \in 1..Len(m.rows[i].data) : es[k] = EntryAt(items[i], j) BY <2>1, <2>2
  <2> QED BY <1>5, <2>2, <2>3
<1>7. ASSUME NEW u \in Nat, u \notin Done(N) PROVE ReadValue(m, u) = MEM_BAD
  <2>1. ASSUME NEW i \in 1..m.chunks, In(m.rows[i], u) PROVE FALSE
    <3> DEFINE j == 1 + u - m.rows[i].addr
    <3>1. i \in 1..Len(m.rows) BY <1>1, InUse
    <3>2. j \in 1..Len(m.rows[i].data) BY <1>1, <2>1, <3>1, InValue
    <3>3. m.rows[i].addr \in Nat BY <1>1, InUse
    <3>4. m.rows[i].addr + j - 1 = u BY <3>3
    <3> HIDE DEF j
    <3>5. i \in 1..Len(items) /\ j \in 1..Len(items[i].data) BY <1>2, <3>2
    <3>6. PICK k \in 1..N : es[k] = EntryAt(items[i], j) BY <1>4, <3>5
    <3>7. UnitOf(es[k]) = m.rows[i].addr + j - 1 BY <1>5, <3>2, <3>6
    <3> QED BY <1>7, <3>4, <3>7
  <2>2. Reads(m, u, MEM_BAD) BY <2>1 DEF Reads
  <2> QED BY <1>1, <2>2, ReadIs
<1>8. g[0] = empty
  <2>1. Done(0) = {} OBVIOUS
  <2> QED BY <1>3, <2>1
<1>9. ASSUME NEW n \in 1..N PROVE g[n] = Plain!Assign(g[n - 1], bytes[n])
  <2> DEFINE x == UnitOf(es[n])
             w == es[n].v
             f == g[n - 1]
  <2>1. n \in 0..N /\ n - 1 \in 0..N BY <1>3
  <2>2. Done(n) = Done(n - 1) \cup {x}
    <3>1. 1..n = (1..(n - 1)) \cup {n} BY <1>3
    <3> QED BY <3>1
  <2>3. w = ReadValue(m, x) /\ x \in Nat /\ ~ IsByte(es[n]) BY <1>6
  <2>4. w \in Value BY <1>3, <2>3, EntryFacts
  <2>5. bytes[n].unit = x /\ bytes[n].v = w
    <3>1. bytes[n] = Meaning(es[n]) BY <1>3
    <3> QED BY <2>3, <3>1, MeaningFacts
  <2>6. \A u \in Unit : g[n][u] = IF u \in Done(n) THEN ReadValue(m, u) ELSE MEM_BAD BY <2>1
  <2>7. \A u \in Unit : f[u] = IF u \in Done(n - 1) THEN ReadValue(m, u) ELSE MEM_BAD BY <2>1
  <2>8. f = [u \in Unit |-> f[u]] /\ DOMAIN f = Unit /\ g[n] = [u \in Unit |-> g[n][u]] BY <2>1
  <2>9. \A u \in Unit : f[u] \in Value
    <3>1. \A u \in Unit : ReadValue(m, u) \in Value BY <1>1, MemAssumption, ReadFinds, ReadsValue
    <3> QED BY <2>7, <3>1, BadValue
  <2>10. Plain!Assign(f, bytes[n]) =
           IF x \notin Unit THEN f ELSE [f EXCEPT ![x] = [l \in DOMAIN f[x] |-> IF l \in DOMAIN w THEN w[l] ELSE f[x][l]]]
    BY <2>5, <2>8 DEF Plain!Assign
  <2> HIDE DEF x, w, f, g, Done
  <2>11. CASE x \notin Unit
    <3>1. \A u \in Unit : g[n][u] = f[u] BY <2>2, <2>6, <2>7, <2>11
    <3>2. g[n] = f BY <2>8, <3>1
    <3> QED BY <2>10, <2>11, <3>2 DEF f
  <2>12. CASE x \in Unit
    <3>1. [l \in DOMAIN f[x] |-> IF l \in DOMAIN w THEN w[l] ELSE f[x][l]] = w BY <2>4, <2>9, <2>12 DEF Value
    <3>2. Plain!Assign(f, bytes[n]) = [f EXCEPT ![x] = w] BY <2>10, <2>12, <3>1
    <3>3. \A u \in Unit : g[n][u] = IF u = x THEN w ELSE f[u] BY <2>2, <2>3, <2>6, <2>7
    <3>4. g[n] = [f EXCEPT ![x] = w] BY <2>8, <3>3
    <3> QED BY <3>2, <3>4 DEF f
  <2> QED BY <2>11, <2>12
<1>10. g = [n \in 0..Len(bytes) |-> g[n]] BY <1>3
<1>11. g[N] = Contents(m)
  <2>1. g[N] = [u \in Unit |-> IF u \in Done(N) THEN ReadValue(m, u) ELSE MEM_BAD] BY <1>3
  <2>2. ASSUME NEW u \in Unit PROVE (IF u \in Done(N) THEN ReadValue(m, u) ELSE MEM_BAD) = ReadValue(m, u)
    <3>1. u \in Nat BY MemAssumption
    <3> HIDE DEF Done
    <3> QED BY <1>7, <3>1
  <2> HIDE DEF g, Done
  <2> QED BY <2>1, <2>2 DEF Contents
<1>12. Len(bytes) \in Nat BY <1>3
<1> HIDE DEF g, empty
<1>13. Plain!Overlay(empty, bytes) = g[Len(bytes)] BY <1>3, <1>8, <1>9, <1>10, <1>12, OverlayIs
<1>14. AllOneLane(es) BY <1>6 DEF AllOneLane, OneLane, N
<1> QED BY <1>3, <1>11, <1>13, <1>14 DEF empty, bytes, es, items

\* Memories that Compare finds the same are.
LEMMA CompareSound ==
  ASSUME NEW m, NEW n, Fine(m), Fine(n), Compare(m, n), NEW u \in Nat
  PROVE  ReadValue(n, u) = ReadValue(m, u)
<1> DEFINE v == ReadValue(m, u)
<1>1. Reads(m, u, v) BY ReadFinds
<1>2. n.chunks = m.chunks /\ \A i \in 1..m.chunks : SameRow(m.rows[i], n.rows[i]) BY DEF Compare
<1> HIDE DEF v
<1>3. ASSUME NEW i \in 1..m.chunks
      PROVE  LET r == m.rows[i]
                 q == n.rows[i]
                 j == 1 + u - r.addr
             IN  /\ In(r, u) /\ In(q, u) => At(r, u) = At(q, u)
                 /\ In(r, u) /\ ~ In(q, u) => At(r, u) = MEM_BAD
                 /\ ~ In(r, u) /\ In(q, u) => At(q, u) = MEM_BAD
  <2> DEFINE r == m.rows[i]
             q == n.rows[i]
             j == 1 + u - r.addr
             K == Len(r.data)
             L == Len(q.data)
             N == Least(K, L)
             a == r.addr
  <2>1. /\ a = q.addr /\ (\A x \in (N + 1)..K : r.data[x] = MEM_BAD)
        /\ (\A x \in (N + 1)..L : q.data[x] = MEM_BAD)
        /\ \A x \in 1..N : r.data[x] = q.data[x]
    BY <1>2 DEF SameRow, Padding
  <2>2. a \in Nat /\ K \in Nat BY InUse
  <2>3. L \in Nat /\ i \in 1..n.chunks
    <3>1. i \in 1..n.chunks BY <1>2
    <3> QED BY <3>1, InUse
  <2>4. In(r, u) <=> a <= u /\ u < a + K BY DEF In, End
  <2>5. In(q, u) <=> a <= u /\ u < a + L BY <2>1 DEF In, End
  <2>6. At(r, u) = r.data[j] /\ At(q, u) = q.data[j] BY <2>1 DEF At
  <2>7. j = 1 + u - a OBVIOUS
  <2>8. N = IF K < L THEN K ELSE L BY DEF Least
  <2> HIDE DEF r, q, j, K, L, N, a
  <2>9. /\ In(r, u) <=> j \in 1..K
        /\ In(q, u) <=> j \in 1..L
    BY <2>2, <2>3, <2>4, <2>5, <2>7
  <2>10. /\ j \in 1..K /\ j \in 1..L => j \in 1..N
         /\ j \in 1..K /\ ~ (j \in 1..L) => j \in (N + 1)..K
         /\ ~ (j \in 1..K) /\ j \in 1..L => j \in (N + 1)..L
    BY <2>2, <2>3, <2>8
  <2>11. /\ In(r, u) /\ In(q, u) => At(r, u) = At(q, u)
         /\ In(r, u) /\ ~ In(q, u) => At(r, u) = MEM_BAD
         /\ ~ In(r, u) /\ In(q, u) => At(q, u) = MEM_BAD
    BY <2>1, <2>6, <2>9, <2>10
  <2> QED BY <2>11 DEF r, q
<1>4. ASSUME NEW i \in 1..m.chunks, NEW k \in 1..n.chunks, In(m.rows[i], u), In(n.rows[k], u) PROVE i = k
  <2>1. /\ k \in 1..m.chunks /\ i \in 1..n.chunks /\ m.chunks \in Nat
        /\ m.rows[i].addr = n.rows[i].addr /\ m.rows[k].addr = n.rows[k].addr
    BY <1>2, CountFacts DEF SameRow
  <2>2. /\ m.rows[i].addr \in Nat /\ End(m.rows[i]) \in Nat /\ m.rows[k].addr \in Nat
        /\ n.rows[k].addr \in Nat /\ End(n.rows[k]) \in Nat
    BY <2>1, InUse
  <2>3. ASSUME k < i PROVE FALSE
    <3>1. End(n.rows[k]) <= n.rows[i].addr BY <2>1, <2>3, RowsApart
    <3> QED BY <1>4, <2>1, <2>2, <3>1 DEF In
  <2>4. ASSUME i < k PROVE FALSE
    <3>1. End(m.rows[i]) <= m.rows[k].addr BY <2>1, <2>4, RowsApart
    <3> QED BY <1>4, <2>1, <2>2, <3>1 DEF In
  <2> QED BY <2>1, <2>3, <2>4
<1>5. ASSUME NEW k \in 1..n.chunks, In(n.rows[k], u) PROVE At(n.rows[k], u) = v
  <2>1. k \in 1..m.chunks BY <1>2
  <2>2. CASE In(m.rows[k], u) BY <1>1, <1>3, <1>5, <2>1, <2>2 DEF Reads
  <2>3. CASE ~ In(m.rows[k], u)
    <3>1. At(n.rows[k], u) = MEM_BAD BY <1>3, <1>5, <2>1, <2>3
    <3>2. \A i \in 1..m.chunks : ~ In(m.rows[i], u) BY <1>4, <1>5, <2>3
    <3> QED BY <1>1, <3>1, <3>2 DEF Reads
  <2> QED BY <2>2, <2>3
<1>6. ASSUME \A k \in 1..n.chunks : ~ In(n.rows[k], u) PROVE v = MEM_BAD
  <2>1. CASE \A i \in 1..m.chunks : ~ In(m.rows[i], u) BY <1>1, <2>1 DEF Reads
  <2>2. CASE \E i \in 1..m.chunks : In(m.rows[i], u)
    <3>1. PICK i \in 1..m.chunks : In(m.rows[i], u) BY <2>2
    <3>2. ~ In(n.rows[i], u) BY <1>2, <1>6
    <3>3. At(m.rows[i], u) = v BY <1>1, <3>1 DEF Reads
    <3> QED BY <1>3, <3>1, <3>2, <3>3
  <2> QED BY <2>1, <2>2
<1>7. Reads(n, u, v) BY <1>5, <1>6 DEF Reads
<1> QED BY <1>7, ReadIs DEF v

\* The bytes of the image file lie where their lane is the one meant.
PlainInv == MemInv /\ AllOneLane(Entries(file))

\* The empty image says nothing.
LEMMA EmptyImage == AllOneLane(Entries(<<>>)) /\ ImageOf(<<>>) = <<>>
<1> DEFINE es == Entries(<<>>)
<1>1. es \in Seq(Entry) /\ HasAllOf(es, <<>>)
  <2>1. <<>> \in Seq(Item) OBVIOUS
  <2> QED BY <2>1, EntriesFacts
<1> HIDE DEF es
<1>2. Len(es) = 0
  <2>1. Len(es) \in Nat BY <1>1
  <2>2. \A k \in 1..Len(es) : FALSE BY <1>1 DEF HasAllOf
  <2> QED BY <2>1, <2>2
<1>3. ImageOf(<<>>) = [n \in 1..Len(es) |-> Meaning(es[n])] BY DEF ImageOf, es
<1>4. ImageOf(<<>>) = <<>> BY <1>2, <1>3
<1>5. AllOneLane(es) BY <1>2 DEF AllOneLane
<1> QED BY <1>4, <1>5 DEF es

\* The image file dumped has no single bytes, the others are given.
LEMMA PlainInvNext ==
  ASSUME LanesAgree
  PROVE  PlainInv /\ [MemNext]_mvars => PlainInv'
<1> SUFFICES ASSUME PlainInv, [MemNext]_mvars PROVE PlainInv' OBVIOUS
<1>1. MemInv' BY MemInvNext DEF PlainInv
<1>2. \A items \in Images \cup {file} : AllOneLane(Entries(items))
  <2>1. ASSUME NEW items \in Images PROVE AllOneLane(Entries(items))
    <3> DEFINE es == Entries(items)
    <3>1. \A n \in 1..Len(es) : LET e == es[n] IN IsByte(e) => LaneOf(e) = LaneMeant(e) BY DEF LanesAgree
    <3> HIDE DEF es
    <3>2. AllOneLane(es) BY <3>1 DEF AllOneLane, OneLane
    <3> QED BY <3>2 DEF es
  <2> QED BY <2>1 DEF PlainInv
<1>3. CASE Dump
  <2>1. mem'["A"] \in Fines BY <1>1 DEF MemInv, Mems
  <2>2. file' = DumpImage(mem'["A"]) BY <1>3 DEF Dump
  <2>3. AllOneLane(Entries(file')) BY <2>1, <2>2, DumpOverlay
  <2> QED BY <1>1, <2>3 DEF PlainInv
<1>4. CASE Merge \/ MergeDuplicate
  <2>1. file' \in Images \cup {file} BY <1>4 DEF Merge, MergeDuplicate
  <2> QED BY <1>1, <1>2, <2>1 DEF PlainInv
<1>5. CASE Store \/ Load \/ CompareBoth \/ UNCHANGED mvars
  <2>1. file' = file BY <1>5 DEF Store, Load, CompareBoth, mvars
  <2> QED BY <1>1, <2>1 DEF PlainInv
<1> QED BY <1>3, <1>4, <1>5 DEF MemNext

\* Every step is one of the plain memory, or changes nothing it tells of.
LEMMA PlainSteps ==
  ASSUME LanesAgree
  PROVE  PlainInv /\ [MemNext]_mvars => [Plain!Next]_(Plain!mmvars)
<1> SUFFICES ASSUME PlainInv, [MemNext]_mvars PROVE [Plain!Next]_(Plain!mmvars) OBVIOUS
<1> DEFINE A == mem["A"]
           B == mem["B"]
<1>1. MemInv' /\ PlainInv' BY MemInvNext, PlainInvNext DEF PlainInv
<1>2. /\ A \in Fines /\ Fine(A) /\ B \in Fines /\ Fine(B) /\ mem \in [Mems -> Fines]
      /\ adjust \in Adjusts /\ file \in Seq(Item)
  BY DEF PlainInv, MemInv, Mems, Fines, Fine
<1>3. /\ A' \in Fines /\ Fine(A') /\ B' \in Fines /\ Fine(B') /\ mem' \in [Mems -> Fines]
      /\ file' \in Seq(Item) /\ AllOneLane(Entries(file'))
  BY <1>1 DEF PlainInv, MemInv, Mems, Fines, Fine
<1>4. Mems = {"A", "B"} /\ Unit \subseteq Nat BY MemAssumption DEF Mems
<1> DEFINE S == [x \in Mems |-> [u \in Unit |-> ReadValue(mem[x], u)]]
<1>5. /\ S["A"] = Contents(A) /\ S["B"] = Contents(B) /\ S'["A"] = Contents(A') /\ S'["B"] = Contents(B')
      /\ \A u \in Unit : /\ S["A"][u] = ReadValue(A, u) /\ S["B"][u] = ReadValue(B, u)
                         /\ S'["A"][u] = ReadValue(A', u) /\ S'["B"][u] = ReadValue(B', u)
  BY <1>4 DEF Contents
<1>6. \A x \in Mems : Plain!Changed(x) = {u \in Unit : S'[x][u] # S[x][u]} BY DEF Plain!Changed
<1>7. Plain!Changed("A") = {u \in Unit : ReadValue(A', u) # ReadValue(A, u)}
  <2>1. Plain!Changed("A") = {u \in Unit : S'["A"][u] # S["A"][u]} BY <1>4, <1>6
  <2>2. \A u \in Unit : S["A"][u] = ReadValue(A, u) /\ S'["A"][u] = ReadValue(A', u) BY <1>5
  <2> HIDE DEF S, A
  <2> QED BY <2>1, <2>2
<1>8. Plain!Changed("B") = {u \in Unit : ReadValue(B', u) # ReadValue(B, u)}
  <2>1. Plain!Changed("B") = {u \in Unit : S'["B"][u] # S["B"][u]} BY <1>4, <1>6
  <2>2. \A u \in Unit : S["B"][u] = ReadValue(B, u) /\ S'["B"][u] = ReadValue(B', u) BY <1>5
  <2> HIDE DEF S, B
  <2> QED BY <2>1, <2>2
<1>9. ASSUME Contents(A') = Contents(A) PROVE Plain!Changed("A") = {}
  <2>1. \A u \in Unit : ReadValue(A', u) = ReadValue(A, u) BY <1>9, <1>4, <1>5 DEF Contents
  <2> QED BY <1>7, <2>1
<1>10. ASSUME Contents(B') = Contents(B) PROVE Plain!Changed("B") = {}
  <2>1. \A u \in Unit : ReadValue(B', u) = ReadValue(B, u) BY <1>10, <1>4, <1>5 DEF Contents
  <2> QED BY <1>8, <2>1
<1>11. CASE Store
  <2>1. PICK a \in Unit, v \in Words :
          /\ mem' = [mem EXCEPT !["A"] = Write(A, adjust, a, v).m] /\ file' = file /\ same' = {}
    BY <1>11 DEF Store
  <2>2. a \in Nat /\ v \in Value BY MemAssumption
  <2>3. A' = Write(A, adjust, a, v).m /\ B' = B BY <1>2, <1>4, <2>1
  <2>4. Stored(A, A', a, v)
    <3> DEFINE r == Write(A, adjust, a, v)
    <3>1. r = Write(A, adjust, a, v) /\ A' = r.m BY <2>3
    <3> HIDE DEF r, A
    <3>2. Stored(A, r.m, a, v) BY <1>2, <2>2, <3>1, WriteEffect
    <3> QED BY <3>1, <3>2
  <2> HIDE DEF A, B
  <2>5. \A u \in Unit : ReadValue(A', u) = IF u = a THEN v ELSE ReadValue(A, u)
    BY <1>2, <1>3, <1>4, <2>2, <2>4, StoredReads
  <2>6. Plain!Changed("A") \subseteq {a} BY <1>7, <2>5
  <2>7. Plain!Changed("B") = {} BY <1>10, <2>3
  <2>8. S'["A"][a] \in Words BY <1>5, <2>5
  <2>9. Plain!WriteWord("A") BY <2>1, <2>6, <2>7, <2>8 DEF Plain!WriteWord
  <2> QED BY <2>9 DEF Plain!Next
<1>12. CASE Load
  <2>1. PICK a \in Unit : mem' = [mem EXCEPT !["A"] = [A EXCEPT !.rd = ReadRow(A, a)]] BY <1>12 DEF Load
  <2>2. file' = file /\ same' = same BY <1>12 DEF Load
  <2>3. A' = [A EXCEPT !.rd = ReadRow(A, a)] /\ B' = B BY <1>2, <1>4, <2>1
  <2>4. ReadRow(A, a) \in 0..Len(A.rows) BY <1>2, <1>4, ReadFinds
  <2> HIDE DEF A
  <2>5. Same(A, A') BY <1>2, <2>3, <2>4, Remembers DEF Same
  <2>6. Contents(A') = Contents(A) BY <1>2, <1>3, <2>5, SameReads
  <2>7. S' = S
    <3> HIDE DEF B
    <3>1. S'["A"] = S["A"] /\ S'["B"] = S["B"] BY <1>5, <2>3, <2>6
    <3> QED BY <1>4, <3>1
  <2> QED BY <2>2, <2>7 DEF Plain!mmvars
<1>13. CASE Dump
  <2>1. mem' = [mem EXCEPT !["A"] = chunk_gc(A)] /\ file' = DumpImage(mem'["A"]) /\ same' = {} BY <1>13 DEF Dump
  <2>2. A' = chunk_gc(A) /\ B' = B BY <1>2, <1>4, <2>1
  <2>3. Same(A, A')
    <3> HIDE DEF A
    <3> QED BY <1>2, <2>2, CollectEffect
  <2>4. Plain!Overlay([u \in Unit |-> MEM_BAD], ImageOf(file')) = Contents(A') BY <1>3, <2>1, DumpOverlay
  <2> HIDE DEF A, B
  <2>5. Contents(A') = Contents(A) BY <1>2, <1>3, <2>3, SameReads
  <2>6. Plain!DumpAll(ImageOf(file')) BY <1>5, <1>9, <1>10, <2>1, <2>2, <2>4, <2>5 DEF Plain!DumpAll
  <2> QED BY <2>6 DEF Plain!Next
<1>14. CASE Merge
  <2>1. /\ mem' = [mem EXCEPT !["B"] = MergeImage(B, adjust, file').m] /\ same' = {}
    BY <1>14 DEF Merge
  <2> DEFINE r == MergeImage(B, adjust, file')
  <2>2. B' = r.m /\ A' = A BY <1>2, <1>4, <2>1
  <2> HIDE DEF A, B
  <2>3. Contents(r.m) = Plain!Overlay(Contents(B), ImageOf(file')) BY <1>2, <1>3, MergeOverlay
  <2> HIDE DEF r
  <2>4. Plain!MergeAll(ImageOf(file')) BY <1>5, <1>9, <2>1, <2>2, <2>3 DEF Plain!MergeAll
  <2> QED BY <2>4 DEF Plain!Next
<1>15. CASE MergeDuplicate
  <2> DEFINE r == MergeImageAndDuplicate(A, B, adjust, file')
             bytes == ImageOf(file')
  <2>1. mem' = [x \in {"A", "B"} |-> IF x = "A" THEN r.a ELSE r.b] /\ same' = {} BY <1>15 DEF MergeDuplicate
  <2>2. A' = r.a /\ B' = r.b BY <2>1
  <2> HIDE DEF A, B
  <2>3. /\ Contents(r.a) = Plain!Overlay(Contents(A), bytes)
        /\ \A u \in Unit : ReadValue(r.b, u) = IF u \in Plain!Units(bytes) THEN ReadValue(r.a, u) ELSE ReadValue(B, u)
    BY <1>2, <1>3, DuplicateOverlay
  <2> HIDE DEF r, bytes
  <2>4. S'["A"] = Plain!Overlay(S["A"], bytes) BY <1>5, <2>2, <2>3
  <2>5. S'["B"] = [u \in Unit |-> IF u \in Plain!Units(bytes) THEN S'["A"][u] ELSE S["B"][u]]
    <3>1. S'["B"] = [u \in Unit |-> ReadValue(r.b, u)] BY <1>5, <2>2 DEF Contents
    <3>2. \A u \in Unit : ReadValue(r.b, u) = IF u \in Plain!Units(bytes) THEN S'["A"][u] ELSE S["B"][u]
      BY <1>5, <2>2, <2>3
    <3> HIDE DEF S
    <3> QED BY <3>1, <3>2
  <2>6. Plain!Duplicate(bytes) BY <2>1, <2>4, <2>5 DEF Plain!Duplicate
  <2> QED BY <2>6 DEF Plain!Next, bytes
<1>16. CASE CompareBoth
  <2>1. /\ mem' = [x \in {"A", "B"} |-> chunk_gc(mem[x])] /\ same' = {Compare(mem'["A"], mem'["B"])} /\ file' = file
    BY <1>16 DEF CompareBoth
  <2>2. A' = chunk_gc(A) /\ B' = chunk_gc(B) BY <2>1
  <2>3. same' = {Compare(A', B')} BY <2>1
  <2> HIDE DEF A, B
  <2>4. Same(A, A') /\ Same(B, B') BY <1>2, <2>2, CollectEffect
  <2>5. Contents(A') = Contents(A) /\ Contents(B') = Contents(B) BY <1>2, <1>3, <2>4, SameReads
  <2>6. CASE Compare(A', B')
    <3>1. same' = {TRUE} BY <2>3, <2>6
    <3>2. \A u \in Unit : ReadValue(B', u) = ReadValue(A', u) BY <1>3, <1>4, <2>6, CompareSound
    <3>3. Contents(B') = Contents(A') BY <3>2 DEF Contents
    <3>4. S["A"] = S["B"] BY <1>5, <2>5, <3>3
    <3>5. Plain!CompareAll BY <1>9, <1>10, <2>1, <2>5, <3>1, <3>4 DEF Plain!CompareAll
    <3> QED BY <3>5 DEF Plain!Next
  <2>7. CASE ~ Compare(A', B')
    <3>1. same' = {FALSE}
      <4>1. Compare(A', B') \in BOOLEAN BY DEF Compare
      <4> QED BY <2>3, <2>7, <4>1
    <3>2. Plain!CompareAll BY <1>9, <1>10, <2>1, <2>5, <3>1 DEF Plain!CompareAll
    <3> QED BY <3>2 DEF Plain!Next
  <2> QED BY <2>6, <2>7
<1>17. CASE UNCHANGED mvars BY <1>17 DEF mvars, Plain!mmvars
<1> QED BY <1>11, <1>12, <1>13, <1>14, <1>15, <1>16, <1>17 DEF MemNext

\* Memory as it is read is a plain function from units to words: only a write
\* changes it, and only at its unit; collecting rows, remembering one, growing,
\* splitting and merging them are not seen; a dump holds everything, an image
\* merged assigns what it says, memories said to be the same are the same
\* (mem.cc:59-122, 405-583, 642-1035).
THEOREM ImplementsPlainMemory == ASSUME LanesAgree PROVE MemSpec => PlainMemory
<1>1. MemInit => PlainInv /\ Plain!Init
  <2> SUFFICES ASSUME MemInit PROVE PlainInv /\ Plain!Init OBVIOUS
  <2>1. MemInv BY MemInvFirst
  <2>2. file = <<>> /\ same = {} /\ mem = [x \in {"A", "B"} |-> EmptyMem] BY DEF MemInit
  <2>3. \A u \in Unit : ReadValue(EmptyMem, u) = MEM_BAD
    BY DEF ReadValue, ReadRow, Hit, _binsearch, EmptyMem
  <2>4. [x \in Mems |-> [u \in Unit |-> ReadValue(mem[x], u)]] = [x \in {"A", "B"} |-> [u \in Unit |-> MEM_BAD]]
    BY <2>2, <2>3 DEF Mems
  <2> QED BY <2>1, <2>2, <2>4, EmptyImage DEF PlainInv, Plain!Init
<1>2. PlainInv /\ [MemNext]_mvars => PlainInv' BY PlainInvNext
<1>3. PlainInv /\ [MemNext]_mvars => [Plain!Next]_(Plain!mmvars) BY PlainSteps
<1> QED BY <1>1, <1>2, <1>3, PTL DEF MemSpec, PlainMemory, Plain!Spec

=============================================================================
