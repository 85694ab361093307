-------------------------- MODULE SchedulingProofs --------------------------
(***************************************************************************)
(* Proofs about the run-time library, for every program of its tasks: no   *)
(* task is lost, lists are in order, tasks are resumed when they are due,  *)
(* the clocked queue keeps its promise, and no alarm is late.  First come  *)
(* lemmas about the task library: what each operation does to the lists of *)
(* tasks, which the code keeps as pointers and a hint, and to where tasks  *)
(* are.                                                                    *)
(***************************************************************************)
EXTENDS SchedulingProps, SequenceTheorems, FiniteSetTheorems, Loops

----------------------------------------------------------------------------
(* Sequences.                                                              *)

\* A function on 1..n is a sequence.
LEMMA FcnSeq == ASSUME NEW S, NEW n \in Nat, NEW f \in [1..n -> S]
                PROVE  f \in Seq(S) /\ Len(f) = n
OBVIOUS

\* A list without repetitions is no longer than there are tasks.
LEMMA ShortList ==
  ASSUME NEW q \in Seq(Task), \A i, j \in 1..Len(q) : q[i] = q[j] => i = j
  PROVE  Cardinality(Task) \in Nat /\ Len(q) <= Cardinality(Task)
<1>1. IsFiniteSet(Task) BY TaskingAssumption
<1>2. Cardinality(Task) \in Nat BY <1>1, FS_CardinalityType
<1>3. Len(q) \in Nat /\ IsFiniteSet(1..Len(q)) /\ Cardinality(1..Len(q)) = Len(q)
  <2>1. Len(q) \in Nat /\ 1 \in Int /\ Len(q) \in Int OBVIOUS
  <2>2. IsFiniteSet(1..Len(q)) /\ Cardinality(1..Len(q)) = IF 1 > Len(q) THEN 0 ELSE Len(q) - 1 + 1
    BY <2>1, FS_Interval
  <2> QED BY <2>1, <2>2
<1>4. q \in Injection(1..Len(q), Task)
  BY DEF Injection, IsInjective
<1>5. Cardinality(1..Len(q)) <= Cardinality(Task)
  BY <1>1, <1>4, FS_Injection
<1> QED BY <1>2, <1>3, <1>5

----------------------------------------------------------------------------
(* Lists of pointers.                                                      *)

\* What Follow makes of n tasks at most.
IsWalk(w, next) ==
  w = [n \in 0..Cardinality(Task) |->
         [t \in Pointers |-> IF n = 0 \/ t = NULL THEN <<>> ELSE <<t>> \o w[n - 1][next[t]]]]

\* The recursive function in Follow is there.
LEMMA WalkExists ==
  ASSUME NEW next \in [Task -> Pointers]
  PROVE  \E w : IsWalk(w, next)
<1> DEFINE N == Cardinality(Task)
           S == [Pointers -> Seq(Task)]
           first == [t \in Pointers |-> <<>>]
           onward(z) == [t \in Pointers |-> IF t = NULL THEN <<>> ELSE <<t>> \o z[1][next[t]]]
           pass == [z \in S \X (1..N) |-> onward(z)]
<1>1. N \in Nat BY TaskingAssumption, FS_CardinalityType
<1>2. first \in S OBVIOUS
<1>3. ASSUME NEW z \in S \X (1..N) PROVE onward(z) \in S
  <2>1. ASSUME NEW t \in Task PROVE <<t>> \o z[1][next[t]] \in Seq(Task)
    <3>1. z[1][next[t]] \in Seq(Task) OBVIOUS
    <3> QED BY <3>1
  <2> DEFINE e(t) == IF t = NULL THEN <<>> ELSE <<t>> \o z[1][next[t]]
  <2>2. ASSUME NEW t \in Pointers PROVE e(t) \in Seq(Task)
    <3>1. CASE t = NULL BY <3>1
    <3>2. CASE t # NULL BY <3>2, <2>1 DEF Pointers
    <3> QED BY <3>1, <3>2
  <2>3. onward(z) = [t \in Pointers |-> e(t)] OBVIOUS
  <2> HIDE DEF e, onward
  <2> QED BY <2>2, <2>3
<1>4. pass \in [S \X (1..N) -> S] BY <1>3
<1>5. PICK w \in [0..N -> S] : IsRun(w, N, first, pass)
  <2> HIDE DEF N, S, first, pass
  <2> QED BY <1>1, <1>2, <1>4, RunExists
<1>6. ASSUME NEW n \in 0..N
      PROVE  w[n] = [t \in Pointers |-> IF n = 0 \/ t = NULL THEN <<>> ELSE <<t>> \o w[n - 1][next[t]]]
  <2>1. w[n] = IF n = 0 THEN first ELSE pass[<<w[n - 1], n>>] BY <1>5 DEF IsRun
  <2>2. CASE n = 0 BY <2>1, <2>2
  <2>3. CASE n # 0
    <3>1. n \in 1..N /\ n - 1 \in 0..N BY <2>3, <1>1
    <3>2. <<w[n - 1], n>> \in S \X (1..N) BY <3>1
    <3>3. w[n] = onward(<<w[n - 1], n>>) BY <2>1, <2>3, <3>2
    <3> QED BY <3>3, <2>3
  <2> QED BY <2>2, <2>3
<1>7. w = [n \in 0..N |-> w[n]] BY <1>5
<1>8. IsWalk(w, next)
  <2> DEFINE h == [n \in 0..N |-> [t \in Pointers |-> IF n = 0 \/ t = NULL THEN <<>> ELSE <<t>> \o w[n - 1][next[t]]]]
  <2>1. \A n \in 0..N : w[n] = h[n] BY <1>6
  <2>2. w = h
    <3>1. h = [n \in 0..N |-> h[n]] OBVIOUS
    <3> HIDE DEF h
    <3> QED BY <1>7, <2>1, <3>1
  <2> QED BY <2>2 DEF IsWalk
<1> QED BY <1>8

\* One pass of Follow.
LEMMA WalkStep ==
  ASSUME NEW w, NEW next, IsWalk(w, next), NEW n \in 0..Cardinality(Task), NEW t \in Pointers
  PROVE  w[n][t] = IF n = 0 \/ t = NULL THEN <<>> ELSE <<t>> \o w[n - 1][next[t]]
<1> DEFINE e(m) == [u \in Pointers |-> IF m = 0 \/ u = NULL THEN <<>> ELSE <<u>> \o w[m - 1][next[u]]]
<1>1. w = [m \in 0..Cardinality(Task) |-> e(m)] BY DEF IsWalk
<1>2. w[n] = e(n)
  <2> HIDE DEF e
  <2> QED BY <1>1
<1> QED BY <1>2

\* Once on any list is once on this one.
Distinct(q) == \A i, j \in 1..Len(q) : q[i] = q[j] => i = j

\* Follow returns the list the pointers make, if they make one.
LEMMA FollowIs ==
  ASSUME NEW next \in [Task -> Pointers], NEW p, NEW q \in Seq(Task), Distinct(q), Chained(next, p, q)
  PROVE  Follow(next, p) = q
<1> DEFINE N == Cardinality(Task)
           w == CHOOSE w : IsWalk(w, next)
           rest(i) == SubSeq(q, i, Len(q))
           T == {n \in 0..N : \A i \in 1..Len(q) : Len(q) - i < n => w[n][q[i]] = rest(i)}
<1>1. N \in Nat /\ Len(q) \in Nat /\ Len(q) <= N BY ShortList DEF Distinct
<1>2. IsWalk(w, next) BY WalkExists
<1>3. Follow(next, p) = w[N][p]
  BY DEF Follow, IsWalk, Pointers
<1>4. ASSUME NEW n \in 0..N, NEW t \in Pointers
      PROVE  w[n][t] = IF n = 0 \/ t = NULL THEN <<>> ELSE <<t>> \o w[n - 1][next[t]]
  <2> HIDE DEF w
  <2> QED BY <1>2, WalkStep
<1>5. 0 \in T BY <1>1
<1>6. ASSUME NEW n \in 0..(N - 1), n \in T PROVE n + 1 \in T
  <2> SUFFICES ASSUME NEW i \in 1..Len(q), Len(q) - i < n + 1 PROVE w[n + 1][q[i]] = rest(i)
    BY <1>1
  <2>1. q[i] \in Task /\ q[i] \in Pointers /\ q[i] # NULL BY TaskingAssumption DEF Pointers
  <2>2. n + 1 \in 0..N /\ n + 1 # 0 /\ n + 1 - 1 = n /\ n \in 0..N BY <1>1
  <2>3. w[n + 1][q[i]] = <<q[i]>> \o w[n][next[q[i]]]
    <3> DEFINE m == n + 1
               t == q[i]
    <3>1. m \in 0..N /\ m # 0 /\ m - 1 = n /\ t \in Pointers /\ t # NULL BY <2>1, <2>2
    <3>2. w[m][t] = <<t>> \o w[m - 1][next[t]]
      <4> HIDE DEF w, N, m, t
      <4> QED BY <1>4, <3>1
    <3> QED BY <3>1, <3>2
  <2>4. rest(i) = <<q[i]>> \o SubSeq(q, i + 1, Len(q))
    BY SubSeqRecursiveFirst
  <2>5. CASE i = Len(q)
    <3>1. next[q[i]] = NULL BY <2>5 DEF Chained
    <3>2. w[n][NULL] = <<>> BY <1>4, <2>2 DEF Pointers
    <3>3. SubSeq(q, i + 1, Len(q)) = <<>> BY <2>5, <1>1, SubSeqEmpty
    <3> QED BY <2>3, <2>4, <3>1, <3>2, <3>3
  <2>6. CASE i # Len(q)
    <3>1. next[q[i]] = q[i + 1] /\ i + 1 \in 1..Len(q) BY <2>6, <1>1 DEF Chained
    <3>2. Len(q) - (i + 1) < n BY <1>1
    <3>3. w[n][q[i + 1]] = rest(i + 1) BY <1>6, <3>1, <3>2
    <3> QED BY <2>3, <2>4, <3>1, <3>3
  <2> QED BY <2>5, <2>6
<1>7. N \in T
  <2>1. 0..N \subseteq T
    <3> HIDE DEF T
    <3> QED BY <1>1, <1>5, <1>6, UpTo
  <2> QED BY <2>1, <1>1
<1>8. CASE q = <<>>
  <2>1. p = NULL BY <1>8 DEF Chained
  <2>2. w[N][NULL] = <<>>
    <3>1. N \in 0..N /\ NULL \in Pointers BY <1>1 DEF Pointers
    <3> HIDE DEF w, N
    <3> QED BY <1>4, <3>1
  <2> QED BY <1>3, <1>8, <2>1, <2>2
<1>9. CASE q # <<>>
  <2>1. p = q[1] /\ 1 \in 1..Len(q) BY <1>9 DEF Chained
  <2>2. w[N][q[1]] = rest(1) BY <1>1, <1>7, <2>1
  <2>3. rest(1) = q BY SubSeqFull
  <2> QED BY <1>3, <2>1, <2>2, <2>3
<1> QED BY <1>8, <1>9

----------------------------------------------------------------------------
(* A scheduler and the lists its pointers make.                            *)

\* The pointers of a scheduler make the lists q, a task being at most once on one.
Has(sc, q) == /\ sc \in Schedulers /\ q \in [Lists -> Seq(Task)] /\ OnePlace(q)
              /\ \A l \in Lists : Chained(sc.next, sc.head[l], q[l])

\* The pointers make one list only.
LEMMA HasWaiting == ASSUME NEW sc, NEW q, Has(sc, q), NEW l \in Lists
                    PROVE  Waiting(sc, l) = q[l]
<1>1. sc.next \in [Task -> Pointers] BY DEF Has, Schedulers
<1>2. q[l] \in Seq(Task) /\ Distinct(q[l]) BY DEF Has, OnePlace, Distinct
<1>3. Chained(sc.next, sc.head[l], q[l]) BY DEF Has
<1> QED BY <1>1, <1>2, <1>3, FollowIs DEF Waiting

\* What Stop finds: everything it passes after the first is outside S.
StopsAt(q, S, k) == /\ k \in 1..Len(q) /\ (k = Len(q) \/ q[k + 1] \in S)
                    /\ \A j \in 2..k : q[j] \notin S

\* Stop ends where StopsAt says.
LEMMA StopFacts ==
  ASSUME NEW q \in Seq(Task), q # <<>>, NEW S
  PROVE  StopsAt(q, S, Stop(q, S))
<1> DEFINE T == {i \in 1..Len(q) : i = Len(q) \/ q[i + 1] \in S}
           k == Min(T)
<1>1. Len(q) \in Nat /\ Len(q) \in T OBVIOUS
<1>2. T \in SUBSET Nat /\ T # {} BY <1>1
<1>3. k \in T /\ \A n \in T : k <= n
  <2>1. \E m \in T : \A n \in T : m <= n
    <3> HIDE DEF T
    <3> QED BY <1>2, LeastExists
  <2> HIDE DEF T
  <2> QED BY <2>1 DEF Min
<1>4. ASSUME NEW j \in 2..k PROVE q[j] \notin S
  <2>1. j - 1 \notin T
    <3>1. k \in Nat BY <1>2, <1>3
    <3> HIDE DEF T, k
    <3> QED BY <1>3, <3>1
  <2>2. j - 1 \in 1..Len(q) /\ j - 1 + 1 = j BY <1>3
  <2> QED BY <2>1, <2>2
<1>5. Stop(q, S) = k BY DEF Stop
<1> QED BY <1>3, <1>4, <1>5 DEF StopsAt

\* The rest of a list is what the pointers make from one of its tasks on.
LEMMA FollowFrom ==
  ASSUME NEW sc, NEW q, Has(sc, q), NEW l \in Lists, NEW i \in 1..Len(q[l])
  PROVE  /\ SubSeq(q[l], i, Len(q[l])) \in Seq(Task)
         /\ Len(SubSeq(q[l], i, Len(q[l]))) = Len(q[l]) - i + 1
         /\ \A j \in 1..(Len(q[l]) - i + 1) : SubSeq(q[l], i, Len(q[l]))[j] = q[l][i + j - 1]
         /\ Follow(sc.next, q[l][i]) = SubSeq(q[l], i, Len(q[l]))
<1> DEFINE a == q[l]
           r == SubSeq(a, i, Len(a))
<1>0. sc.next \in [Task -> Pointers] BY DEF Has, Schedulers
<1>1. a \in Seq(Task) /\ Len(a) \in Nat /\ Distinct(a) BY DEF Has, OnePlace, Distinct
<1>2. Chained(sc.next, sc.head[l], a) BY DEF Has
<1> HIDE DEF a
<1>2a. i \in 1..Len(a) BY DEF a
<1>3. r \in Seq(Task) /\ Len(r) = Len(a) - i + 1 /\ \A j \in 1..(Len(a) - i + 1) : r[j] = a[i + j - 1]
  <2>1. /\ i \in Int /\ Len(a) \in Int /\ \A j \in i..Len(a) : a[j] \in Task
    BY <1>1, <1>2a
  <2>2. /\ r \in Seq(Task) /\ Len(r) = IF i <= Len(a) THEN Len(a) - i + 1 ELSE 0
        /\ \A j \in 1..(Len(a) - i + 1) : r[j] = a[i + j - 1]
    BY <2>1, SubSeqProperties
  <2> QED BY <2>2, <1>2a
<1> HIDE DEF r
<1>4. Distinct(r)
  <2> SUFFICES ASSUME NEW j \in 1..Len(r), NEW k \in 1..Len(r), r[j] = r[k] PROVE j = k BY DEF Distinct
  <2>1. i + j - 1 \in 1..Len(a) /\ i + k - 1 \in 1..Len(a) BY <1>1, <1>2a, <1>3
  <2>2. a[i + j - 1] = a[i + k - 1] BY <1>3
  <2>3. i + j - 1 = i + k - 1 BY <1>1, <2>1, <2>2 DEF Distinct
  <2> QED BY <2>3
<1>5. Chained(sc.next, a[i], r)
  <2>1. r # <<>> /\ r[1] = a[i] BY <1>1, <1>2a, <1>3
  <2>2. ASSUME NEW j \in 1..Len(r) PROVE sc.next[r[j]] = IF j = Len(r) THEN NULL ELSE r[j + 1]
    <3>1. i + j - 1 \in 1..Len(a) /\ r[j] = a[i + j - 1] BY <1>1, <1>2a, <1>3
    <3>2. sc.next[a[i + j - 1]] = IF i + j - 1 = Len(a) THEN NULL ELSE a[i + j - 1 + 1]
      BY <1>2, <3>1 DEF Chained
    <3>3. CASE j = Len(r)
      <4>1. i + j - 1 = Len(a) BY <3>3, <1>1, <1>2a, <1>3
      <4> QED BY <3>1, <3>2, <3>3, <4>1
    <3>4. CASE j # Len(r)
      <4>1. i + j - 1 # Len(a) /\ j + 1 \in 1..(Len(a) - i + 1)
        <5>1. Len(r) = Len(a) - i + 1 /\ Len(a) \in Nat /\ i \in Nat /\ j \in Nat /\ j <= Len(r) /\ j # Len(r)
          BY <3>4, <1>1, <1>2a, <1>3
        <5> QED BY ONLY <5>1
      <4>2. r[j + 1] = a[i + (j + 1) - 1] BY <4>1, <1>3
      <4>3. i + (j + 1) - 1 = i + j - 1 + 1 BY <1>2a
      <4> QED BY <3>1, <3>2, <3>4, <4>1, <4>2, <4>3
    <3> QED BY <3>3, <3>4
  <2> QED BY <2>1, <2>2 DEF Chained
<1>6. Follow(sc.next, a[i]) = r BY <1>0, <1>3, <1>4, <1>5, FollowIs
<1> QED BY <1>3, <1>6 DEF a, r

\* A task put on a list behind its first k.
Inserted(a, k, t) == [i \in 1..(Len(a) + 1) |-> IF i <= k THEN a[i] ELSE IF i = k + 1 THEN t ELSE a[i - 1]]

\* What a list is after an insertion behind place k.
LEMMA InsertedFacts ==
  ASSUME NEW a \in Seq(Task), NEW t \in Task, NEW k \in 0..Len(a)
  PROVE  /\ Inserted(a, k, t) \in Seq(Task) /\ Len(Inserted(a, k, t)) = Len(a) + 1
         /\ \A i \in 1..(Len(a) + 1) :
              Inserted(a, k, t)[i] = IF i <= k THEN a[i] ELSE IF i = k + 1 THEN t ELSE a[i - 1]
         /\ Range(Inserted(a, k, t)) = Range(a) \cup {t}
<1> DEFINE b == Inserted(a, k, t)
           n == Len(a) + 1
<1>1. n \in Nat /\ Len(a) \in Nat /\ DOMAIN a = 1..Len(a) OBVIOUS
<1>2. ASSUME NEW i \in 1..n
      PROVE  (IF i <= k THEN a[i] ELSE IF i = k + 1 THEN t ELSE a[i - 1]) \in Task
  OBVIOUS
<1>3. b \in [1..n -> Task] BY <1>2 DEF Inserted
<1>4. b \in Seq(Task) /\ Len(b) = n BY <1>1, <1>3, FcnSeq
<1>5. \A i \in 1..n : b[i] = IF i <= k THEN a[i] ELSE IF i = k + 1 THEN t ELSE a[i - 1]
  BY DEF Inserted
<1>6. DOMAIN b = 1..n BY <1>3
<1> HIDE DEF b
<1>7. Range(b) = Range(a) \cup {t}
  <2>1. ASSUME NEW x \in Range(b) PROVE x \in Range(a) \cup {t}
    <3>1. PICK i \in 1..n : x = b[i] BY <1>6 DEF Range
    <3>2. CASE i = k + 1 BY <3>1, <3>2, <1>5
    <3>3. CASE i <= k BY <3>1, <3>3, <1>1, <1>5 DEF Range
    <3>4. CASE i > k + 1
      <4>1. x = a[i - 1] /\ i - 1 \in 1..Len(a) BY <3>1, <3>4, <1>1, <1>5
      <4> QED BY <4>1, <1>1 DEF Range
    <3> QED BY <3>2, <3>3, <3>4, <1>1
  <2>2. t \in Range(b)
    <3>1. k + 1 \in 1..n /\ b[k + 1] = t BY <1>1, <1>5
    <3> QED BY <3>1, <1>6 DEF Range
  <2>3. ASSUME NEW x \in Range(a) PROVE x \in Range(b)
    <3>1. PICK i \in 1..Len(a) : x = a[i] BY <1>1 DEF Range
    <3>2. CASE i <= k
      <4>1. i \in 1..n /\ b[i] = x BY <3>1, <3>2, <1>1, <1>5
      <4> QED BY <4>1, <1>6 DEF Range
    <3>3. CASE i > k
      <4>1. i + 1 \in 1..n /\ b[i + 1] = a[i + 1 - 1] /\ i + 1 - 1 = i BY <3>1, <3>3, <1>1, <1>5
      <4> QED BY <3>1, <4>1, <1>6 DEF Range
    <3> QED BY <3>2, <3>3, <1>1
  <2> QED BY <2>1, <2>2, <2>3
<1> QED BY <1>4, <1>5, <1>7 DEF b

\* How a task is linked behind the first k of list l.
Links(s2, sc, q, l, k, t) ==
  IF k = 0 THEN /\ s2.head = [sc.head EXCEPT ![l] = t]
                /\ s2.next = [sc.next EXCEPT ![t] = sc.head[l]]
  ELSE /\ s2.head = sc.head
       /\ s2.next = [sc.next EXCEPT ![q[l][k]] = t, ![t] = sc.next[q[l][k]]]

\* It then is there, and the lists are otherwise as they were.
LEMMA InsertHas ==
  ASSUME NEW sc, NEW q, Has(sc, q), NEW l \in Lists, NEW t \in Task, NEW k \in 0..Len(q[l]),
         \A m \in Lists : t \notin Range(q[m]), NEW s2 \in Schedulers, Links(s2, sc, q, l, k, t)
  PROVE  Has(s2, [q EXCEPT ![l] = Inserted(q[l], k, t)])
<1> DEFINE a == q[l]
           b == Inserted(a, k, t)
           q2 == [q EXCEPT ![l] = b]
<1>1. /\ q \in [Lists -> Seq(Task)] /\ OnePlace(q)
      /\ \A m \in Lists : Chained(sc.next, sc.head[m], q[m])
      /\ sc.next \in [Task -> Pointers] /\ sc.head \in [Lists -> Pointers]
  BY DEF Has, Schedulers
<1>2. a \in Seq(Task) /\ Len(a) \in Nat /\ k \in Nat /\ k <= Len(a) BY <1>1
<1>3. /\ b \in Seq(Task) /\ Len(b) = Len(a) + 1
      /\ \A i \in 1..(Len(a) + 1) : b[i] = IF i <= k THEN a[i] ELSE IF i = k + 1 THEN t ELSE a[i - 1]
  <2>1. a \in Seq(Task) /\ k \in 0..Len(a) /\ t \in Task BY <1>2
  <2> HIDE DEF a
  <2> QED BY ONLY <2>1, InsertedFacts DEF b
<1> HIDE DEF b
<1>4. /\ q2 \in [Lists -> Seq(Task)] /\ q2[l] = b
      /\ \A m \in Lists \ {l} : q2[m] = q[m] BY <1>1, <1>3
<1> HIDE DEF q2
<1>5. ASSUME NEW m \in Lists, NEW i \in 1..Len(q[m]) PROVE q[m][i] \in Task /\ q[m][i] # t
  <2>1. q[m] \in Seq(Task) BY <1>1
  <2>2. q[m][i] \in Range(q[m]) BY <2>1 DEF Range
  <2> QED BY <2>1, <2>2
<1> DEFINE New(m, i) == m = l /\ i = k + 1
           Src(m, i) == IF m = l /\ i > k THEN i - 1 ELSE i
<1>6. ASSUME NEW m \in Lists, NEW i \in 1..Len(q2[m])
      PROVE  /\ New(m, i) => q2[m][i] = t
             /\ ~New(m, i) => Src(m, i) \in 1..Len(q[m]) /\ q2[m][i] = q[m][Src(m, i)]
  <2>1. CASE m = l
    <3>1. i \in 1..(Len(a) + 1) /\ q2[m] = b /\ q[m] = a BY <2>1, <1>3, <1>4
    <3>2. b[i] = IF i <= k THEN a[i] ELSE IF i = k + 1 THEN t ELSE a[i - 1] BY <1>3, <3>1
    <3> HIDE DEF a
    <3> QED BY <2>1, <3>1, <3>2, <1>2
  <2>2. CASE m # l BY <2>2, <1>4
  <2> QED BY <2>1, <2>2
<1>7. OnePlace(q2)
  <2> SUFFICES ASSUME NEW m1 \in Lists, NEW m2 \in Lists, NEW i \in 1..Len(q2[m1]), NEW j \in 1..Len(q2[m2]),
                      q2[m1][i] = q2[m2][j]
               PROVE  m1 = m2 /\ i = j
    BY DEF OnePlace
  <2>1. CASE New(m1, i) /\ New(m2, j) BY <2>1
  <2>2. CASE New(m1, i) /\ ~New(m2, j)
    <3>1. Src(m2, j) \in 1..Len(q[m2]) /\ q2[m2][j] = q[m2][Src(m2, j)] BY <2>2, <1>6
    <3>2. q2[m1][i] = t BY <2>2, <1>6
    <3> HIDE DEF Src, New
    <3> QED BY <3>1, <3>2, <1>5
  <2>3. CASE ~New(m1, i) /\ New(m2, j)
    <3>1. Src(m1, i) \in 1..Len(q[m1]) /\ q2[m1][i] = q[m1][Src(m1, i)] BY <2>3, <1>6
    <3>2. q2[m2][j] = t BY <2>3, <1>6
    <3> HIDE DEF Src, New
    <3> QED BY <3>1, <3>2, <1>5
  <2>4. CASE ~New(m1, i) /\ ~New(m2, j)
    <3>1. /\ Src(m1, i) \in 1..Len(q[m1]) /\ q2[m1][i] = q[m1][Src(m1, i)]
          /\ Src(m2, j) \in 1..Len(q[m2]) /\ q2[m2][j] = q[m2][Src(m2, j)]
      BY <2>4, <1>6
    <3>2. m1 = m2 /\ Src(m1, i) = Src(m2, j)
      <4> DEFINE i1 == Src(m1, i)
                 j1 == Src(m2, j)
      <4>1. i1 \in 1..Len(q[m1]) /\ j1 \in 1..Len(q[m2]) /\ q[m1][i1] = q[m2][j1] BY <3>1
      <4>2. \A x \in 1..Len(q[m1]), y \in 1..Len(q[m2]) : q[m1][x] = q[m2][y] => m1 = m2 /\ x = y
        BY <1>1 DEF OnePlace
      <4> HIDE DEF i1, j1
      <4>3. m1 = m2 /\ i1 = j1 BY <4>1, <4>2
      <4> QED BY <4>3 DEF i1, j1
    <3>3. i \in Nat /\ j \in Nat
      <4>1. q2[m1] \in Seq(Task) /\ q2[m2] \in Seq(Task) BY <1>4
      <4> QED BY <4>1
    <3> QED BY <3>2, <2>4, <1>2, <3>3
  <2> QED BY <2>1, <2>2, <2>3, <2>4
<1>8. ASSUME NEW m \in Lists PROVE Chained(s2.next, s2.head[m], q2[m])
  <2>0. Chained(sc.next, sc.head[m], q[m]) /\ q[m] \in Seq(Task) /\ Len(q[m]) \in Nat BY <1>1
  <2>1. CASE m # l
    <3>1. s2.head[m] = sc.head[m] BY <2>1, <1>1 DEF Links
    <3>2. ASSUME NEW i \in 1..Len(q[m]) PROVE s2.next[q[m][i]] = sc.next[q[m][i]]
      <4>1. q[m][i] \in Task /\ q[m][i] # t BY <1>5
      <4>2. k # 0 => q[m][i] # q[l][k] /\ q[l][k] \in Task
        <5>1. k # 0 => k \in 1..Len(q[l]) BY <1>2
        <5> QED BY <5>1, <2>1, <1>1, <1>5 DEF OnePlace
      <4> QED BY <4>1, <4>2, <1>1 DEF Links
    <3> QED BY <2>0, <2>1, <3>1, <3>2, <1>4 DEF Chained
  <2>2. CASE m = l
    <3>1. q2[m] = b /\ q[m] = a BY <2>2, <1>4
    <3>2. s2.head[m] = b[1] /\ b # <<>>
      <4>1. b # <<>> /\ 1 \in 1..(Len(a) + 1) BY <1>2, <1>3
      <4>2. CASE k = 0
        <5>1. b[1] = t BY <4>1, <4>2, <1>3
        <5> QED BY <4>1, <4>2, <5>1, <2>2, <1>1 DEF Links
      <4>3. CASE k # 0
        <5>1. b[1] = a[1] /\ a # <<>> BY <4>1, <4>3, <1>2, <1>3
        <5>2. sc.head[m] = a[1] BY <5>1, <2>0, <3>1 DEF Chained
        <5> QED BY <4>1, <4>3, <5>1, <5>2 DEF Links
      <4> QED BY <4>2, <4>3
    <3>3. ASSUME NEW i \in 1..Len(b) PROVE s2.next[b[i]] = IF i = Len(b) THEN NULL ELSE b[i + 1]
      <4>0. i \in Nat /\ i >= 1 /\ i <= Len(a) + 1 /\ i \in 1..(Len(a) + 1) BY <1>2, <1>3
      <4>1. CASE i = k + 1
        <5>1. b[i] = t BY <4>0, <4>1, <1>2, <1>3
        <5>2. CASE k = 0
          <6>1. s2.next[t] = sc.head[l] BY <5>2, <1>1 DEF Links
          <6>2. CASE a = <<>>
            <7>1. sc.head[l] = NULL /\ i = Len(b) BY <6>2, <2>0, <2>2, <4>1, <5>2, <1>3 DEF Chained
            <7> QED BY <5>1, <6>1, <7>1
          <6>3. CASE a # <<>>
            <7>1. sc.head[l] = a[1] /\ Len(a) > 0 BY <6>3, <2>0, <2>2, <3>1 DEF Chained
            <7>2. i # Len(b) /\ i + 1 \in 1..(Len(a) + 1) /\ i + 1 - 1 = 1 BY <7>1, <4>1, <5>2, <1>2, <1>3
            <7>3. b[i + 1] = a[1] BY <7>2, <4>1, <5>2, <1>3
            <7> QED BY <5>1, <6>1, <7>1, <7>2, <7>3
          <6> QED BY <6>2, <6>3
        <5>3. CASE k # 0
          <6>1. k \in 1..Len(a) /\ a[k] \in Task /\ a[k] # t BY <5>3, <1>2, <1>5
          <6>2. s2.next[t] = sc.next[a[k]] BY <5>3, <6>1, <1>1 DEF Links
          <6>3. sc.next[a[k]] = IF k = Len(a) THEN NULL ELSE a[k + 1] BY <6>1, <2>0, <3>1 DEF Chained
          <6>4. CASE k = Len(a) BY <6>4, <6>2, <6>3, <5>1, <4>1, <1>3
          <6>5. CASE k # Len(a)
            <7>1. i # Len(b) /\ i + 1 \in 1..(Len(a) + 1) /\ i + 1 - 1 = k + 1 /\ ~(i + 1 <= k) /\ i + 1 # k + 1
              BY <6>5, <4>1, <1>2, <1>3
            <7>2. b[i + 1] = a[k + 1] BY <7>1, <1>3
            <7> QED BY <6>2, <6>3, <6>5, <5>1, <7>1, <7>2
          <6> QED BY <6>4, <6>5
        <5> QED BY <5>2, <5>3
      <4>2. CASE i <= k
        <5>1. b[i] = a[i] /\ i \in 1..Len(a) /\ k # 0 /\ k \in 1..Len(a) BY <4>0, <4>2, <1>2, <1>3
        <5>2. a[i] \in Task /\ a[i] # t /\ a[k] \in Task /\ a[k] # t BY <5>1, <1>5
        <5>3. i # Len(b) /\ i + 1 \in 1..(Len(a) + 1) BY <4>0, <4>2, <1>2, <1>3
        <5>4. CASE i = k
          <6>1. b[i + 1] = t BY <5>3, <5>4, <4>0, <1>3
          <6>2. s2.next[a[k]] = t BY <5>1, <5>2, <1>1 DEF Links
          <6> QED BY <5>1, <5>3, <5>4, <6>1, <6>2
        <5>5. CASE i # k
          <6>1. b[i + 1] = a[i + 1] BY <5>3, <5>5, <4>0, <4>2, <1>2, <1>3
          <6>2. a[i] # a[k] BY <5>1, <5>5, <1>1 DEF OnePlace
          <6>3. s2.next[a[i]] = sc.next[a[i]] BY <5>1, <5>2, <6>2, <1>1 DEF Links
          <6>4. sc.next[a[i]] = a[i + 1]
            <7>1. i # Len(a) BY <4>0, <4>2, <5>5, <1>2
            <7> QED BY <5>1, <7>1, <2>0, <3>1 DEF Chained
          <6> QED BY <5>1, <5>3, <6>1, <6>3, <6>4
        <5> QED BY <5>4, <5>5
      <4>3. CASE i > k + 1
        <5>1. b[i] = a[i - 1] /\ i - 1 \in 1..Len(a) /\ i - 1 # k BY <4>0, <4>3, <1>2, <1>3
        <5>2. a[i - 1] \in Task /\ a[i - 1] # t BY <5>1, <1>5
        <5>3. k # 0 => a[k] # a[i - 1] /\ a[k] \in Task
          <6>1. k # 0 => k \in 1..Len(a) BY <1>2
          <6>2. \A x, y \in 1..Len(a) : a[x] = a[y] => x = y BY <1>1 DEF OnePlace
          <6>3. k # 0 => a[k] \in Task BY <6>1, <1>5
          <6> HIDE DEF a
          <6> QED BY <5>1, <6>1, <6>2, <6>3
        <5>4. s2.next[a[i - 1]] = sc.next[a[i - 1]] BY <5>2, <5>3, <1>1 DEF Links
        <5>5. sc.next[a[i - 1]] = IF i - 1 = Len(a) THEN NULL ELSE a[i - 1 + 1] BY <5>1, <2>0, <3>1 DEF Chained
        <5>6. CASE i = Len(b)
          <6>1. i - 1 = Len(a) BY <5>6, <1>2, <1>3
          <6> QED BY <5>1, <5>4, <5>5, <5>6, <6>1
        <5>7. CASE i # Len(b)
          <6>1. i - 1 # Len(a) /\ i + 1 \in 1..(Len(a) + 1) /\ i - 1 + 1 = i /\ i + 1 - 1 = i
            BY <5>7, <4>0, <1>2, <1>3
          <6>2. b[i + 1] = a[i] BY <6>1, <4>3, <4>0, <1>2, <1>3
          <6> QED BY <5>1, <5>4, <5>5, <5>7, <6>1, <6>2
        <5> QED BY <5>6, <5>7
      <4> QED BY <4>0, <4>1, <4>2, <4>3, <1>2
    <3> HIDE DEF a
    <3> QED BY <3>1, <3>2, <3>3 DEF Chained
  <2> QED BY <2>1, <2>2
<1>9. Has(s2, q2) BY <1>4, <1>7, <1>8 DEF Has
<1> QED BY <1>9 DEF q2, b

\* A list without its k-th task.
Removed(a, k) == [i \in 1..(Len(a) - 1) |-> IF i < k THEN a[i] ELSE a[i + 1]]

\* What a list is without its place k.
LEMMA RemovedFacts ==
  ASSUME NEW a \in Seq(Task), NEW k \in 1..Len(a), Distinct(a)
  PROVE  /\ Removed(a, k) \in Seq(Task) /\ Len(Removed(a, k)) = Len(a) - 1
         /\ \A i \in 1..(Len(a) - 1) : Removed(a, k)[i] = IF i < k THEN a[i] ELSE a[i + 1]
         /\ Range(Removed(a, k)) = Range(a) \ {a[k]}
<1> DEFINE b == Removed(a, k)
           n == Len(a) - 1
<1>1. n \in Nat /\ Len(a) \in Nat /\ DOMAIN a = 1..Len(a) OBVIOUS
<1>2. ASSUME NEW i \in 1..n PROVE (IF i < k THEN a[i] ELSE a[i + 1]) \in Task
  OBVIOUS
<1>3. b \in [1..n -> Task] BY <1>2 DEF Removed
<1>4. b \in Seq(Task) /\ Len(b) = n BY <1>1, <1>3, FcnSeq
<1>5. \A i \in 1..n : b[i] = IF i < k THEN a[i] ELSE a[i + 1] BY DEF Removed
<1>6. DOMAIN b = 1..n BY <1>3
<1> HIDE DEF b
<1>7. Range(b) = Range(a) \ {a[k]}
  <2>1. ASSUME NEW x \in Range(b) PROVE x \in Range(a) \ {a[k]}
    <3>1. PICK i \in 1..n : x = b[i] BY <1>6 DEF Range
    <3>2. CASE i < k
      <4>1. x = a[i] /\ i \in 1..Len(a) /\ i # k BY <3>1, <3>2, <1>1, <1>5
      <4> QED BY <4>1, <1>1 DEF Range, Distinct
    <3>3. CASE i >= k
      <4>1. x = a[i + 1] /\ i + 1 \in 1..Len(a) /\ i + 1 # k BY <3>1, <3>3, <1>1, <1>5
      <4> QED BY <4>1, <1>1 DEF Range, Distinct
    <3> QED BY <3>2, <3>3
  <2>2. ASSUME NEW x \in Range(a) \ {a[k]} PROVE x \in Range(b)
    <3>1. PICK i \in 1..Len(a) : x = a[i] BY <1>1 DEF Range
    <3>2. i # k BY <3>1
    <3>3. CASE i < k
      <4>1. i \in 1..n /\ b[i] = x BY <3>1, <3>3, <1>1, <1>5
      <4> QED BY <4>1, <1>6 DEF Range
    <3>4. CASE i > k
      <4>1. i - 1 \in 1..n /\ b[i - 1] = a[i - 1 + 1] /\ i - 1 + 1 = i BY <3>1, <3>4, <1>1, <1>5
      <4> QED BY <3>1, <4>1, <1>6 DEF Range
    <3> QED BY <3>2, <3>3, <3>4
  <2> QED BY <2>1, <2>2
<1> QED BY <1>4, <1>5, <1>7 DEF b

\* How the k-th task of list l is unlinked.
Unlinks(s2, sc, q, l, k) ==
  IF k = 1 THEN /\ s2.head = [sc.head EXCEPT ![l] = sc.next[q[l][1]]]
                /\ \A x \in Task \ {q[l][1]} : s2.next[x] = sc.next[x]
  ELSE /\ s2.head = sc.head
       /\ s2.next = [sc.next EXCEPT ![q[l][k - 1]] = sc.next[q[l][k]]]

\* Unlinking the task at place k of a list leaves the lists without it.
LEMMA RemoveHas ==
  ASSUME NEW sc, NEW q, Has(sc, q), NEW l \in Lists, NEW k \in 1..Len(q[l]),
         NEW s2 \in Schedulers, Unlinks(s2, sc, q, l, k)
  PROVE  Has(s2, [q EXCEPT ![l] = Removed(q[l], k)])
<1> DEFINE a == q[l]
           b == Removed(a, k)
           q2 == [q EXCEPT ![l] = b]
<1>1. /\ q \in [Lists -> Seq(Task)] /\ OnePlace(q)
      /\ \A m \in Lists : Chained(sc.next, sc.head[m], q[m])
      /\ sc.next \in [Task -> Pointers] /\ sc.head \in [Lists -> Pointers]
  BY DEF Has, Schedulers
<1>2. a \in Seq(Task) /\ Len(a) \in Nat /\ k \in Nat /\ k <= Len(a) /\ k >= 1 BY <1>1
<1>2a. \A x, y \in 1..Len(a) : a[x] = a[y] => x = y BY <1>1 DEF OnePlace
<1>3. /\ b \in Seq(Task) /\ Len(b) = Len(a) - 1
      /\ \A i \in 1..(Len(a) - 1) : b[i] = IF i < k THEN a[i] ELSE a[i + 1]
  <2>1. k \in 1..Len(a) /\ Distinct(a) BY <1>2, <1>2a DEF Distinct
  <2> HIDE DEF a
  <2> QED BY <1>2, <2>1, RemovedFacts DEF b
<1> HIDE DEF b
<1>4. /\ q2 \in [Lists -> Seq(Task)] /\ q2[l] = b
      /\ \A m \in Lists \ {l} : q2[m] = q[m] BY <1>1, <1>3
<1> HIDE DEF q2
<1>5. ASSUME NEW m \in Lists, NEW i \in 1..Len(q[m]) PROVE q[m][i] \in Task
  <2>1. q[m] \in Seq(Task) BY <1>1
  <2> QED BY <2>1
<1> DEFINE Src(m, i) == IF m = l /\ i >= k THEN i + 1 ELSE i
<1>6. ASSUME NEW m \in Lists, NEW i \in 1..Len(q2[m])
      PROVE  Src(m, i) \in 1..Len(q[m]) /\ q2[m][i] = q[m][Src(m, i)]
  <2>1. CASE m = l
    <3>1. i \in 1..(Len(a) - 1) /\ q2[m] = b /\ q[m] = a BY <2>1, <1>3, <1>4
    <3>2. b[i] = IF i < k THEN a[i] ELSE a[i + 1] BY <1>3, <3>1
    <3> HIDE DEF a
    <3> QED BY <2>1, <3>1, <3>2, <1>2
  <2>2. CASE m # l BY <2>2, <1>4
  <2> QED BY <2>1, <2>2
<1>7. OnePlace(q2)
  <2> SUFFICES ASSUME NEW m1 \in Lists, NEW m2 \in Lists, NEW i \in 1..Len(q2[m1]), NEW j \in 1..Len(q2[m2]),
                      q2[m1][i] = q2[m2][j]
               PROVE  m1 = m2 /\ i = j
    BY DEF OnePlace
  <2>1. /\ Src(m1, i) \in 1..Len(q[m1]) /\ q2[m1][i] = q[m1][Src(m1, i)]
        /\ Src(m2, j) \in 1..Len(q[m2]) /\ q2[m2][j] = q[m2][Src(m2, j)]
    BY <1>6
  <2>2. m1 = m2 /\ Src(m1, i) = Src(m2, j)
    <4> DEFINE i1 == Src(m1, i)
               j1 == Src(m2, j)
    <4>1. i1 \in 1..Len(q[m1]) /\ j1 \in 1..Len(q[m2]) /\ q[m1][i1] = q[m2][j1] BY <2>1
    <4>2. \A x \in 1..Len(q[m1]), y \in 1..Len(q[m2]) : q[m1][x] = q[m2][y] => m1 = m2 /\ x = y
      BY <1>1 DEF OnePlace
    <4> HIDE DEF i1, j1
    <4>3. m1 = m2 /\ i1 = j1 BY <4>1, <4>2
    <4> QED BY <4>3 DEF i1, j1
  <2>3. i \in Nat /\ j \in Nat
    <4>1. q2[m1] \in Seq(Task) /\ q2[m2] \in Seq(Task) BY <1>4
    <4> QED BY <4>1
  <2> QED BY <2>2, <1>2, <2>3
<1>8. ASSUME NEW m \in Lists PROVE Chained(s2.next, s2.head[m], q2[m])
  <2>0. Chained(sc.next, sc.head[m], q[m]) /\ q[m] \in Seq(Task) /\ Len(q[m]) \in Nat BY <1>1
  <2>a. k \in 1..Len(a) /\ a[k] \in Task BY <1>2, <1>5
  <2>1. CASE m # l
    <3>1. s2.head[m] = sc.head[m] BY <2>1, <1>1 DEF Unlinks
    <3>2. ASSUME NEW i \in 1..Len(q[m]) PROVE s2.next[q[m][i]] = sc.next[q[m][i]]
      <4>1. q[m][i] \in Task BY <1>5
      <4>2. \A y \in 1..Len(a) : q[m][i] # a[y] BY <2>1, <1>1 DEF OnePlace
      <4>3. 1 \in 1..Len(a) /\ (k # 1 => k - 1 \in 1..Len(a)) BY <1>2
      <4>4. q[m][i] # q[l][1] /\ (k # 1 => q[m][i] # q[l][k - 1]) BY <4>2, <4>3
      <4> QED BY <4>1, <4>4, <1>1 DEF Unlinks
    <3> QED BY <2>0, <2>1, <3>1, <3>2, <1>4 DEF Chained
  <2>2. CASE m = l
    <3>1. q2[m] = b /\ q[m] = a BY <2>2, <1>4
    <3>2. s2.head[m] = IF b = <<>> THEN NULL ELSE b[1]
      <4>1. CASE k = 1
        <5>1. s2.head[m] = sc.next[a[1]] BY <4>1, <2>2, <1>1 DEF Unlinks
        <5>0. Len(a) \in Nat /\ 1 \in 1..Len(a)
          <6> HIDE DEF a
          <6> QED BY <1>2
        <5>2. sc.next[a[1]] = IF 1 = Len(a) THEN NULL ELSE a[1 + 1] BY <5>0, <2>0, <3>1 DEF Chained
        <5>3. CASE Len(a) = 1
          <6>1. b = <<>> BY <5>3, <1>3
          <6> QED BY <5>1, <5>2, <5>3, <6>1
        <5>4. CASE Len(a) # 1
          <6>1. 1 \in 1..(Len(a) - 1) /\ ~(1 < k)
            <7>1. Len(a) >= 1 /\ Len(a) # 1 /\ Len(a) \in Nat BY <5>0, <5>4
            <7>2. \A n \in Nat : n >= 1 /\ n # 1 => 1 \in 1..(n - 1) OBVIOUS
            <7>3. 1 \in 1..(Len(a) - 1) BY <7>1, <7>2
            <7> QED BY <4>1, <7>3
          <6>2. b # <<>> /\ b[1] = a[1 + 1] BY <6>1, <1>3
          <6> QED BY <5>1, <5>2, <5>4, <6>2
        <5> QED BY <5>3, <5>4
      <4>2. CASE k # 1
        <5>1. s2.head[m] = sc.head[m] BY <4>2 DEF Unlinks
        <5>2. 1 \in 1..(Len(a) - 1) /\ 1 < k BY <4>2, <1>2
        <5>3. b # <<>> /\ b[1] = a[1] /\ a # <<>> BY <5>2, <1>3
        <5> QED BY <5>1, <5>3, <2>0, <3>1 DEF Chained
      <4> QED BY <4>1, <4>2
    <3>3. ASSUME NEW i \in 1..Len(b) PROVE s2.next[b[i]] = IF i = Len(b) THEN NULL ELSE b[i + 1]
      <4>0. i \in Nat /\ i >= 1 /\ i <= Len(a) - 1 /\ i \in 1..(Len(a) - 1) /\ i \in 1..Len(a) /\ i + 1 \in 1..Len(a)
        BY <1>2, <1>3
      <4>a. /\ sc.next[a[i]] = a[i + 1]
            /\ sc.next[a[i + 1]] = IF i + 1 = Len(a) THEN NULL ELSE a[i + 1 + 1]
        <5>1. i # Len(a) BY <4>0, <1>2
        <5> QED BY <4>0, <5>1, <2>0, <3>1 DEF Chained
      <4>b. /\ a[i] \in Task /\ a[i + 1] \in Task /\ (k # 1 => k - 1 \in 1..Len(a) /\ a[k - 1] \in Task)
        <5>1. k # 1 => k - 1 \in 1..Len(a) BY <1>2
        <5> HIDE DEF a
        <5> QED BY <4>0, <5>1, <1>2
      <4>c. i # Len(b) => i + 1 \in 1..(Len(a) - 1) BY <4>0, <1>3
      <4>1. CASE i >= k
        <5>1. b[i] = a[i + 1] /\ i + 1 # k /\ i + 1 # 1 BY <4>0, <4>1, <1>2, <1>3
        <5>2. s2.next[a[i + 1]] = sc.next[a[i + 1]]
          <6>1. CASE k = 1
            <7>1. a[i + 1] # a[1] BY <4>0, <5>1, <1>2, <1>2a
            <7> QED BY <6>1, <7>1, <4>b DEF Unlinks
          <6>2. CASE k # 1
            <7>1. i + 1 # k - 1 BY <4>0, <4>1, <1>2
            <7>2. a[i + 1] # a[k - 1] BY <7>1, <6>2, <4>0, <4>b, <1>2a
            <7> QED BY <6>2, <7>2, <4>b, <1>1 DEF Unlinks
          <6> QED BY <6>1, <6>2
        <5>3. i # Len(b) => b[i + 1] = a[i + 1 + 1] BY <4>1, <4>0, <4>c, <1>2, <1>3
        <5>4. i = Len(b) <=> i + 1 = Len(a) BY <4>0, <1>2, <1>3
        <5> QED BY <5>1, <5>2, <5>3, <5>4, <4>a
      <4>2. CASE i < k
        <5>1. b[i] = a[i] /\ k # 1 BY <4>0, <4>2, <1>2, <1>3
        <5>2. CASE i = k - 1
          <6>1. s2.next[a[i]] = sc.next[a[k]] /\ k = i + 1 BY <5>1, <5>2, <4>b, <1>1, <1>2 DEF Unlinks
          <6>2. i # Len(b) => b[i + 1] = a[i + 1 + 1]
            <7>1. ~(i + 1 < k) BY <6>1, <4>0
            <7> QED BY <7>1, <4>c, <1>3
          <6>3. i = Len(b) <=> i + 1 = Len(a) BY <4>0, <1>2, <1>3
          <6> QED BY <5>1, <6>1, <6>2, <6>3, <4>a
        <5>3. CASE i # k - 1
          <6>1. i + 1 < k /\ i # Len(b) BY <5>3, <4>0, <4>2, <1>2, <1>3
          <6>2. b[i + 1] = a[i + 1] BY <6>1, <4>c, <1>3
          <6>3. a[i] # a[k - 1] BY <5>3, <5>1, <4>0, <4>b, <1>2a
          <6>4. s2.next[a[i]] = sc.next[a[i]] BY <5>1, <6>3, <4>b, <1>1 DEF Unlinks
          <6> QED BY <5>1, <6>1, <6>2, <6>4, <4>a
        <5> QED BY <5>2, <5>3
      <4> QED BY <4>0, <4>1, <4>2, <1>2
    <3> HIDE DEF a
    <3> QED BY <3>1, <3>2, <3>3 DEF Chained
  <2> QED BY <2>1, <2>2
<1>9. Has(s2, q2) BY <1>4, <1>7, <1>8 DEF Has
<1> QED BY <1>9 DEF q2, b

\* The first n tasks of a in front of those of b, and the rest of a.
Joined(a, n, b) == [i \in 1..(n + Len(b)) |-> IF i <= n THEN a[i] ELSE b[i - n]]
Rest(a, n)     == [i \in 1..(Len(a) - n) |-> a[i + n]]

\* What a list is after the first n of another moved in front of it, and what is
\* left of the other.
LEMMA JoinedFacts ==
  ASSUME NEW a \in Seq(Task), NEW b \in Seq(Task), NEW n \in 0..Len(a), Distinct(a)
  PROVE  /\ Joined(a, n, b) \in Seq(Task) /\ Len(Joined(a, n, b)) = n + Len(b)
         /\ \A i \in 1..(n + Len(b)) : Joined(a, n, b)[i] = IF i <= n THEN a[i] ELSE b[i - n]
         /\ Rest(a, n) \in Seq(Task) /\ Len(Rest(a, n)) = Len(a) - n
         /\ \A i \in 1..(Len(a) - n) : Rest(a, n)[i] = a[i + n]
         /\ Range(Joined(a, n, b)) = Range(SubSeq(a, 1, n)) \cup Range(b)
         /\ Range(Rest(a, n)) = Range(a) \ Range(SubSeq(a, 1, n))
<1> DEFINE d == Joined(a, n, b)
           r == Rest(a, n)
           la == Len(a)
           lb == Len(b)
<1>1. la \in Nat /\ lb \in Nat /\ n \in Nat /\ n <= la /\ DOMAIN a = 1..la /\ DOMAIN b = 1..lb OBVIOUS
<1>2. d \in Seq(Task) /\ Len(d) = n + lb
  <2>1. ASSUME NEW i \in 1..(n + lb) PROVE (IF i <= n THEN a[i] ELSE b[i - n]) \in Task BY <1>1
  <2>2. d \in [1..(n + lb) -> Task] BY <2>1 DEF Joined
  <2> QED BY <1>1, <2>2, FcnSeq
<1>3. \A i \in 1..(n + lb) : d[i] = IF i <= n THEN a[i] ELSE b[i - n] BY DEF Joined
<1>4. r \in Seq(Task) /\ Len(r) = la - n
  <2>1. ASSUME NEW i \in 1..(la - n) PROVE a[i + n] \in Task BY <1>1
  <2>2. r \in [1..(la - n) -> Task] BY <2>1 DEF Rest
  <2>3. la - n \in Nat BY <1>1
  <2> QED BY <2>2, <2>3, FcnSeq
<1>5. \A i \in 1..(la - n) : r[i] = a[i + n] BY DEF Rest
<1>6. DOMAIN d = 1..(n + lb) /\ DOMAIN r = 1..(la - n) BY <1>2, <1>4
<1> HIDE DEF d, r, la, lb
<1>a. {a[i] : i \in 1..n} = Range(SubSeq(a, 1, n))
  <2> DEFINE f == SubSeq(a, 1, n)
  <2>1. DOMAIN f = 1..n /\ \A i \in 1..n : f[i] = a[i] BY <1>1
  <2> HIDE DEF f
  <2> QED BY <2>1 DEF Range, f
<1>7. Range(d) = {a[i] : i \in 1..n} \cup Range(b)
  <2>1. ASSUME NEW x \in Range(d) PROVE x \in {a[i] : i \in 1..n} \cup Range(b)
    <3>1. PICK i \in 1..(n + lb) : x = d[i] BY <1>6 DEF Range
    <3>2. CASE i <= n BY <3>1, <3>2, <1>1, <1>3
    <3>3. CASE i > n
      <4>1. x = b[i - n] /\ i - n \in 1..lb BY <3>1, <3>3, <1>1, <1>3
      <4> QED BY <4>1, <1>1 DEF Range
    <3> QED BY <3>2, <3>3, <1>1
  <2>2. ASSUME NEW i \in 1..n PROVE a[i] \in Range(d)
    <3>1. i \in 1..(n + lb) /\ d[i] = a[i] BY <1>1, <1>3
    <3> QED BY <3>1, <1>6 DEF Range
  <2>3. ASSUME NEW x \in Range(b) PROVE x \in Range(d)
    <3>1. PICK i \in 1..lb : x = b[i] BY <1>1 DEF Range
    <3>2. i + n \in 1..(n + lb) /\ ~(i + n <= n) /\ i + n - n = i BY <1>1
    <3>3. d[i + n] = b[i] BY <3>2, <1>3
    <3> QED BY <3>1, <3>2, <3>3, <1>6 DEF Range
  <2> QED BY <2>1, <2>2, <2>3
<1>8. Range(r) = Range(a) \ {a[i] : i \in 1..n}
  <2>1. ASSUME NEW x \in Range(r) PROVE x \in Range(a) \ {a[i] : i \in 1..n}
    <3>1. PICK i \in 1..(la - n) : x = r[i] BY <1>6 DEF Range
    <3>2. x = a[i + n] /\ i + n \in 1..la /\ \A j \in 1..n : j \in 1..la /\ j # i + n BY <3>1, <1>1, <1>5
    <3>3. \A j \in 1..n : a[j] # a[i + n] BY <3>2 DEF Distinct, la
    <3> QED BY <3>2, <3>3, <1>1 DEF Range
  <2>2. ASSUME NEW x \in Range(a), x \notin {a[i] : i \in 1..n} PROVE x \in Range(r)
    <3>1. PICK i \in 1..la : x = a[i] BY <1>1 DEF Range
    <3>2. i \notin 1..n BY <3>1, <2>2
    <3>3. i - n \in 1..(la - n) /\ i - n + n = i BY <3>2, <1>1
    <3>4. r[i - n] = a[i] BY <3>3, <1>5
    <3> QED BY <3>1, <3>3, <3>4, <1>6 DEF Range
  <2> QED BY <2>1, <2>2
<1> QED BY <1>2, <1>3, <1>4, <1>5, <1>7, <1>8, <1>a DEF d, r, la, lb

\* The splice of advance: the first n tasks of list l go to the time list.
Splices(s2, sc, q, l, n) ==
  /\ s2.head = [sc.head EXCEPT ![Time] = q[l][1], ![l] = sc.next[q[l][n]]]
  /\ s2.next = [sc.next EXCEPT ![q[l][n]] = sc.head[Time]]
Spliced(q, l, n) == [q EXCEPT ![Time] = Joined(q[l], n, q[Time]), ![l] = Rest(q[l], n)]

\* The splice of advance: the first n tasks of an event move to the front of the
\* time list.
LEMMA MoveHas ==
  ASSUME NEW sc, NEW q, Has(sc, q), NEW l \in EC, NEW n \in 1..Len(q[l]), NEW s2 \in Schedulers,
         Splices(s2, sc, q, l, n)
  PROVE  Has(s2, Spliced(q, l, n))
<1> DEFINE a == q[l]
           b == q[Time]
           c == Rest(a, n)
           d == Joined(a, n, b)
           q2 == [q EXCEPT ![Time] = d, ![l] = c]
<1>0. l \in Lists /\ Time \in Lists /\ l # Time BY TaskingAssumption DEF Lists
<1>1. /\ q \in [Lists -> Seq(Task)] /\ OnePlace(q)
      /\ \A m \in Lists : Chained(sc.next, sc.head[m], q[m])
      /\ sc.next \in [Task -> Pointers] /\ sc.head \in [Lists -> Pointers]
  BY DEF Has, Schedulers
<1>2. /\ a \in Seq(Task) /\ Len(a) \in Nat /\ n \in Nat /\ n <= Len(a) /\ n >= 1
      /\ b \in Seq(Task) /\ Len(b) \in Nat BY <1>0, <1>1
<1>2a. \A x, y \in 1..Len(a) : a[x] = a[y] => x = y BY <1>0, <1>1 DEF OnePlace
<1>2b. Chained(sc.next, sc.head[l], a) /\ Chained(sc.next, sc.head[Time], b) BY <1>0, <1>1
<1>2c. \A x \in 1..Len(a), y \in 1..Len(b) : a[x] # b[y] BY <1>0, <1>1 DEF OnePlace
<1>2d. \A x \in 1..Len(a) : a[x] \in Task BY <1>2
<1>2e. \A y \in 1..Len(b) : b[y] \in Task BY <1>2
<1>2f. ASSUME NEW m \in Lists, NEW i \in 1..Len(q[m]) PROVE q[m][i] \in Task
  <2>1. q[m] \in Seq(Task) BY <1>1
  <2> QED BY <2>1
<1>2g. ASSUME NEW m \in Lists \ {l}, NEW i \in 1..Len(q[m]), NEW x \in 1..Len(a) PROVE q[m][i] # a[x]
  BY <1>0, <1>1 DEF OnePlace
<1>2h. a = q[l] /\ b = q[Time] OBVIOUS
<1>2i. /\ s2.head = [sc.head EXCEPT ![Time] = a[1], ![l] = sc.next[a[n]]]
       /\ s2.next = [sc.next EXCEPT ![a[n]] = sc.head[Time]]
  BY DEF Splices
<1> HIDE DEF a, b
<1>3. /\ d \in Seq(Task) /\ Len(d) = n + Len(b)
      /\ \A i \in 1..(n + Len(b)) : d[i] = IF i <= n THEN a[i] ELSE b[i - n]
      /\ c \in Seq(Task) /\ Len(c) = Len(a) - n
      /\ \A i \in 1..(Len(a) - n) : c[i] = a[i + n]
  <2>1. n \in 0..Len(a) /\ Distinct(a) BY <1>2, <1>2a DEF Distinct
  <2>2. /\ Joined(a, n, b) \in Seq(Task) /\ Len(Joined(a, n, b)) = n + Len(b)
        /\ \A i \in 1..(n + Len(b)) : Joined(a, n, b)[i] = IF i <= n THEN a[i] ELSE b[i - n]
        /\ Rest(a, n) \in Seq(Task) /\ Len(Rest(a, n)) = Len(a) - n
        /\ \A i \in 1..(Len(a) - n) : Rest(a, n)[i] = a[i + n]
    <3> HIDE DEF c, d, q2
    <3>1. \A i \in 1..(n + Len(b)) : Joined(a, n, b)[i] = IF i <= n THEN a[i] ELSE b[i - n] BY <1>2, <2>1, JoinedFacts
    <3>2. \A i \in 1..(Len(a) - n) : Rest(a, n)[i] = a[i + n] BY <1>2, <2>1, JoinedFacts
    <3>3. Joined(a, n, b) \in Seq(Task) /\ Rest(a, n) \in Seq(Task) BY <1>2, <2>1, JoinedFacts
    <3>4. Len(Joined(a, n, b)) = n + Len(b)
      <4>1. a \in Seq(Task) /\ b \in Seq(Task) /\ n \in 0..Len(a) /\ Distinct(a) BY <1>2, <2>1
      <4> QED BY ONLY <4>1, JoinedFacts
    <3>5. Len(Rest(a, n)) = Len(a) - n BY <1>2, <2>1, JoinedFacts
    <3> QED BY <3>1, <3>2, <3>3, <3>4, <3>5
  <2> QED BY <2>2
<1> HIDE DEF c, d
<1>3a. /\ \A i \in 1..Len(c) : /\ i \in Nat /\ i >= 1 /\ i + n <= Len(a) /\ i + n \in 1..Len(a)
                               /\ i \in 1..(Len(a) - n) /\ c[i] = a[i + n] /\ (i = Len(c) <=> i + n = Len(a))
       /\ \A i \in 1..Len(d) : i \in Nat /\ i >= 1 /\ i <= n + Len(b) /\ i \in 1..(n + Len(b))
  <2>1. \A la \in Nat, m \in Nat : m <= la => \A i \in 1..(la - m) : /\ i \in Nat /\ i >= 1 /\ i + m <= la
            /\ i + m \in 1..la /\ (i = la - m <=> i + m = la)
    OBVIOUS
  <2>2. \A i \in 1..(Len(a) - n) : /\ i \in Nat /\ i >= 1 /\ i + n <= Len(a) /\ i + n \in 1..Len(a)
                                   /\ (i = Len(a) - n <=> i + n = Len(a))
    BY <2>1, <1>2
  <2>3. \A lb \in Nat, m \in Nat : \A i \in 1..(m + lb) : i \in Nat /\ i >= 1 /\ i <= m + lb
    OBVIOUS
  <2>4. \A i \in 1..(n + Len(b)) : i \in Nat /\ i >= 1 /\ i <= n + Len(b) BY <2>3, <1>2
  <2> QED BY <2>2, <2>4, <1>3
<1>4. /\ q2 \in [Lists -> Seq(Task)] /\ q2[l] = c /\ q2[Time] = d
      /\ \A m \in Lists \ {l, Time} : q2[m] = q[m] BY <1>0, <1>1, <1>3
<1> HIDE DEF q2
<1> DEFINE SrcL(m, i) == IF m = Time /\ i <= n THEN l ELSE m
           SrcI(m, i) == IF m = Time /\ i > n THEN i - n ELSE IF m = l THEN i + n ELSE i
<1>6. ASSUME NEW m \in Lists, NEW i \in 1..Len(q2[m])
      PROVE  /\ SrcL(m, i) \in Lists /\ SrcI(m, i) \in 1..Len(q[SrcL(m, i)])
             /\ q2[m][i] = q[SrcL(m, i)][SrcI(m, i)]
  <2>1. CASE m = l
    <3>1. i \in 1..(Len(a) - n) /\ q2[m] = c /\ q[m] = a BY <2>1, <1>2h, <1>3, <1>4
    <3>2. c[i] = a[i + n] /\ i + n \in 1..Len(a) BY <1>2, <1>3, <3>1
    <3> QED BY <2>1, <3>1, <3>2, <1>0
  <2>2. CASE m = Time
    <3>1. i \in 1..(n + Len(b)) /\ q2[m] = d /\ q[m] = b BY <2>2, <1>2h, <1>3, <1>4
    <3>2. CASE i <= n
      <4>1. d[i] = a[i] /\ i \in 1..Len(a) BY <3>1, <3>2, <1>2, <1>3
      <4>2. SrcL(m, i) = l /\ SrcI(m, i) = i BY <2>2, <3>2, <1>0, <1>2, <3>1
      <4> HIDE DEF SrcL, SrcI
      <4> QED BY <4>1, <4>2, <3>1, <1>0, <1>2h
    <3>3. CASE i > n
      <4>1. d[i] = b[i - n] /\ i - n \in 1..Len(b) BY <3>1, <3>3, <1>2, <1>3
      <4>2. SrcL(m, i) = m /\ SrcI(m, i) = i - n BY <2>2, <3>3, <3>1, <1>2
      <4> HIDE DEF SrcL, SrcI
      <4> QED BY <4>1, <4>2, <3>1
    <3> QED BY <3>1, <3>2, <3>3, <1>2
  <2>3. CASE m # l /\ m # Time BY <2>3, <1>4
  <2> QED BY <2>1, <2>2, <2>3
<1>7. OnePlace(q2)
  <2> SUFFICES ASSUME NEW m1 \in Lists, NEW m2 \in Lists, NEW i \in 1..Len(q2[m1]), NEW j \in 1..Len(q2[m2]),
                      q2[m1][i] = q2[m2][j]
               PROVE  m1 = m2 /\ i = j
    BY DEF OnePlace
  <2>2. SrcL(m1, i) = SrcL(m2, j) /\ SrcI(m1, i) = SrcI(m2, j)
    <4> DEFINE i1 == SrcI(m1, i)
               j1 == SrcI(m2, j)
               l1 == SrcL(m1, i)
               l2 == SrcL(m2, j)
    <4>1. i1 \in 1..Len(q[l1]) /\ j1 \in 1..Len(q[l2]) /\ q[l1][i1] = q[l2][j1] /\ l1 \in Lists /\ l2 \in Lists
      <5> HIDE DEF SrcL, SrcI
      <5> QED BY <1>6
    <4> HIDE DEF i1, j1, l1, l2
    <4>2. l1 = l2 /\ i1 = j1 BY <4>1, <1>1 DEF OnePlace
    <4> QED BY <4>2 DEF i1, j1, l1, l2
  <2>3. i \in Nat /\ j \in Nat /\ i >= 1 /\ j >= 1
    <4>1. q2[m1] \in Seq(Task) /\ q2[m2] \in Seq(Task) BY <1>4
    <4> QED BY <4>1
  <2> QED BY <2>2, <1>0, <1>2, <2>3
<1>8. ASSUME NEW m \in Lists PROVE Chained(s2.next, s2.head[m], q2[m])
  <2>0. n \in 1..Len(a) /\ 1 \in 1..Len(a) /\ a[n] \in Task BY <1>2, <1>2d
  <2>1. CASE m # l /\ m # Time
    <3>1. s2.head[m] = sc.head[m] BY <2>1, <1>1, <1>2i
    <3>2. ASSUME NEW i \in 1..Len(q[m]) PROVE s2.next[q[m][i]] = sc.next[q[m][i]]
      <4>1. q[m][i] \in Task /\ q[m][i] # a[n] BY <2>0, <2>1, <1>2f, <1>2g
      <4> QED BY <4>1, <1>1, <1>2i
    <3> QED BY <2>1, <3>1, <3>2, <1>1, <1>4 DEF Chained
  <2>2. CASE m = l
    <3>1. q2[m] = c BY <2>2, <1>4
    <3>2. s2.head[m] = IF n = Len(a) THEN NULL ELSE a[n + 1]
      <4>1. s2.head[m] = sc.next[a[n]] BY <2>2, <1>0, <1>1, <1>2i
      <4> QED BY <4>1, <2>0, <1>2b DEF Chained
    <3>3. s2.head[m] = IF c = <<>> THEN NULL ELSE c[1]
      <4>1. CASE n = Len(a)
        <5>1. c = <<>> BY <4>1, <1>2, <1>3
        <5> QED BY <5>1, <4>1, <3>2
      <4>2. CASE n # Len(a)
        <5>1. 1 \in 1..(Len(a) - n) BY <4>2, <1>2
        <5>2. c # <<>> /\ c[1] = a[1 + n] /\ 1 + n = n + 1 BY <5>1, <1>2, <1>3
        <5> QED BY <5>2, <4>2, <3>2
      <4> QED BY <4>1, <4>2
    <3>4. ASSUME NEW i \in 1..Len(c) PROVE s2.next[c[i]] = IF i = Len(c) THEN NULL ELSE c[i + 1]
      <4>1. i \in 1..(Len(a) - n) /\ c[i] = a[i + n] /\ i + n \in 1..Len(a) /\ i + n # n BY <1>2, <1>3
      <4>2. a[i + n] # a[n] /\ a[i + n] \in Task BY <4>1, <2>0, <1>2a, <1>2d
      <4>3. s2.next[a[i + n]] = sc.next[a[i + n]] BY <4>2, <1>1, <1>2i
      <4>4. sc.next[a[i + n]] = IF i + n = Len(a) THEN NULL ELSE a[i + n + 1] BY <4>1, <1>2b DEF Chained
      <4>5. CASE i = Len(c)
        <5>1. i + n = Len(a) BY <4>5, <1>2, <1>3
        <5> QED BY <4>1, <4>3, <4>4, <4>5, <5>1
      <4>6. CASE i # Len(c)
        <5>0. \A la \in Nat, x \in Nat : /\ i + x \in 1..la /\ i + x # la /\ i \in 1..(la - x)
                                        => i + 1 \in 1..(la - x) /\ i + 1 + x = i + x + 1
          OBVIOUS
        <5>a. i + n # Len(a) BY <4>6, <1>3a
        <5>1. i + n # Len(a) /\ i + 1 \in 1..(Len(a) - n) /\ i + 1 + n = i + n + 1 BY <5>0, <5>a, <4>1, <1>2
        <5>2. c[i + 1] = a[i + n + 1] BY <5>1, <1>3
        <5> QED BY <4>1, <4>3, <4>4, <4>6, <5>1, <5>2
      <4> QED BY <4>5, <4>6
    <3> QED BY <3>1, <3>3, <3>4 DEF Chained
  <2>3. CASE m = Time
    <3>1. q2[m] = d BY <2>3, <1>4
    <3>2. s2.head[m] = a[1] BY <2>3, <1>0, <1>1, <1>2i
    <3>3. d # <<>> /\ d[1] = a[1]
      <4>1. 1 \in 1..(n + Len(b)) BY <1>2
      <4> QED BY <4>1, <1>2, <1>3
    <3>4. ASSUME NEW i \in 1..Len(d) PROVE s2.next[d[i]] = IF i = Len(d) THEN NULL ELSE d[i + 1]
      <4>0. i \in Nat /\ i >= 1 /\ i <= n + Len(b) /\ i \in 1..(n + Len(b))  BY <1>2, <1>3
      <4>a. i # Len(d) => i + 1 \in 1..(n + Len(b))
        <5>1. \A la \in Nat : i <= la => (i # la => i + 1 \in 1..la) BY <4>0
        <5>2. n + Len(b) \in Nat BY <1>2
        <5> QED BY <5>1, <5>2, <4>0, <1>3
      <4>1. CASE i < n
        <5>1. d[i] = a[i] /\ i \in 1..Len(a) /\ i # Len(a) /\ i # n BY <4>0, <4>1, <1>2, <1>3
        <5>2. a[i] # a[n] /\ a[i] \in Task BY <5>1, <2>0, <1>2a, <1>2d
        <5>3. s2.next[a[i]] = sc.next[a[i]] BY <5>2, <1>1, <1>2i
        <5>4. sc.next[a[i]] = a[i + 1] BY <5>1, <1>2b DEF Chained
        <5>5. i # Len(d) /\ i + 1 <= n BY <4>0, <4>1, <1>2, <1>3
        <5>6. d[i + 1] = a[i + 1] BY <5>5, <4>a, <1>3
        <5> QED BY <5>1, <5>3, <5>4, <5>5, <5>6
      <4>2. CASE i = n
        <5>1. d[i] = a[n] BY <4>0, <4>2, <1>3
        <5>2. s2.next[a[n]] = sc.head[Time] BY <2>0, <1>1, <1>2i
        <5>3. CASE b = <<>>
          <6>1. sc.head[Time] = NULL /\ Len(b) = 0 BY <5>3, <1>2b DEF Chained
          <6>2. i = Len(d) BY <6>1, <4>2, <1>2, <1>3
          <6> QED BY <5>1, <5>2, <6>1, <6>2
        <5>4. CASE b # <<>>
          <6>1. sc.head[Time] = b[1] /\ Len(b) >= 1 BY <5>4, <1>2, <1>2b DEF Chained
          <6>2. i # Len(d) /\ ~(i + 1 <= n) /\ i + 1 - n = 1 BY <6>1, <4>2, <1>2, <1>3
          <6>3. i + 1 \in 1..(n + Len(b)) BY <6>2, <4>a
          <6>4. d[i + 1] = b[i + 1 - n]
            <7>1. \A x \in 1..(n + Len(b)) : d[x] = IF x <= n THEN a[x] ELSE b[x - n] BY <1>3
            <7> QED BY ONLY <7>1, <6>2, <6>3
          <6>5. d[i + 1] = b[1] BY <6>2, <6>4
          <6> QED BY <5>1, <5>2, <6>1, <6>2, <6>5
        <5> QED BY <5>3, <5>4
      <4>3. CASE i > n
        <5>1. d[i] = b[i - n] /\ i - n \in 1..Len(b) BY <4>0, <4>3, <1>2, <1>3
        <5>2. b[i - n] # a[n] /\ b[i - n] \in Task BY <5>1, <2>0, <1>2c, <1>2e
        <5>3. s2.next[b[i - n]] = sc.next[b[i - n]] BY <5>2, <1>1, <1>2i
        <5>4. sc.next[b[i - n]] = IF i - n = Len(b) THEN NULL ELSE b[i - n + 1] BY <5>1, <1>2b DEF Chained
        <5>5. i = Len(d) <=> i - n = Len(b)
          <6>1. \A lb \in Nat, x \in Nat : i = x + lb <=> i - x = lb BY <4>0
          <6> QED BY <6>1, <1>2, <1>3
        <5>6. i # Len(d) => d[i + 1] = b[i - n + 1]
          <6>1. ~(i + 1 <= n) /\ i + 1 - n = i - n + 1 BY <4>0, <4>3, <1>2
          <6>2. i # Len(d) => d[i + 1] = b[i + 1 - n] BY <6>1, <4>a, <1>3
          <6> QED BY <6>1, <6>2
        <5> QED BY <5>1, <5>3, <5>4, <5>5, <5>6
      <4> QED BY <4>0, <4>1, <4>2, <4>3, <1>2
    <3> QED BY <3>1, <3>2, <3>3, <3>4 DEF Chained
  <2> QED BY <2>1, <2>2, <2>3
<1>9. Has(s2, q2) BY <1>4, <1>7, <1>8 DEF Has
<1> QED BY <1>9 DEF q2, c, d, a, b, Spliced

----------------------------------------------------------------------------
(* Lists in order.                                                         *)

\* The lists q are those of a scheduler, in order and not overdue; its hint is on
\* the time list; what a scheduler needs for the operations of tasking.cc.
Fit(sc, q) == Has(sc, q) /\ InOrder(q, sc.cnt) /\ Ahead(q, sc.cnt, sc.count)
Hinted(sc, q) == sc.hint \in Range(q[Time]) \cup {NULL}
Sound(sc) == sc \in Schedulers /\ ListsSound(sc)

\* The lists that fit a scheduler are the ones its pointers make.
LEMMA FitSound ==
  ASSUME NEW sc, NEW q, Fit(sc, q), Hinted(sc, q)
  PROVE  Sound(sc) /\ On(sc) = OnLists(q) /\ \A l \in Lists : Waiting(sc, l) = q[l]
<1> DEFINE z == [l \in Lists |-> Waiting(sc, l)]
<1>1. Has(sc, q) /\ q \in [Lists -> Seq(Task)] BY DEF Fit, Has
<1>2. \A l \in Lists : Waiting(sc, l) = q[l] BY <1>1, HasWaiting
<1>3. z = q BY <1>1, <1>2
<1> HIDE DEF z
<1>4. Arranged(z, sc.cnt, sc.count) /\ (\A l \in Lists : Chained(sc.next, sc.head[l], z[l]))
      /\ sc.hint \in Range(z[Time]) \cup {NULL}
  BY <1>1, <1>3 DEF Arranged, Fit, Has, Hinted
<1>5. ListsSound(sc) BY <1>4 DEF ListsSound, z
<1>6. On(sc) = OnLists(q) BY <1>3 DEF On, z
<1> QED BY <1>1, <1>2, <1>5, <1>6 DEF Sound, Has

\* A sound scheduler has lists that fit.
LEMMA SoundFit ==
  ASSUME NEW sc, Sound(sc)
  PROVE  \E q : /\ Fit(sc, q) /\ Hinted(sc, q) /\ On(sc) = OnLists(q) /\ q \in [Lists -> Seq(Task)]
                /\ \A l \in Lists : Waiting(sc, l) = q[l] /\ On(sc)[l] = Range(q[l])
<1> DEFINE z == [l \in Lists |-> Waiting(sc, l)]
<1>1. /\ Arranged(z, sc.cnt, sc.count) /\ (\A l \in Lists : Chained(sc.next, sc.head[l], z[l]))
      /\ sc.hint \in Range(z[Time]) \cup {NULL}
  BY DEF Sound, ListsSound
<1>2. On(sc) = OnLists(z) BY DEF On
<1>3. \A l \in Lists : Waiting(sc, l) = z[l] OBVIOUS
<1> HIDE DEF z
<1>4. Fit(sc, z) /\ Hinted(sc, z) /\ z \in [Lists -> Seq(Task)] BY <1>1 DEF Fit, Hinted, Has, Arranged, Sound
<1>5. \A l \in Lists : On(sc)[l] = Range(z[l]) BY <1>2 DEF OnLists
<1> QED BY <1>2, <1>3, <1>4, <1>5

\* The tasks of one list, when the other lists stay.
LEMMA OnExcept ==
  ASSUME NEW q \in [Lists -> Seq(Task)], NEW l \in Lists, NEW b \in Seq(Task)
  PROVE  OnLists([q EXCEPT ![l] = b]) = [OnLists(q) EXCEPT ![l] = Range(b)]
BY DEF OnLists

\* A task is inserted between those that wait for less and those that wait for
\* more.
LEMMA InsertFit ==
  ASSUME NEW sc, NEW q, Fit(sc, q), NEW l \in Lists, NEW t \in Task, NEW k \in 0..Len(q[l]),
         \A m \in Lists : t \notin Range(q[m]), NEW s2 \in Schedulers, Links(s2, sc, q, l, k, t),
         NEW v \in Nat, s2.cnt = [sc.cnt EXCEPT ![t] = v], s2.count = sc.count,
         \A i \in 1..k : sc.cnt[q[l][i]] <= v, \A i \in (k + 1)..Len(q[l]) : v <= sc.cnt[q[l][i]],
         IF l = Time THEN v >= sc.count[Time] ELSE v > sc.count[l]
  PROVE  /\ Fit(s2, [q EXCEPT ![l] = Inserted(q[l], k, t)])
         /\ OnLists([q EXCEPT ![l] = Inserted(q[l], k, t)]) = [OnLists(q) EXCEPT ![l] = @ \cup {t}]
<1> DEFINE a == q[l]
           b == Inserted(a, k, t)
           q2 == [q EXCEPT ![l] = b]
<1>0. Has(sc, q) /\ q \in [Lists -> Seq(Task)] /\ sc.cnt \in [Task -> Nat] /\ InOrder(q, sc.cnt)
      /\ Ahead(q, sc.cnt, sc.count) BY DEF Fit, Has, Schedulers
<1>1. Has(s2, q2) BY <1>0, InsertHas
<1>2. a \in Seq(Task) /\ Len(a) \in Nat /\ k \in 0..Len(a) /\ k \in Nat /\ k <= Len(a) BY <1>0
<1>3. /\ b \in Seq(Task) /\ Len(b) = Len(a) + 1
      /\ \A i \in 1..(Len(a) + 1) : b[i] = IF i <= k THEN a[i] ELSE IF i = k + 1 THEN t ELSE a[i - 1]
      /\ Range(b) = Range(a) \cup {t}
  <2>1. a \in Seq(Task) /\ k \in 0..Len(a) /\ t \in Task BY <1>2
  <2> HIDE DEF a
  <2> QED BY ONLY <2>1, InsertedFacts DEF b
<1> HIDE DEF b
<1>4. q2[l] = b /\ \A m \in Lists \ {l} : q2[m] = q[m] BY <1>0
<1>5. OnLists(q2) = [OnLists(q) EXCEPT ![l] = @ \cup {t}]
  <2>1. OnLists(q2) = [OnLists(q) EXCEPT ![l] = Range(b)]
    <3>1. b \in Seq(Task) /\ q \in [Lists -> Seq(Task)] /\ l \in Lists BY <1>0, <1>3
    <3> QED BY ONLY <3>1, OnExcept
  <2> QED BY <2>1, <1>3 DEF OnLists
<1> HIDE DEF q2
<1>6. ASSUME NEW m \in Lists, NEW i \in 1..Len(q[m])
      PROVE  q[m][i] \in Task /\ q[m][i] # t /\ s2.cnt[q[m][i]] = sc.cnt[q[m][i]]
  <2>1. q[m] \in Seq(Task) BY <1>0
  <2>2. q[m][i] \in Task /\ q[m][i] \in Range(q[m]) BY <2>1 DEF Range
  <2> QED BY <2>2, <1>0
<1>7. s2.cnt[t] = v BY <1>0
<1>8. ASSUME NEW i \in 1..(Len(a) + 1)
      PROVE  /\ i \in Nat /\ s2.cnt[b[i]] = IF i <= k THEN sc.cnt[a[i]] ELSE IF i = k + 1 THEN v ELSE sc.cnt[a[i - 1]]
             /\ (i <= k => i \in 1..Len(a)) /\ (i > k + 1 => i - 1 \in 1..Len(a))
  <2>1. (i <= k => i \in 1..Len(a)) /\ (i > k + 1 => i - 1 \in 1..Len(a)) BY <1>2
  <2>2. CASE i <= k BY <2>1, <2>2, <1>2, <1>3, <1>6
  <2>3. CASE i = k + 1 BY <2>3, <1>2, <1>3, <1>7
  <2>4. CASE i > k + 1 BY <2>1, <2>4, <1>2, <1>3, <1>6
  <2> QED BY <2>1, <2>2, <2>3, <2>4, <1>2
<1>9. \A i \in 1..Len(a) : sc.cnt[a[i]] \in Nat /\ (i <= k => sc.cnt[a[i]] <= v) /\ (i > k => v <= sc.cnt[a[i]])
  BY <1>0, <1>2, <1>6
<1>10. \A i, j \in 1..Len(a) : i < j => sc.cnt[a[i]] <= sc.cnt[a[j]] BY <1>0 DEF InOrder
<1>11. InOrder(q2, s2.cnt)
  <2> SUFFICES ASSUME NEW m \in Lists, NEW i \in 1..Len(q2[m]), NEW j \in 1..Len(q2[m]), i < j
               PROVE  s2.cnt[q2[m][i]] <= s2.cnt[q2[m][j]]
    BY DEF InOrder
  <2>1. CASE m # l BY <2>1, <1>0, <1>4, <1>6 DEF InOrder
  <2>2. CASE m = l
    <3>1. q2[m] = b /\ i \in 1..(Len(a) + 1) /\ j \in 1..(Len(a) + 1) BY <2>2, <1>3, <1>4
    <3> HIDE DEF a
    <3>2. s2.cnt[b[i]] <= s2.cnt[b[j]]
      <4>1. CASE j <= k
        <5>1. i <= k /\ i \in 1..Len(a) /\ j \in 1..Len(a) BY <4>1, <3>1, <1>2
        <5> QED BY <4>1, <5>1, <3>1, <1>8, <1>10
      <4>2. CASE j = k + 1
        <5>1. i <= k /\ i \in 1..Len(a) BY <4>2, <3>1, <1>2
        <5>2. sc.cnt[a[i]] <= v BY <5>1, <1>9
        <5> QED BY <4>2, <5>1, <5>2, <3>1, <1>2, <1>8
      <4>3. CASE j > k + 1
        <5>0. j - 1 \in 1..Len(a) /\ s2.cnt[b[j]] = sc.cnt[a[j - 1]] /\ j - 1 > k BY <4>3, <3>1, <1>2, <1>8
        <5>1. CASE i <= k
          <6>1. i \in 1..Len(a) /\ i < j - 1 BY <5>1, <4>3, <3>1, <1>2
          <6> QED BY <5>0, <5>1, <6>1, <3>1, <1>8, <1>10
        <5>2. CASE i = k + 1
          <6>1. v <= sc.cnt[a[j - 1]] BY <5>0, <1>9
          <6> QED BY <5>0, <5>2, <6>1, <3>1, <1>2, <1>8
        <5>3. CASE i > k + 1
          <6>1. i - 1 \in 1..Len(a) /\ i - 1 < j - 1 /\ ~(i <= k) /\ i # k + 1 BY <5>3, <3>1, <1>2
          <6>2. s2.cnt[b[i]] = sc.cnt[a[i - 1]] BY <6>1, <3>1, <1>8
          <6> QED BY <5>0, <6>1, <6>2, <1>10
        <5> QED BY <5>1, <5>2, <5>3, <3>1, <1>2
      <4>4. j \in Nat /\ k \in Nat BY <3>1, <1>2
      <4>5. j <= k \/ j = k + 1 \/ j > k + 1 BY ONLY <4>4
      <4> QED BY <4>1, <4>2, <4>3, <4>5
    <3> QED BY <3>1, <3>2
  <2> QED BY <2>1, <2>2
<1>12. Ahead(q2, s2.cnt, s2.count)
  <2> SUFFICES ASSUME NEW m \in Lists, NEW i \in 1..Len(q2[m])
               PROVE  IF m = Time THEN s2.cnt[q2[m][i]] >= sc.count[Time] ELSE s2.cnt[q2[m][i]] > sc.count[m]
    BY DEF Ahead
  <2>0. \A j \in 1..Len(q[m]) : IF m = Time THEN sc.cnt[q[m][j]] >= sc.count[Time] ELSE sc.cnt[q[m][j]] > sc.count[m]
    BY <1>0 DEF Ahead
  <2>1. CASE m # l
    <3>1. q2[m] = q[m] BY <2>1, <1>4
    <3> QED BY <3>1, <2>0, <1>6
  <2>2. CASE m = l
    <3>1. q2[m] = b /\ q[m] = a /\ i \in 1..(Len(a) + 1) BY <2>2, <1>3, <1>4
    <3> HIDE DEF a
    <3>2. CASE i <= k
      <4>1. i \in 1..Len(a) /\ s2.cnt[b[i]] = sc.cnt[a[i]] BY <3>2, <3>1, <1>8
      <4> QED BY <4>1, <3>1, <2>0
    <3>3. CASE i = k + 1
      <4>1. s2.cnt[b[i]] = v BY <3>3, <3>1, <1>2, <1>8
      <4> QED BY <4>1, <3>1, <2>2
    <3>4. CASE i > k + 1
      <4>1. ~(i <= k) /\ i # k + 1 BY <3>4, <3>1, <1>2
      <4>2. i - 1 \in 1..Len(a) /\ s2.cnt[b[i]] = sc.cnt[a[i - 1]] BY <3>4, <4>1, <3>1, <1>8
      <4> QED BY <4>2, <3>1, <2>0
    <3> QED BY <3>2, <3>3, <3>4, <3>1, <1>2
  <2> QED BY <2>1, <2>2
<1> QED BY <1>1, <1>5, <1>11, <1>12 DEF Fit, q2, b

\* A task is taken off a list; if it is the first one of the time list the
\* clock may move to its time.
LEMMA RemoveFit ==
  ASSUME NEW sc, NEW q, Fit(sc, q), NEW l \in Lists, NEW k \in 1..Len(q[l]),
         NEW s2 \in Schedulers, Unlinks(s2, sc, q, l, k),
         \A x \in Task \ {q[l][k]} : s2.cnt[x] = sc.cnt[x],
         \A m \in Lists \ {Time} : s2.count[m] = sc.count[m],
         \/ s2.count[Time] = sc.count[Time]
         \/ l = Time /\ k = 1 /\ s2.count[Time] = sc.cnt[q[l][1]]
  PROVE  /\ Fit(s2, [q EXCEPT ![l] = Removed(q[l], k)])
         /\ OnLists([q EXCEPT ![l] = Removed(q[l], k)]) = [OnLists(q) EXCEPT ![l] = @ \ {q[l][k]}]
         /\ [q EXCEPT ![l] = Removed(q[l], k)] \in [Lists -> Seq(Task)]
<1> DEFINE a == q[l]
           b == Removed(a, k)
           q2 == [q EXCEPT ![l] = b]
           Src(m, i) == IF m = l /\ ~(i < k) THEN i + 1 ELSE i
<1>0. Has(sc, q) /\ q \in [Lists -> Seq(Task)] /\ sc.cnt \in [Task -> Nat] /\ InOrder(q, sc.cnt)
      /\ Ahead(q, sc.cnt, sc.count) /\ OnePlace(q) BY DEF Fit, Has, Schedulers
<1>1. Has(s2, q2) BY <1>0, RemoveHas
<1>2. a \in Seq(Task) /\ Len(a) \in Nat /\ k \in 1..Len(a) /\ k \in Nat /\ k <= Len(a) BY <1>0
<1>2a. Distinct(a) BY <1>0 DEF OnePlace, Distinct
<1>3. /\ b \in Seq(Task) /\ Len(b) = Len(a) - 1
      /\ \A i \in 1..(Len(a) - 1) : b[i] = IF i < k THEN a[i] ELSE a[i + 1]
      /\ Range(b) = Range(a) \ {a[k]}
  <2>1. a \in Seq(Task) /\ k \in 1..Len(a) /\ Distinct(a) BY <1>2, <1>2a
  <2> HIDE DEF a
  <2> QED BY ONLY <2>1, RemovedFacts DEF b
<1> HIDE DEF b
<1>4. q2[l] = b /\ (\A m \in Lists \ {l} : q2[m] = q[m]) /\ q2 \in [Lists -> Seq(Task)] BY <1>0, <1>3
<1>5. OnLists(q2) = [OnLists(q) EXCEPT ![l] = @ \ {a[k]}]
  <2>1. OnLists(q2) = [OnLists(q) EXCEPT ![l] = Range(b)]
    <3>1. b \in Seq(Task) /\ q \in [Lists -> Seq(Task)] /\ l \in Lists BY <1>0, <1>3
    <3> QED BY ONLY <3>1, OnExcept
  <2> QED BY <2>1, <1>3 DEF OnLists
<1> HIDE DEF q2
<1>6. ASSUME NEW m \in Lists, NEW i \in 1..Len(q2[m])
      PROVE  /\ i \in Nat /\ Src(m, i) \in 1..Len(q[m]) /\ q2[m][i] = q[m][Src(m, i)]
             /\ q[m][Src(m, i)] \in Task /\ s2.cnt[q2[m][i]] = sc.cnt[q[m][Src(m, i)]]
             /\ (m = l => Src(m, i) # k)
  <2>1. q2[m] \in Seq(Task) /\ q[m] \in Seq(Task) BY <1>0, <1>4
  <2>2. i \in Nat BY <2>1
  <2>3. Src(m, i) \in 1..Len(q[m]) /\ q2[m][i] = q[m][Src(m, i)] /\ (m = l => Src(m, i) # k)
    <3>1. CASE m = l
      <4>1. q2[m] = b /\ q[m] = a /\ i \in 1..(Len(a) - 1) BY <3>1, <1>3, <1>4
      <4> HIDE DEF a
      <4>2. CASE i < k
        <5>1. i \in 1..Len(a) /\ i # k /\ b[i] = a[i] BY <4>1, <4>2, <1>2, <1>3
        <5> QED BY <3>1, <4>1, <4>2, <5>1
      <4>3. CASE ~(i < k)
        <5>1. i + 1 \in 1..Len(a) /\ i + 1 # k /\ b[i] = a[i + 1] BY <4>1, <4>3, <1>2, <1>3
        <5> QED BY <3>1, <4>1, <4>3, <5>1
      <4> QED BY <4>2, <4>3
    <3>2. CASE m # l BY <3>2, <1>4
    <3> QED BY <3>1, <3>2
  <2> HIDE DEF Src
  <2>4. q[m][Src(m, i)] \in Task BY <2>1, <2>3
  <2>5. q[m][Src(m, i)] # q[l][k]
    <3>1. k \in 1..Len(q[l]) OBVIOUS
    <3> QED BY <2>3, <3>1, <1>0 DEF OnePlace
  <2> QED BY <2>2, <2>3, <2>4, <2>5
<1>7. InOrder(q2, s2.cnt)
  <2> SUFFICES ASSUME NEW m \in Lists, NEW i \in 1..Len(q2[m]), NEW j \in 1..Len(q2[m]), i < j
               PROVE  s2.cnt[q2[m][i]] <= s2.cnt[q2[m][j]]
    BY DEF InOrder
  <2>1. i \in Nat /\ j \in Nat BY <1>6
  <2>2. Src(m, i) < Src(m, j) BY <2>1, <1>2
  <2>3. Src(m, i) \in 1..Len(q[m]) /\ Src(m, j) \in 1..Len(q[m]) BY <1>6
  <2>4. s2.cnt[q2[m][i]] = sc.cnt[q[m][Src(m, i)]] /\ s2.cnt[q2[m][j]] = sc.cnt[q[m][Src(m, j)]] BY <1>6
  <2> HIDE DEF Src
  <2> QED BY <2>2, <2>3, <2>4, <1>0 DEF InOrder
<1>8. Ahead(q2, s2.cnt, s2.count)
  <2> SUFFICES ASSUME NEW m \in Lists, NEW i \in 1..Len(q2[m])
               PROVE  IF m = Time THEN s2.cnt[q2[m][i]] >= s2.count[Time] ELSE s2.cnt[q2[m][i]] > s2.count[m]
    BY DEF Ahead
  <2>1. Src(m, i) \in 1..Len(q[m]) /\ s2.cnt[q2[m][i]] = sc.cnt[q[m][Src(m, i)]]
        /\ (m = l => Src(m, i) # k) BY <1>6
  <2>2. Src(m, i) \in Nat /\ Src(m, i) >= 1
    <3>1. q[m] \in Seq(Task) BY <1>0
    <3> HIDE DEF Src
    <3> QED BY <2>1, <3>1
  <2> HIDE DEF Src
  <2>3. IF m = Time THEN sc.cnt[q[m][Src(m, i)]] >= sc.count[Time] ELSE sc.cnt[q[m][Src(m, i)]] > sc.count[m]
    BY <2>1, <1>0 DEF Ahead
  <2>4. CASE m # Time BY <2>1, <2>3, <2>4
  <2>5. CASE m = Time /\ s2.count[Time] = sc.count[Time] BY <2>1, <2>3, <2>5
  <2>6. CASE m = Time /\ l = Time /\ k = 1 /\ s2.count[Time] = sc.cnt[q[l][1]]
    <3>1. 1 < Src(m, i) /\ 1 \in 1..Len(q[m]) BY <2>1, <2>2, <2>6
    <3>2. sc.cnt[q[m][1]] <= sc.cnt[q[m][Src(m, i)]] BY <3>1, <2>1, <1>0 DEF InOrder
    <3>3. sc.cnt[q[m][1]] \in Nat /\ sc.cnt[q[m][Src(m, i)]] \in Nat
      <4>1. q[m] \in Seq(Task) BY <1>0
      <4>2. q[m][1] \in Task /\ q[m][Src(m, i)] \in Task BY <4>1, <2>1, <3>1
      <4> QED BY <4>2, <1>0
    <3> QED BY <2>1, <2>6, <3>2, <3>3
  <2> QED BY <2>4, <2>5, <2>6
<1> QED BY <1>1, <1>4, <1>5, <1>7, <1>8 DEF Fit, q2, b

\* The waiters of list l whose count is reached move to the time list.
Taken(on, l, R) == [on EXCEPT ![Time] = @ \cup R, ![l] = @ \ R]
DueNow(s2, sc, R) == s2.cnt = [t \in Task |-> IF t \in R THEN sc.count[Time] ELSE sc.cnt[t]]

\* The tasks that advance takes off an event are those whose count is reached; with
\* the present time they fit in front of the time list.
LEMMA MoveFit ==
  ASSUME NEW sc, NEW q, Fit(sc, q), NEW l \in EC, NEW n \in 1..Len(q[l]), NEW s2 \in Schedulers,
         Splices(s2, sc, q, l, n), DueNow(s2, sc, Range(SubSeq(q[l], 1, n))),
         s2.count = [sc.count EXCEPT ![l] = @ + 1],
         \A i \in (n + 1)..Len(q[l]) : sc.cnt[q[l][i]] > sc.count[l] + 1
  PROVE  /\ Fit(s2, Spliced(q, l, n)) /\ Spliced(q, l, n) \in [Lists -> Seq(Task)]
         /\ OnLists(Spliced(q, l, n)) = Taken(OnLists(q), l, Range(SubSeq(q[l], 1, n)))
         /\ Range(q[Time]) \subseteq Range(Spliced(q, l, n)[Time])
<1> DEFINE a == q[l]
           b == q[Time]
           c == Rest(a, n)
           d == Joined(a, n, b)
           q2 == Spliced(q, l, n)
           R == Range(SubSeq(a, 1, n))
<1>0. l \in Lists /\ Time \in Lists /\ l # Time BY TaskingAssumption DEF Lists
<1>1. Has(sc, q) /\ q \in [Lists -> Seq(Task)] /\ sc.cnt \in [Task -> Nat] /\ InOrder(q, sc.cnt)
      /\ Ahead(q, sc.cnt, sc.count) /\ OnePlace(q) /\ sc.count \in [Lists -> Nat] BY DEF Fit, Has, Schedulers
<1>q. q2 = [q EXCEPT ![Time] = d, ![l] = c] BY DEF Spliced
<1>2. Has(s2, q2) BY <1>1, MoveHas
<1>r. \A t \in Task : s2.cnt[t] = IF t \in R THEN sc.count[Time] ELSE sc.cnt[t] BY DEF DueNow
<1> HIDE DEF q2
<1>3. /\ a \in Seq(Task) /\ Len(a) \in Nat /\ n \in Nat /\ n <= Len(a) /\ n >= 1 /\ n \in 0..Len(a)
      /\ b \in Seq(Task) /\ Len(b) \in Nat BY <1>0, <1>1
<1>4. Distinct(a) BY <1>0, <1>1 DEF OnePlace, Distinct
<1>5. R = {a[i] : i \in 1..n}
  <2> DEFINE f == SubSeq(a, 1, n)
  <2>0. a \in Seq(Task) /\ n \in 1..Len(a) /\ Len(a) \in Nat BY <1>3
  <2>1. DOMAIN f = 1..n /\ \A i \in 1..n : f[i] = a[i]
    <3> HIDE DEF a
    <3> QED BY <2>0
  <2> HIDE DEF f
  <2>2. Range(f) = {a[i] : i \in 1..n} BY <2>1 DEF Range
  <2> QED BY <2>2 DEF f
<1>6. c \in Seq(Task) /\ d \in Seq(Task) /\ Len(c) = Len(a) - n /\ Len(d) = n + Len(b)
  <2>1. a \in Seq(Task) /\ b \in Seq(Task) /\ n \in 0..Len(a) /\ Distinct(a) BY <1>3, <1>4
  <2> HIDE DEF a, b
  <2>2. Joined(a, n, b) \in Seq(Task) /\ Rest(a, n) \in Seq(Task) BY ONLY <2>1, JoinedFacts
  <2>3. Len(Joined(a, n, b)) = n + Len(b) BY ONLY <2>1, JoinedFacts
  <2>4. Len(Rest(a, n)) = Len(a) - n BY ONLY <2>1, JoinedFacts
  <2> QED BY <2>2, <2>3, <2>4 DEF c, d
<1>7. /\ \A i \in 1..(n + Len(b)) : d[i] = IF i <= n THEN a[i] ELSE b[i - n]
      /\ \A i \in 1..(Len(a) - n) : c[i] = a[i + n]
  <2>1. a \in Seq(Task) /\ b \in Seq(Task) /\ n \in 0..Len(a) /\ Distinct(a) BY <1>3, <1>4
  <2> HIDE DEF a, b
  <2>2. \A i \in 1..(n + Len(b)) : Joined(a, n, b)[i] = IF i <= n THEN a[i] ELSE b[i - n] BY ONLY <2>1, JoinedFacts
  <2>3. \A i \in 1..(Len(a) - n) : Rest(a, n)[i] = a[i + n] BY ONLY <2>1, JoinedFacts
  <2> QED BY <2>2, <2>3 DEF c, d
<1>8. Range(d) = R \cup Range(b) /\ Range(c) = Range(a) \ R
  <2>1. a \in Seq(Task) /\ b \in Seq(Task) /\ n \in 0..Len(a) /\ Distinct(a) BY <1>3, <1>4
  <2> HIDE DEF a, b
  <2> QED BY ONLY <2>1, JoinedFacts DEF c, d, R
<1> HIDE DEF c, d
<1>9. /\ q2 \in [Lists -> Seq(Task)] /\ q2[l] = c /\ q2[Time] = d
      /\ \A m \in Lists \ {l, Time} : q2[m] = q[m] BY <1>0, <1>1, <1>6, <1>q
<1>10. OnLists(q2) = Taken(OnLists(q), l, R)
  <2>1. \A m \in Lists : Range(q2[m]) = Taken(OnLists(q), l, R)[m]
    BY <1>0, <1>8, <1>9 DEF OnLists, Taken
  <2> HIDE DEF R
  <2> QED BY <2>1 DEF OnLists, Taken
<1> HIDE DEF R
<1>11. ASSUME NEW m \in Lists, NEW i \in 1..Len(q[m]), m = l => i > n
       PROVE  q[m][i] \in Task /\ s2.cnt[q[m][i]] = sc.cnt[q[m][i]]
  <2>1. q[m] \in Seq(Task) BY <1>1
  <2>2. q[m][i] \in Task BY <2>1
  <2>3. q[m][i] \notin R
    <3>1. ASSUME NEW j \in 1..n PROVE q[m][i] # a[j]
      <4>1. j \in 1..Len(q[l]) /\ (m = l => i # j) BY <1>3, <1>11
      <4> QED BY <4>1, <1>0, <1>1 DEF OnePlace
    <3> QED BY <3>1, <1>5
  <2> QED BY <2>2, <2>3, <1>r
<1>12. ASSUME NEW i \in 1..n PROVE i \in 1..Len(a) /\ a[i] \in Task /\ s2.cnt[a[i]] = sc.count[Time]
  <2>1. i \in 1..Len(a) BY <1>3
  <2>2. a[i] \in Task /\ a[i] \in R BY <2>1, <1>3, <1>5
  <2> QED BY <2>1, <2>2, <1>r
<1>a. a = q[l] /\ b = q[Time] OBVIOUS
<1> HIDE DEF a, b
<1>13. ASSUME NEW i \in 1..(Len(a) - n)
       PROVE  i \in Nat /\ i + n \in 1..Len(a) /\ i + n > n /\ s2.cnt[c[i]] = sc.cnt[a[i + n]] /\ i >= 1
  <2>1. i + n \in 1..Len(a) /\ i + n > n /\ i \in Nat /\ i >= 1 BY <1>3
  <2>2. s2.cnt[a[i + n]] = sc.cnt[a[i + n]] BY <2>1, <1>0, <1>11, <1>a
  <2> QED BY <2>1, <2>2, <1>7
<1>14. ASSUME NEW i \in 1..(n + Len(b))
       PROVE  /\ i \in Nat /\ (i <= n => s2.cnt[d[i]] = sc.count[Time])
              /\ (i > n => i - n \in 1..Len(b) /\ s2.cnt[d[i]] = sc.cnt[b[i - n]])
  <2>1. CASE i <= n
    <3>1. i \in 1..n BY <2>1, <1>3
    <3>2. s2.cnt[a[i]] = sc.count[Time] BY <3>1, <1>12
    <3>3. i \in 1..(n + Len(b)) /\ i \in Nat BY <1>3
    <3>4. d[i] = a[i] BY <2>1, <3>3, <1>7
    <3>5. ~(i > n) BY <2>1, <3>3, <1>3
    <3> QED BY <3>2, <3>3, <3>4, <3>5
  <2>2. CASE i > n
    <3>1. i - n \in 1..Len(b) /\ ~(i <= n) /\ i \in Nat BY <2>2, <1>3
    <3>2. s2.cnt[b[i - n]] = sc.cnt[b[i - n]] BY <3>1, <1>0, <1>11, <1>a
    <3> QED BY <3>1, <3>2, <2>2, <1>7
  <2> QED BY <2>1, <2>2, <1>3
<1>15. \A i \in 1..Len(b) : b[i] \in Task /\ sc.cnt[b[i]] \in Nat /\ sc.cnt[b[i]] >= sc.count[Time]
  <2> SUFFICES ASSUME NEW i \in 1..Len(b) PROVE b[i] \in Task /\ sc.cnt[b[i]] >= sc.count[Time]
    BY <1>1
  <2> QED BY <1>0, <1>1, <1>3, <1>a DEF Ahead
<1>16. InOrder(q2, s2.cnt)
  <2> SUFFICES ASSUME NEW m \in Lists, NEW i \in 1..Len(q2[m]), NEW j \in 1..Len(q2[m]), i < j
               PROVE  s2.cnt[q2[m][i]] <= s2.cnt[q2[m][j]]
    BY DEF InOrder
  <2>1. CASE m # l /\ m # Time
    <3>1. q2[m] = q[m] BY <2>1, <1>9
    <3>2. s2.cnt[q[m][i]] = sc.cnt[q[m][i]] /\ s2.cnt[q[m][j]] = sc.cnt[q[m][j]] BY <2>1, <3>1, <1>11
    <3>3. sc.cnt[q[m][i]] <= sc.cnt[q[m][j]] BY <3>1, <1>1 DEF InOrder
    <3> QED BY <3>1, <3>2, <3>3
  <2>2. CASE m = l
    <3>1. q2[m] = c /\ i \in 1..(Len(a) - n) /\ j \in 1..(Len(a) - n) BY <2>2, <1>6, <1>9
    <3>2. /\ i + n \in 1..Len(a) /\ j + n \in 1..Len(a) /\ i + n < j + n
          /\ s2.cnt[c[i]] = sc.cnt[a[i + n]] /\ s2.cnt[c[j]] = sc.cnt[a[j + n]]
      <4>1. i \in Nat /\ j \in Nat BY <3>1, <1>13
      <4>2. i + n < j + n BY ONLY <4>1, <1>3, i < j
      <4> QED BY <3>1, <4>2, <1>13
    <3>3. sc.cnt[a[i + n]] <= sc.cnt[a[j + n]] BY <3>2, <1>0, <1>1, <1>a DEF InOrder
    <3> QED BY <3>1, <3>2, <3>3
  <2>3. CASE m = Time
    <3>1. q2[m] = d /\ i \in 1..(n + Len(b)) /\ j \in 1..(n + Len(b)) BY <2>3, <1>6, <1>9
    <3>2. i \in Nat /\ j \in Nat BY <3>1, <1>14
    <3>3. CASE j <= n
      <4>1. i <= n BY ONLY <3>2, <3>3, <1>3, i < j
      <4>2. s2.cnt[d[i]] = sc.count[Time] /\ s2.cnt[d[j]] = sc.count[Time] BY <3>1, <3>3, <4>1, <1>14
      <4>3. sc.count[Time] \in Nat BY <1>0, <1>1
      <4> QED BY <3>1, <4>2, <4>3
    <3>4. CASE j > n /\ i <= n
      <4>1. j - n \in 1..Len(b) /\ s2.cnt[d[j]] = sc.cnt[b[j - n]] /\ s2.cnt[d[i]] = sc.count[Time]
        BY <3>1, <3>4, <1>14
      <4>2. sc.cnt[b[j - n]] \in Nat /\ sc.cnt[b[j - n]] >= sc.count[Time] BY <4>1, <1>15
      <4>3. sc.count[Time] \in Nat BY <1>0, <1>1
      <4> QED BY <3>1, <4>1, <4>2, <4>3
    <3>5. CASE j > n /\ i > n
      <4>1. /\ j - n \in 1..Len(b) /\ s2.cnt[d[j]] = sc.cnt[b[j - n]]
            /\ i - n \in 1..Len(b) /\ s2.cnt[d[i]] = sc.cnt[b[i - n]]
        BY <3>1, <3>5, <1>14
      <4>2. i - n < j - n BY ONLY <3>2, <1>3, i < j
      <4>3. sc.cnt[b[i - n]] <= sc.cnt[b[j - n]] BY <4>1, <4>2, <1>0, <1>1, <1>a DEF InOrder
      <4> QED BY <3>1, <4>1, <4>3
    <3> QED BY <3>2, <3>3, <3>4, <3>5, <1>3
  <2> QED BY <2>1, <2>2, <2>3
<1>17. Ahead(q2, s2.cnt, s2.count)
  <2> SUFFICES ASSUME NEW m \in Lists, NEW i \in 1..Len(q2[m])
               PROVE  IF m = Time THEN s2.cnt[q2[m][i]] >= s2.count[Time] ELSE s2.cnt[q2[m][i]] > s2.count[m]
    BY DEF Ahead
  <2>0. s2.count[Time] = sc.count[Time] /\ s2.count[l] = sc.count[l] + 1
        /\ \A x \in Lists \ {l} : s2.count[x] = sc.count[x] BY <1>0, <1>1
  <2>1. CASE m # l /\ m # Time
    <3>1. q2[m] = q[m] BY <2>1, <1>9
    <3>2. s2.cnt[q[m][i]] = sc.cnt[q[m][i]] BY <2>1, <3>1, <1>11
    <3>3. sc.cnt[q[m][i]] > sc.count[m] BY <2>1, <3>1, <1>1 DEF Ahead
    <3> QED BY <2>0, <2>1, <3>1, <3>2, <3>3
  <2>2. CASE m = l
    <3>1. q2[m] = c /\ i \in 1..(Len(a) - n) BY <2>2, <1>6, <1>9
    <3>2. i \in Nat /\ i + n \in 1..Len(a) /\ i + n > n /\ s2.cnt[c[i]] = sc.cnt[a[i + n]] /\ i >= 1 BY <3>1, <1>13
    <3>3. i + n \in (n + 1)..Len(a) BY <3>2, <1>3
    <3>4. sc.cnt[a[i + n]] > sc.count[l] + 1 BY <3>3, <1>a
    <3> QED BY <3>1, <3>2, <3>4, <2>0, <2>2, <1>0
  <2>3. CASE m = Time
    <3>1. q2[m] = d /\ i \in 1..(n + Len(b)) BY <2>3, <1>6, <1>9
    <3>3. CASE i <= n
      <4>1. s2.cnt[d[i]] = sc.count[Time] BY <3>1, <3>3, <1>14
      <4>2. sc.count[Time] \in Nat BY <1>0, <1>1
      <4> QED BY <3>1, <4>1, <4>2, <2>0, <2>3
    <3>4. CASE i > n
      <4>1. i - n \in 1..Len(b) /\ s2.cnt[d[i]] = sc.cnt[b[i - n]] BY <3>1, <3>4, <1>14
      <4>2. sc.cnt[b[i - n]] >= sc.count[Time] BY <4>1, <1>15
      <4> QED BY <3>1, <4>1, <4>2, <2>0, <2>3
    <3>5. i \in Nat BY <3>1, <1>14
    <3> QED BY <3>3, <3>4, <3>5, <1>3
  <2> QED BY <2>1, <2>2, <2>3
<1>18. Fit(s2, q2) /\ q2 \in [Lists -> Seq(Task)] /\ Range(b) \subseteq Range(q2[Time])
  BY <1>2, <1>8, <1>9, <1>16, <1>17 DEF Fit
<1> QED BY <1>10, <1>18 DEF R, a, b, q2

----------------------------------------------------------------------------
(* The functions of tasking.cc.                                            *)

\* Where a loop that follows the pointers stops.
StopPlace(next, a, j, S, k) ==
  /\ Follow(next, a[j])[Stop(Follow(next, a[j]), S)] = a[k]
  /\ (k = Len(a) \/ a[k + 1] \in S) /\ \A i \in (j + 1)..k : a[i] \notin S

\* It stops at one of the tasks that remain.
LEMMA StopInList ==
  ASSUME NEW sc, NEW q, Has(sc, q), NEW l \in Lists, NEW j \in 1..Len(q[l]), NEW S
  PROVE  \E k \in j..Len(q[l]) : StopPlace(sc.next, q[l], j, S, k)
<1> DEFINE a == q[l]
           r == Follow(sc.next, a[j])
           n == Stop(r, S)
           k == j + n - 1
<1>1. a \in Seq(Task) /\ Len(a) \in Nat /\ j \in 1..Len(a) /\ j \in Nat BY DEF Has
<1>2. r \in Seq(Task) /\ Len(r) = Len(a) - j + 1 /\ \A i \in 1..(Len(a) - j + 1) : r[i] = a[j + i - 1]
  <2>1. r = SubSeq(q[l], j, Len(q[l])) BY FollowFrom
  <2> QED BY <2>1, FollowFrom
<1> HIDE DEF r
<1>2a. r # <<>> BY <1>1, <1>2
<1>3. StopsAt(r, S, n)
  <2> HIDE DEF a
  <2> QED BY <1>2, <1>2a, StopFacts
<1> HIDE DEF n
<1>4. n \in 1..Len(r) /\ (n = Len(r) \/ r[n + 1] \in S) /\ \A i \in 2..n : r[i] \notin S BY <1>3 DEF StopsAt
<1>a. a = q[l] OBVIOUS
<1> HIDE DEF a
<1>5. n \in Nat /\ n >= 1 /\ n <= Len(a) - j + 1 /\ k \in j..Len(a) /\ n \in 1..(Len(a) - j + 1) BY <1>1, <1>2, <1>4
<1>6. r[n] = a[k] BY <1>2, <1>5
<1>7. k = Len(a) \/ a[k + 1] \in S
  <2>1. CASE n = Len(r)
    <3>1. k = Len(a) BY <2>1, <1>1, <1>2, <1>5
    <3> QED BY <3>1
  <2>2. CASE n # Len(r)
    <3>0. \A x, y, z \in Nat : z >= 1 /\ z <= x - y + 1 /\ z # x - y + 1
                              => z + 1 \in 1..(x - y + 1) /\ y + (z + 1) - 1 = y + z - 1 + 1
      OBVIOUS
    <3>1. n + 1 \in 1..(Len(a) - j + 1) /\ j + (n + 1) - 1 = k + 1
      <4>1. n # Len(a) - j + 1 BY <2>2, <1>2
      <4> QED BY <3>0, <4>1, <1>1, <1>5
    <3>2. r[n + 1] = a[k + 1]
      <4>1. r[n + 1] = a[j + (n + 1) - 1] BY <3>1, <1>2
      <4> QED BY <3>1, <4>1
    <3> QED BY <2>2, <3>2, <1>4
  <2> QED BY <2>1, <2>2
<1>8. ASSUME NEW i \in (j + 1)..k PROVE a[i] \notin S
  <2>1. i - j + 1 \in 2..n /\ i - j + 1 \in 1..(Len(a) - j + 1) /\ j + (i - j + 1) - 1 = i BY <1>1, <1>5
  <2>2. r[i - j + 1] = a[i] BY <2>1, <1>2
  <2> QED BY <2>1, <2>2, <1>4
<1>9. k \in j..Len(a) /\ r[n] = a[k] /\ (k = Len(a) \/ a[k + 1] \in S) /\ \A i \in (j + 1)..k : a[i] \notin S
  BY <1>5, <1>6, <1>7, <1>8
<1> HIDE DEF k
<1>10. \E x \in j..Len(a) : r[n] = a[x] /\ (x = Len(a) \/ a[x + 1] \in S) /\ \A i \in (j + 1)..x : a[i] \notin S
  BY <1>9
<1> QED BY <1>10 DEF r, n, a, StopPlace

\* find_next_task: the running task is put where its count belongs, whether
\* the search starts at the head or at the hint.
LEMMA SaveCurrentSound ==
  ASSUME NEW sc, Sound(sc), NEW l \in Lists, NEW v \in Nat, sc.cur \in Task,
         \A m \in Lists : sc.cur \notin On(sc)[m],
         IF l = Time THEN v >= sc.count[Time] ELSE v > sc.count[l]
  PROVE  LET s2 == SaveCurrent(sc, l, v)
         IN  /\ Sound(s2) /\ On(s2) = [On(sc) EXCEPT ![l] = @ \cup {sc.cur}]
             /\ s2.cnt = [sc.cnt EXCEPT ![sc.cur] = v] /\ s2.count = sc.count
             /\ s2.cur = sc.cur /\ s2.fault = sc.fault
<1> DEFINE t == sc.cur
           s2 == SaveCurrent(sc, l, v)
<1>0. sc \in Schedulers BY DEF Sound
<1>1. PICK q : /\ Fit(sc, q) /\ Hinted(sc, q) /\ On(sc) = OnLists(q) /\ q \in [Lists -> Seq(Task)]
               /\ \A m \in Lists : Waiting(sc, m) = q[m] /\ On(sc)[m] = Range(q[m])
  BY SoundFit
<1> DEFINE a == q[l]
           h == sc.head[l]
<1>2. a \in Seq(Task) /\ Len(a) \in Nat /\ (\A i \in 1..Len(a) : a[i] \in Task /\ a[i] \in Range(a)) BY <1>1 DEF Range
<1>3. Has(sc, q) /\ InOrder(q, sc.cnt) /\ Chained(sc.next, h, a) BY <1>1 DEF Fit, Has
<1>4. /\ sc.head \in [Lists -> Pointers] /\ sc.next \in [Task -> Pointers] /\ sc.cnt \in [Task -> Nat]
      /\ sc.count \in [Lists -> Nat] /\ sc.hint \in Pointers /\ sc.cur \in Pointers
  BY <1>0 DEF Schedulers
<1>5. h = (IF a = <<>> THEN NULL ELSE a[1]) /\ NULL \notin Task BY <1>3, TaskingAssumption DEF Chained
<1>6. \A i, j \in 1..Len(a) : i < j => sc.cnt[a[i]] <= sc.cnt[a[j]] BY <1>3 DEF InOrder
<1>7. \A m \in Lists : t \notin Range(q[m]) BY <1>1
<1>8. /\ s2.cnt = [sc.cnt EXCEPT ![t] = v] /\ s2.count = sc.count /\ s2.cur = sc.cur /\ s2.fault = sc.fault
  BY <1>0 DEF SaveCurrent, Schedulers
<1>9. ASSUME NEW k \in 0..Len(a), Links(s2, sc, q, l, k, t), s2 \in Schedulers,
             \A i \in 1..k : sc.cnt[a[i]] <= v, \A i \in (k + 1)..Len(a) : v <= sc.cnt[a[i]],
             s2.hint = sc.hint \/ (l = Time /\ s2.hint = t)
      PROVE  Sound(s2) /\ On(s2) = [On(sc) EXCEPT ![l] = @ \cup {t}]
  <2> DEFINE q2 == [q EXCEPT ![l] = Inserted(q[l], k, t)]
  <2>1. Fit(s2, q2) /\ OnLists(q2) = [OnLists(q) EXCEPT ![l] = @ \cup {t}]
    <3>1. /\ Fit(sc, q) /\ l \in Lists /\ t \in Task /\ k \in 0..Len(q[l]) /\ s2 \in Schedulers
          /\ \A m \in Lists : t \notin Range(q[m])
          /\ Links(s2, sc, q, l, k, t) /\ v \in Nat /\ s2.cnt = [sc.cnt EXCEPT ![t] = v]
          /\ s2.count = sc.count
      BY <1>1, <1>7, <1>8, <1>9
    <3>2. /\ \A i \in 1..k : sc.cnt[q[l][i]] <= v
          /\ \A i \in (k + 1)..Len(q[l]) : v <= sc.cnt[q[l][i]]
          /\ IF l = Time THEN v >= sc.count[Time] ELSE v > sc.count[l]
      BY <1>9
    <3> HIDE DEF s2
    <3>3. Fit(s2, q2) BY ONLY <3>1, <3>2, InsertFit
    <3>4. OnLists(q2) = [OnLists(q) EXCEPT ![l] = @ \cup {t}] BY ONLY <3>1, <3>2, InsertFit
    <3> QED BY <3>3, <3>4
  <2> HIDE DEF q2
  <2>2. Time \in Lists BY DEF Lists
  <2>3. Hinted(s2, q2)
    <3>1. OnLists(q2)[Time] = Range(q2[Time]) /\ OnLists(q)[Time] = Range(q[Time]) BY <2>2 DEF OnLists
    <3>2. Range(q2[Time]) = Range(q[Time]) \cup (IF l = Time THEN {t} ELSE {}) BY <2>1, <2>2, <3>1 DEF OnLists
    <3> HIDE DEF s2
    <3> QED BY <1>1, <1>9, <3>2 DEF Hinted
  <2> QED BY <1>1, <2>1, <2>3, FitSound
<1>b. ASSUME NEW j \in 1..Len(a), NEW S
      PROVE  \E k \in j..Len(a) :
               /\ Follow(sc.next, a[j])[Stop(Follow(sc.next, a[j]), S)] = a[k]
               /\ (k = Len(a) \/ a[k + 1] \in S) /\ \A i \in (j + 1)..k : a[i] \notin S
  <2>1. Has(sc, q) /\ l \in Lists /\ j \in 1..Len(q[l]) BY <1>3
  <2>2. PICK k \in j..Len(q[l]) : StopPlace(sc.next, q[l], j, S, k) BY ONLY <2>1, StopInList
  <2> QED BY ONLY <2>2 DEF StopPlace
<1> HIDE DEF a
<1>a. a = q[l] BY DEF a
<1>10. CASE h = NULL \/ v < sc.cnt[h]
  <2> DEFINE s3 == [[sc EXCEPT !.head[l] = t, !.next[t] = h] EXCEPT !.cnt[t] = v]
  <2>1. s2 = s3 BY <1>10 DEF SaveCurrent
  <2>2. /\ s3 \in Schedulers /\ s3.head = [sc.head EXCEPT ![l] = t] /\ s3.next = [sc.next EXCEPT ![t] = sc.head[l]]
        /\ s3.hint = sc.hint
    BY <1>0, <1>4 DEF Schedulers, Pointers
  <2>3. \A i \in 1..Len(a) : v <= sc.cnt[a[i]]
    <3> SUFFICES ASSUME NEW i \in 1..Len(a) PROVE v <= sc.cnt[a[i]] OBVIOUS
    <3>1. a # <<>> /\ 1 \in 1..Len(a) /\ i >= 1 /\ i \in Nat BY <1>2
    <3>2. v < sc.cnt[a[1]] BY <3>1, <1>2, <1>5, <1>10
    <3>3. sc.cnt[a[1]] <= sc.cnt[a[i]]
      <4>1. CASE i = 1
        <5>1. sc.cnt[a[1]] \in Nat BY <3>1, <1>2, <1>4
        <5> QED BY <4>1, <5>1
      <4>2. CASE i # 1
        <5>1. 1 < i BY <4>2, <3>1
        <5> QED BY <3>1, <5>1, <1>6
      <4> QED BY <4>1, <4>2
    <3>4. sc.cnt[a[1]] \in Nat /\ sc.cnt[a[i]] \in Nat BY <3>1, <1>2, <1>4
    <3> QED BY <3>2, <3>3, <3>4
  <2> HIDE DEF s3, s2
  <2>4. Links(s2, sc, q, l, 0, t) BY <2>1, <2>2 DEF Links
  <2>5. 0 \in 0..Len(a) /\ (\A i \in 1..0 : sc.cnt[a[i]] <= v) /\ (0 + 1)..Len(a) = 1..Len(a) BY <1>2
  <2>6. Sound(s2) /\ On(s2) = [On(sc) EXCEPT ![l] = @ \cup {t}] BY <2>1, <2>2, <2>3, <2>4, <2>5, <1>9
  <2> QED BY <2>6, <1>8 DEF s2
<1>11. CASE ~(h = NULL \/ v < sc.cnt[h])
  <2> DEFINE start == IF l = Time /\ sc.hint # NULL /\ v >= sc.cnt[sc.hint] THEN sc.hint ELSE h
             p == InsertAfter(sc, start, v)
             s3 == [[sc EXCEPT !.next = [@ EXCEPT ![p] = t, ![t] = sc.next[p]],
                               !.hint = IF l = Time THEN t ELSE @] EXCEPT !.cnt[t] = v]
  <2>1. s2 = s3 BY <1>11 DEF SaveCurrent
  <2>2. a # <<>> /\ h = a[1] /\ 1 \in 1..Len(a) /\ sc.cnt[a[1]] \in Nat /\ sc.cnt[a[1]] <= v
    <3>1. a # <<>> /\ h = a[1] BY <1>5, <1>11
    <3>2. 1 \in 1..Len(a) BY <3>1, <1>2
    <3> QED BY <3>1, <3>2, <1>2, <1>4, <1>11
  <2>3. PICK j \in 1..Len(a) : start = a[j] /\ sc.cnt[a[j]] <= v
    <3>1. CASE l = Time /\ sc.hint # NULL /\ v >= sc.cnt[sc.hint]
      <4>1. sc.hint \in Range(a) BY <3>1, <1>1, <1>a DEF Hinted
      <4>2. PICK j \in 1..Len(a) : sc.hint = a[j] BY <4>1, <1>2 DEF Range
      <4>3. sc.cnt[a[j]] \in Nat BY <4>2, <1>2, <1>4
      <4> QED BY <3>1, <4>2, <4>3
    <3>2. CASE ~(l = Time /\ sc.hint # NULL /\ v >= sc.cnt[sc.hint]) BY <3>2, <2>2
    <3> QED BY <3>1, <3>2
  <2> DEFINE S == {x \in Task : v < sc.cnt[x]}
  <2> HIDE DEF start
  <2>4. PICK k \in j..Len(a) : /\ p = a[k] /\ (k = Len(a) \/ a[k + 1] \in S)
                               /\ \A i \in (j + 1)..k : a[i] \notin S
    <3>1. p = Follow(sc.next, a[j])[Stop(Follow(sc.next, a[j]), S)] BY <2>3 DEF InsertAfter
    <3> HIDE DEF S, p
    <3>2. \E k \in j..Len(a) :
           /\ Follow(sc.next, a[j])[Stop(Follow(sc.next, a[j]), S)] = a[k]
           /\ (k = Len(a) \/ a[k + 1] \in S) /\ \A i \in (j + 1)..k : a[i] \notin S
      BY <1>b
    <3> QED BY <3>1, <3>2
  <2> HIDE DEF p
  <2>5. j \in Nat /\ k \in Nat /\ k >= 1 /\ k <= Len(a) /\ j <= k /\ k \in 1..Len(a) /\ k \in 0..Len(a) /\ k # 0 BY <1>2
  <2>6. sc.cnt[a[k]] <= v /\ p \in Task
    <3>1. a[k] \in Task /\ sc.cnt[a[k]] \in Nat BY <2>5, <1>2, <1>4
    <3>2. CASE k = j BY <3>1, <3>2, <2>3, <2>4
    <3>3. CASE k # j
      <4>1. k \in (j + 1)..k BY <3>3, <2>5
      <4>2. a[k] \notin S BY <4>1, <2>4
      <4> QED BY <3>1, <4>2, <2>4
    <3> QED BY <3>2, <3>3
  <2>7. \A i \in 1..k : sc.cnt[a[i]] <= v
    <3> SUFFICES ASSUME NEW i \in 1..k PROVE sc.cnt[a[i]] <= v OBVIOUS
    <3>1. i \in 1..Len(a) /\ (i = k \/ i < k) BY <2>5, <1>2
    <3>2. sc.cnt[a[i]] \in Nat /\ sc.cnt[a[k]] \in Nat BY <3>1, <2>5, <1>2, <1>4
    <3>3. i < k => sc.cnt[a[i]] <= sc.cnt[a[k]] BY <3>1, <2>5, <1>6
    <3> QED BY <3>1, <3>2, <3>3, <2>6
  <2>8. \A i \in (k + 1)..Len(a) : v <= sc.cnt[a[i]]
    <3> SUFFICES ASSUME NEW i \in (k + 1)..Len(a) PROVE v <= sc.cnt[a[i]] OBVIOUS
    <3>1. i \in 1..Len(a) /\ k + 1 \in 1..Len(a) /\ k # Len(a) /\ (i = k + 1 \/ k + 1 < i) BY <2>5, <1>2
    <3>2. sc.cnt[a[i]] \in Nat /\ sc.cnt[a[k + 1]] \in Nat BY <3>1, <1>2, <1>4
    <3>3. v < sc.cnt[a[k + 1]] BY <3>1, <2>4
    <3>4. k + 1 < i => sc.cnt[a[k + 1]] <= sc.cnt[a[i]] BY <3>1, <1>6
    <3> QED BY <3>1, <3>2, <3>3, <3>4
  <2>9. /\ s3 \in Schedulers /\ s3.head = sc.head /\ s3.next = [sc.next EXCEPT ![p] = t, ![t] = sc.next[p]]
        /\ s3.hint = IF l = Time THEN t ELSE sc.hint
    BY <1>0, <1>4, <2>6 DEF Schedulers, Pointers
  <2> HIDE DEF s3, s2
  <2>10. Links(s2, sc, q, l, k, t) BY <2>1, <2>4, <2>5, <2>9, <1>a DEF Links
  <2>11. s2.hint = sc.hint \/ (l = Time /\ s2.hint = t) BY <2>1, <2>9
  <2>12. Sound(s2) /\ On(s2) = [On(sc) EXCEPT ![l] = @ \cup {t}]
    BY <2>1, <2>5, <2>7, <2>8, <2>9, <2>10, <2>11, <1>9
  <2> QED BY <2>12, <1>8 DEF s2
<1> QED BY <1>10, <1>11

\* The lists of a sound scheduler as sets: the head is the first to be due.
LEMMA SoundLists ==
  ASSUME NEW sc, Sound(sc), NEW l \in Lists
  PROVE  /\ On(sc) \in [Lists -> SUBSET Task]
         /\ IF On(sc)[l] = {} THEN sc.head[l] = NULL
            ELSE sc.head[l] \in On(sc)[l] /\ \A t \in On(sc)[l] : sc.cnt[sc.head[l]] <= sc.cnt[t]
         /\ \A t \in On(sc)[l] : IF l = Time THEN sc.cnt[t] >= sc.count[Time] ELSE sc.cnt[t] > sc.count[l]
         /\ \A m \in Lists \ {l} : On(sc)[l] \cap On(sc)[m] = {}
         /\ sc.hint \in On(sc)[Time] \cup {NULL}
<1>1. PICK q : /\ Fit(sc, q) /\ Hinted(sc, q) /\ On(sc) = OnLists(q) /\ q \in [Lists -> Seq(Task)]
               /\ \A m \in Lists : Waiting(sc, m) = q[m] /\ On(sc)[m] = Range(q[m])
  BY SoundFit
<1> DEFINE a == q[l]
<1>2. a \in Seq(Task) /\ Len(a) \in Nat /\ On(sc)[l] = {a[i] : i \in 1..Len(a)} BY <1>1 DEF Range
<1>3. /\ OnePlace(q) /\ Chained(sc.next, sc.head[l], a) /\ sc.cnt \in [Task -> Nat]
      /\ InOrder(q, sc.cnt) /\ Ahead(q, sc.cnt, sc.count)
  BY <1>1 DEF Fit, Has, Schedulers
<1>4. \A m \in Lists : Range(q[m]) \subseteq Task BY <1>1 DEF Range
<1>5. On(sc) \in [Lists -> SUBSET Task] BY <1>1, <1>4 DEF OnLists
<1>6. \A i \in 1..Len(a) : IF l = Time THEN sc.cnt[a[i]] >= sc.count[Time] ELSE sc.cnt[a[i]] > sc.count[l]
  BY <1>3 DEF Ahead
<1>7. ASSUME NEW m \in Lists \ {l} PROVE On(sc)[l] \cap On(sc)[m] = {}
  <2>1. On(sc)[m] = {q[m][i] : i \in 1..Len(q[m])} BY <1>1 DEF Range
  <2>2. \A i \in 1..Len(a), j \in 1..Len(q[m]) : a[i] # q[m][j] BY <1>3 DEF OnePlace
  <2> QED BY <1>2, <2>1, <2>2
<1>8. sc.head[l] = IF a = <<>> THEN NULL ELSE a[1] BY <1>3 DEF Chained
<1>9. \A i, j \in 1..Len(a) : i < j => sc.cnt[a[i]] <= sc.cnt[a[j]] BY <1>3 DEF InOrder
<1>10. \A i \in 1..Len(a) : a[i] \in Task /\ sc.cnt[a[i]] \in Nat BY <1>2, <1>3
<1> HIDE DEF a
<1>11. CASE a = <<>>
  <2>1. On(sc)[l] = {} BY <1>11, <1>2
  <2> QED BY <1>1, <1>5, <1>6, <1>7, <1>8, <1>11, <2>1, <1>2 DEF Hinted, Lists
<1>12. CASE a # <<>>
  <2>1. 1 \in 1..Len(a) /\ On(sc)[l] # {} /\ sc.head[l] = a[1] /\ a[1] \in On(sc)[l] BY <1>12, <1>2, <1>8
  <2>2. ASSUME NEW i \in 1..Len(a) PROVE sc.cnt[a[1]] <= sc.cnt[a[i]]
    <3>1. i = 1 \/ 1 < i OBVIOUS
    <3> QED BY <3>1, <2>1, <1>9, <1>10
  <2>3. \A t \in On(sc)[l] : sc.cnt[sc.head[l]] <= sc.cnt[t] BY <2>1, <2>2, <1>2
  <2>4. \A t \in On(sc)[l] : IF l = Time THEN sc.cnt[t] >= sc.count[Time] ELSE sc.cnt[t] > sc.count[l] BY <1>2, <1>6
  <2>5. sc.hint \in On(sc)[Time] \cup {NULL} BY <1>1 DEF Hinted, Lists
  <2> QED BY <1>5, <1>7, <2>1, <2>3, <2>4, <2>5
<1> QED BY <1>11, <1>12

\* Nothing about the tasks on lists changes, and none of them is overdue.
LEMMA SameSound ==
  ASSUME NEW sc, Sound(sc), NEW s2 \in Schedulers, s2.head = sc.head, s2.hint \in {sc.hint, NULL},
         \A l \in Lists : \A t \in On(sc)[l] :
            /\ s2.next[t] = sc.next[t] /\ s2.cnt[t] = sc.cnt[t]
            /\ IF l = Time THEN sc.cnt[t] >= s2.count[Time] ELSE sc.cnt[t] > s2.count[l]
  PROVE  Sound(s2) /\ On(s2) = On(sc)
<1>1. PICK q : /\ Fit(sc, q) /\ Hinted(sc, q) /\ On(sc) = OnLists(q) /\ q \in [Lists -> Seq(Task)]
               /\ \A m \in Lists : Waiting(sc, m) = q[m] /\ On(sc)[m] = Range(q[m])
  BY SoundFit
<1>3. ASSUME NEW l \in Lists, NEW i \in 1..Len(q[l])
      PROVE  /\ q[l][i] \in On(sc)[l] /\ s2.cnt[q[l][i]] = sc.cnt[q[l][i]]
             /\ s2.next[q[l][i]] = sc.next[q[l][i]]
  <2>1. q[l] \in Seq(Task) BY <1>1
  <2>2. q[l][i] \in On(sc)[l] BY <1>1, <2>1 DEF Range
  <2> QED BY <2>2
<1>2. Has(s2, q) /\ InOrder(q, s2.cnt)
  <2>1. \A l \in Lists : Chained(s2.next, s2.head[l], q[l])
    <3> SUFFICES ASSUME NEW l \in Lists PROVE Chained(s2.next, s2.head[l], q[l]) OBVIOUS
    <3>1. Chained(sc.next, sc.head[l], q[l]) BY <1>1 DEF Fit, Has
    <3> QED BY <3>1, <1>3 DEF Chained
  <2>2. OnePlace(q) /\ InOrder(q, sc.cnt) BY <1>1 DEF Fit, Has
  <2>3. InOrder(q, s2.cnt) BY <2>2, <1>3 DEF InOrder
  <2> QED BY <2>1, <2>2, <2>3, <1>1 DEF Has
<1>4. Ahead(q, s2.cnt, s2.count) BY <1>3 DEF Ahead
<1>5. Fit(s2, q) /\ Hinted(s2, q) BY <1>1, <1>2, <1>4 DEF Fit, Hinted
<1> QED BY <1>1, <1>5, FitSound

\* What became of the running task is settled; the first task of the time list
\* runs, at its time.
Dispatched(s2, sc) ==
  /\ Sound(s2) /\ s2.cnt = sc.cnt /\ s2.fault = sc.fault
  /\ IF On(sc)[Time] = {} THEN s2.cur = NULL /\ On(s2) = On(sc) /\ s2.count = sc.count
     ELSE /\ s2.cur \in On(sc)[Time] /\ On(s2) = [On(sc) EXCEPT ![Time] = @ \ {s2.cur}]
          /\ s2.count = [sc.count EXCEPT ![Time] = sc.cnt[s2.cur]]
          /\ \A t \in On(sc)[Time] : sc.cnt[s2.cur] <= sc.cnt[t]

\* The rest of find_next_task: the first task of the time list runs, and time is its.
LEMMA DispatchSound == ASSUME NEW sc, Sound(sc) PROVE Dispatched(Dispatch(sc), sc)
<1> DEFINE s2 == Dispatch(sc)
           h == sc.head[Time]
<1>0. sc \in Schedulers /\ Time \in Lists /\ NULL \notin Task BY TaskingAssumption DEF Sound, Lists
<1>0a. /\ sc.head \in [Lists -> Pointers] /\ sc.next \in [Task -> Pointers] /\ sc.cnt \in [Task -> Nat]
       /\ sc.count \in [Lists -> Nat] /\ sc.hint \in Pointers /\ sc.cur \in Pointers
  BY <1>0 DEF Schedulers
<1>1. /\ On(sc) \in [Lists -> SUBSET Task]
      /\ IF On(sc)[Time] = {} THEN h = NULL
         ELSE h \in On(sc)[Time] /\ \A t \in On(sc)[Time] : sc.cnt[h] <= sc.cnt[t]
      /\ \A l \in Lists : \A t \in On(sc)[l] :
           IF l = Time THEN sc.cnt[t] >= sc.count[Time] ELSE sc.cnt[t] > sc.count[l]
  BY <1>0, SoundLists
<1>2. CASE On(sc)[Time] = {}
  <2>1. h = NULL BY <1>1, <1>2
  <2>2. /\ s2 \in Schedulers /\ s2.head = sc.head /\ s2.next = sc.next /\ s2.cnt = sc.cnt /\ s2.hint = NULL
        /\ s2.count = sc.count /\ s2.fault = sc.fault /\ s2.cur = NULL
    BY <2>1, <1>0, <1>0a DEF Schedulers, Dispatch, Pointers
  <2> HIDE DEF s2
  <2>3. Sound(s2) /\ On(s2) = On(sc) BY <2>2, <1>1, SameSound
  <2> QED BY <2>2, <2>3, <1>2 DEF Dispatched, s2
<1>3. CASE On(sc)[Time] # {}
  <2>1. h \in On(sc)[Time] /\ h \in Task /\ h # NULL /\ \A t \in On(sc)[Time] : sc.cnt[h] <= sc.cnt[t]
    BY <1>0, <1>1, <1>3
  <2>2. /\ s2 \in Schedulers /\ s2.head = [sc.head EXCEPT ![Time] = sc.next[h]] /\ s2.next = sc.next
        /\ s2.cnt = sc.cnt /\ s2.hint = (IF sc.hint = h THEN NULL ELSE sc.hint) /\ s2.cur = h
        /\ s2.fault = sc.fault /\ s2.count = [sc.count EXCEPT ![Time] = sc.cnt[h]]
    <3>1. s2 = [sc EXCEPT !.cur = h, !.head[Time] = sc.next[h], !.count[Time] = sc.cnt[h],
                          !.hint = IF @ = h THEN NULL ELSE @] BY <2>1 DEF Dispatch
    <3> HIDE DEF s2
    <3>2. sc.next[h] \in Pointers /\ sc.cnt[h] \in Nat /\ h \in Pointers BY <2>1, <1>0a DEF Pointers
    <3> HIDE DEF h
    <3> QED BY <3>1, <3>2, <1>0, <1>0a DEF Schedulers, Pointers
  <2>3. PICK q : /\ Fit(sc, q) /\ Hinted(sc, q) /\ On(sc) = OnLists(q) /\ q \in [Lists -> Seq(Task)]
                 /\ \A m \in Lists : Waiting(sc, m) = q[m] /\ On(sc)[m] = Range(q[m])
    BY SoundFit
  <2> HIDE DEF s2
  <2> DEFINE a == q[Time]
             q2 == [q EXCEPT ![Time] = Removed(a, 1)]
  <2>4. h = a[1] /\ 1 \in 1..Len(a)
    <3>1. Chained(sc.next, h, a) BY <2>3, <1>0 DEF Fit, Has
    <3>2. a \in Seq(Task) BY <2>3, <1>0
    <3> QED BY <3>1, <3>2, <2>1 DEF Chained
  <2> HIDE DEF h
  <2>5. Unlinks(s2, sc, q, Time, 1) BY <2>2, <2>4 DEF Unlinks
  <2>6. /\ Fit(s2, q2) /\ OnLists(q2) = [OnLists(q) EXCEPT ![Time] = @ \ {a[1]}]
    <3>1. /\ Fit(sc, q) /\ Time \in Lists /\ 1 \in 1..Len(q[Time]) /\ s2 \in Schedulers
          /\ Unlinks(s2, sc, q, Time, 1) /\ s2.cnt = sc.cnt
      BY <1>0, <2>2, <2>3, <2>4, <2>5
    <3>2. \A m \in Lists \ {Time} : s2.count[m] = sc.count[m] BY <2>2, <1>0a
    <3>3. s2.count[Time] = sc.cnt[q[Time][1]] BY <2>2, <2>4, <1>0, <1>0a
    <3>4. \A x \in Task \ {q[Time][1]} : s2.cnt[x] = sc.cnt[x] BY <3>1
    <3> QED BY <3>1, <3>2, <3>3, <3>4, RemoveFit
  <2>7. Hinted(s2, q2)
    <3>1. Range(q2[Time]) = Range(q[Time]) \ {h} BY <2>4, <2>6, <2>3, <1>0 DEF OnLists
    <3> HIDE DEF q2
    <3> QED BY <3>1, <2>2, <2>3 DEF Hinted
  <2> HIDE DEF q2
  <2>8. Sound(s2) /\ On(s2) = OnLists(q2) BY <2>6, <2>7, FitSound
  <2>9. On(s2) = [On(sc) EXCEPT ![Time] = @ \ {h}] BY <2>8, <2>6, <2>3, <2>4
  <2>10. Dispatched(s2, sc) BY <1>3, <2>1, <2>2, <2>8, <2>9 DEF Dispatched
  <2> QED BY <2>10 DEF s2
<1> QED BY <1>2, <1>3

\* find_next_task as a whole: its assertion holds.
LEMMA FindNextSound ==
  ASSUME NEW sc, Sound(sc), NEW l \in Lists, NEW v \in Nat, sc.cur \in Task,
         \A m \in Lists : sc.cur \notin On(sc)[m],
         IF l = Time THEN v >= sc.count[Time] ELSE v > sc.count[l]
  PROVE  LET s1 == SaveCurrent(sc, l, v)
         IN  /\ Sound(s1) /\ On(s1) = [On(sc) EXCEPT ![l] = @ \cup {sc.cur}]
             /\ s1.cnt = [sc.cnt EXCEPT ![sc.cur] = v] /\ s1.count = sc.count /\ s1.fault = sc.fault
             /\ Dispatched(FindNextTask(sc, l, v), s1)
<1> DEFINE s1 == SaveCurrent(sc, l, v)
           c == s1.head[Time]
<1>1. /\ Sound(s1) /\ On(s1) = [On(sc) EXCEPT ![l] = @ \cup {sc.cur}]
      /\ s1.cnt = [sc.cnt EXCEPT ![sc.cur] = v] /\ s1.count = sc.count /\ s1.fault = sc.fault
  BY SaveCurrentSound
<1>2. FindNextTask(sc, l, v) = IF c # NULL /\ s1.cnt[c] < s1.count[Time]
                               THEN [s1 EXCEPT !.fault = "curtask->count >= etime.count"] ELSE Dispatch(s1)
  BY DEF FindNextTask
<1> HIDE DEF s1
<1>3. ~(c # NULL /\ s1.cnt[c] < s1.count[Time])
  <2>0. Time \in Lists BY DEF Lists
  <2>a. Sound(s1) BY <1>1
  <2>b. IF On(s1)[Time] = {} THEN c = NULL ELSE c \in On(s1)[Time]
    BY ONLY <2>a, <2>0, SoundLists
  <2>c. \A t \in On(s1)[Time] : s1.cnt[t] >= s1.count[Time]
    BY ONLY <2>a, <2>0, SoundLists
  <2>d. On(s1) \in [Lists -> SUBSET Task] BY ONLY <2>a, <2>0, SoundLists
  <2>1. /\ IF On(s1)[Time] = {} THEN c = NULL ELSE c \in On(s1)[Time]
        /\ \A t \in On(s1)[Time] : s1.cnt[t] >= s1.count[Time]
        /\ On(s1)[Time] \subseteq Task
    BY <2>0, <2>b, <2>c, <2>d
  <2>2. s1.cnt \in [Task -> Nat] /\ s1.count[Time] \in Nat BY <1>1, <2>0 DEF Sound, Schedulers
  <2> HIDE DEF c
  <2> QED BY <2>1, <2>2
<1>4. Dispatched(Dispatch(s1), s1) BY <1>1, DispatchSound
<1> QED BY <1>1, <1>2, <1>3, <1>4 DEF s1

\* advance: those waiting for exactly the new count go to the time list.
LEMMA AdvanceSound ==
  ASSUME NEW sc, Sound(sc), NEW l \in EC
  PROVE  LET s2 == Advance(sc, l)
             R  == {t \in On(sc)[l] : sc.cnt[t] = sc.count[l] + 1}
         IN  /\ Sound(s2) /\ On(s2) = Taken(On(sc), l, R)
             /\ DueNow(s2, sc, R)
             /\ s2.count = [sc.count EXCEPT ![l] = @ + 1] /\ s2.cur = sc.cur /\ s2.fault = sc.fault
<1> DEFINE s2 == Advance(sc, l)
           R  == {t \in On(sc)[l] : sc.cnt[t] = sc.count[l] + 1}
           up == [sc EXCEPT !.count[l] = @ + 1]
           h  == sc.head[l]
           c  == sc.count[l] + 1
<1>0. sc \in Schedulers /\ Time \in Lists /\ l \in Lists /\ l # Time /\ NULL \notin Task
  BY TaskingAssumption DEF Sound, Lists
<1>0a. /\ sc.head \in [Lists -> Pointers] /\ sc.next \in [Task -> Pointers] /\ sc.cnt \in [Task -> Nat]
       /\ sc.count \in [Lists -> Nat] /\ sc.hint \in Pointers /\ sc.cur \in Pointers
  BY <1>0 DEF Schedulers
<1>1. /\ On(sc) \in [Lists -> SUBSET Task]
      /\ IF On(sc)[l] = {} THEN h = NULL
         ELSE h \in On(sc)[l] /\ \A t \in On(sc)[l] : sc.cnt[h] <= sc.cnt[t]
      /\ \A m \in Lists : \A t \in On(sc)[m] :
           IF m = Time THEN sc.cnt[t] >= sc.count[Time] ELSE sc.cnt[t] > sc.count[m]
  BY <1>0, SoundLists
<1>2. /\ up \in Schedulers /\ up.head = sc.head /\ up.next = sc.next /\ up.cnt = sc.cnt /\ up.hint = sc.hint
      /\ up.count = [sc.count EXCEPT ![l] = @ + 1] /\ up.cur = sc.cur /\ up.fault = sc.fault
  <2>1. sc.count[l] + 1 \in Nat BY <1>0, <1>0a
  <2> QED BY <2>1, <1>0, <1>0a DEF Schedulers
<1>3. s2 = IF h = NULL \/ sc.cnt[h] > up.count[l] THEN up ELSE MoveToTime(up, l, Reached(up, h, up.count[l]))
  BY DEF Advance
<1>4. up.count[l] = c /\ c \in Nat BY <1>2, <1>0, <1>0a
<1> HIDE DEF up, s2
<1>5. CASE h = NULL \/ sc.cnt[h] > c
  <2>1. s2 = up BY <1>3, <1>4, <1>5
  <2>2. \A t \in On(sc)[l] : sc.cnt[t] > c
    <3> SUFFICES ASSUME NEW t \in On(sc)[l] PROVE sc.cnt[t] > c OBVIOUS
    <3>1. h \in On(sc)[l] /\ sc.cnt[h] <= sc.cnt[t] /\ h \in Task /\ t \in Task BY <1>0, <1>1
    <3>2. sc.cnt[h] > c BY <3>1, <1>0, <1>5
    <3>3. sc.cnt[h] \in Nat /\ sc.cnt[t] \in Nat BY <3>1, <1>0a
    <3> HIDE DEF h, c
    <3> QED BY <3>1, <3>2, <3>3, <1>4
  <2>3. R = {} BY <2>2, <1>4, <1>0a, <1>1, <1>0
  <2>4. Sound(up) /\ On(up) = On(sc)
    <3>1. \A m \in Lists : \A t \in On(sc)[m] :
            IF m = Time THEN sc.cnt[t] >= up.count[Time] ELSE sc.cnt[t] > up.count[m]
      <4> SUFFICES ASSUME NEW m \in Lists, NEW t \in On(sc)[m]
                   PROVE  IF m = Time THEN sc.cnt[t] >= up.count[Time] ELSE sc.cnt[t] > up.count[m]
        OBVIOUS
      <4>1. CASE m = l BY <4>1, <2>2, <1>4, <1>0
      <4>2. CASE m # l
        <5>1. up.count[m] = sc.count[m] BY <4>2, <1>2, <1>0a
        <5> QED BY <5>1, <1>1
      <4> QED BY <4>1, <4>2
    <3> QED BY <3>1, <1>2, SameSound
  <2> HIDE DEF R
  <2>5. On(sc) = Taken(On(sc), l, R) BY <2>3, <1>1 DEF Taken
  <2>6. sc.cnt = [t \in Task |-> IF t \in R THEN sc.count[Time] ELSE sc.cnt[t]] BY <2>3, <1>0a
  <2>7. /\ Sound(s2) /\ On(s2) = Taken(On(sc), l, R)
        /\ DueNow(s2, sc, R)
        /\ s2.count = [sc.count EXCEPT ![l] = @ + 1] /\ s2.cur = sc.cur /\ s2.fault = sc.fault
    BY <2>1, <2>4, <2>5, <2>6, <1>2 DEF DueNow
  <2> QED BY <2>7 DEF s2, R
<1>6. CASE ~(h = NULL \/ sc.cnt[h] > c)
  <2>0. PICK q : /\ Fit(sc, q) /\ Hinted(sc, q) /\ On(sc) = OnLists(q) /\ q \in [Lists -> Seq(Task)]
                 /\ \A m \in Lists : Waiting(sc, m) = q[m] /\ On(sc)[m] = Range(q[m])
    BY SoundFit
  <2> DEFINE a == q[l]
             S == {t \in Task : up.cnt[t] # c}
             n == Stop(a, S)
             woken == SubSeq(a, 1, n)
  <2>1. /\ a \in Seq(Task) /\ Len(a) \in Nat /\ On(sc)[l] = {a[i] : i \in 1..Len(a)}
        /\ Chained(sc.next, h, a) /\ InOrder(q, sc.cnt) /\ Distinct(a) /\ Has(sc, q)
    BY <2>0, <1>0 DEF Fit, Has, Range, OnePlace, Distinct
  <2>1a. a = q[l] OBVIOUS
  <2> HIDE DEF a
  <2>2. a # <<>> /\ h = a[1] /\ 1 \in 1..Len(a) BY <2>1, <1>6 DEF Chained
  <2>3. StopsAt(a, S, n)
    <3> HIDE DEF S
    <3> QED BY <2>1, <2>2, StopFacts
  <2>4. s2 = MoveToTime(up, l, woken)
    <3>1. Follow(up.next, h) = a BY <2>0, <2>1a, <1>0, <1>2 DEF Waiting
    <3>2. Reached(up, h, c) = woken BY <3>1 DEF Reached
    <3> QED BY <3>2, <1>3, <1>4, <1>6
  <2> HIDE DEF n
  <2>5. /\ n \in 1..Len(a) /\ n \in Nat /\ n >= 1 /\ n <= Len(a) /\ (n = Len(a) \/ a[n + 1] \in S)
        /\ \A j \in 2..n : a[j] \notin S
    BY <2>1, <2>3 DEF StopsAt
  <2>6. \A i \in 1..Len(a) : a[i] \in Task /\ sc.cnt[a[i]] \in Nat /\ sc.cnt[a[i]] >= c
    <3> SUFFICES ASSUME NEW i \in 1..Len(a) PROVE a[i] \in Task /\ sc.cnt[a[i]] \in Nat /\ sc.cnt[a[i]] >= c OBVIOUS
    <3>1. a[i] \in Task /\ sc.cnt[a[i]] \in Nat BY <2>1, <1>0a
    <3>2. sc.cnt[a[i]] > sc.count[l] BY <2>1, <1>0, <1>1
    <3>3. sc.count[l] \in Nat BY <1>0, <1>0a
    <3> QED BY <3>1, <3>2, <3>3
  <2>7. \A i \in 1..n : sc.cnt[a[i]] = c
    <3> SUFFICES ASSUME NEW i \in 1..n PROVE sc.cnt[a[i]] = c OBVIOUS
    <3>1. i \in 1..Len(a) BY <2>5
    <3>2. CASE i = 1
      <4>1. ~(sc.cnt[a[1]] > c) BY <2>2, <1>6
      <4> QED BY <4>1, <3>1, <3>2, <2>6, <1>4
    <3>3. CASE i # 1
      <4>1. i \in 2..n BY <3>3, <2>5
      <4>2. a[i] \notin S BY <4>1, <2>5
      <4> QED BY <4>2, <3>1, <2>6, <1>2
    <3> QED BY <3>2, <3>3
  <2>8. \A i \in (n + 1)..Len(a) : sc.cnt[a[i]] > c
    <3> SUFFICES ASSUME NEW i \in (n + 1)..Len(a) PROVE sc.cnt[a[i]] > c OBVIOUS
    <3>1. i \in 1..Len(a) /\ n + 1 \in 1..Len(a) /\ n # Len(a) /\ (i = n + 1 \/ n + 1 < i) BY <2>1, <2>5
    <3>2. sc.cnt[a[n + 1]] # c BY <3>1, <2>5, <2>6, <1>2
    <3>3. n + 1 < i => sc.cnt[a[n + 1]] <= sc.cnt[a[i]] BY <3>1, <2>1, <2>1a, <1>0 DEF InOrder
    <3>4. sc.cnt[a[n + 1]] >= c /\ sc.cnt[a[i]] >= c /\ sc.cnt[a[n + 1]] \in Nat /\ sc.cnt[a[i]] \in Nat BY <3>1, <2>6
    <3> QED BY <3>1, <3>2, <3>3, <3>4, <1>4
  <2> HIDE DEF S, c
  <2>9. DOMAIN woken = 1..n /\ (\A i \in 1..n : woken[i] = a[i]) /\ Len(woken) = n
    BY <2>1, <2>5
  <2>10. woken[1] = a[1] /\ Last(woken) = a[n] /\ 1 \in 1..n BY <2>5, <2>9 DEF Last
  <2> HIDE DEF woken
  <2>11. Range(woken) = R
    <3>1. Range(woken) = {a[i] : i \in 1..n} BY <2>9 DEF Range
    <3>2. ASSUME NEW i \in 1..n PROVE a[i] \in R
      <4>1. i \in 1..Len(a) BY <2>5
      <4> QED BY <4>1, <2>1, <2>7 DEF c
    <3>3. ASSUME NEW t \in R PROVE t \in {a[i] : i \in 1..n}
      <4>1. PICK i \in 1..Len(a) : t = a[i] BY <2>1
      <4>2. sc.cnt[a[i]] = c BY <4>1 DEF c
      <4>3. i \notin (n + 1)..Len(a) BY <4>2, <2>8, <1>4
      <4>4. i \in 1..n BY <4>3, <2>5
      <4> QED BY <4>1, <4>4
    <3> QED BY <3>1, <3>2, <3>3
  <2>12. /\ s2 \in Schedulers
         /\ s2.head = [sc.head EXCEPT ![Time] = a[1], ![l] = sc.next[a[n]]]
         /\ s2.next = [sc.next EXCEPT ![a[n]] = sc.head[Time]]
         /\ s2.cnt = [t \in Task |-> IF t \in Range(woken) THEN sc.count[Time] ELSE sc.cnt[t]]
         /\ s2.count = [sc.count EXCEPT ![l] = @ + 1] /\ s2.cur = sc.cur /\ s2.fault = sc.fault
         /\ s2.hint = sc.hint
    <3>1. a[n] \in Task /\ a[1] \in Pointers /\ sc.next[a[n]] \in Pointers BY <2>5, <2>6, <2>2, <1>0a DEF Pointers
    <3> DEFINE cn == [t \in Task |-> IF t \in Range(woken) THEN up.count[Time] ELSE up.cnt[t]]
               nx == [up.next EXCEPT ![Last(woken)] = up.head[Time]]
    <3>3. s2 = [up EXCEPT !.cnt = cn, !.next = nx,
                          !.head = [@ EXCEPT ![Time] = a[1], ![l] = sc.next[a[n]]]]
      BY <2>4, <2>10, <1>2 DEF MoveToTime
    <3>4. up.count[Time] = sc.count[Time] /\ up.count[Time] \in Nat BY <1>0, <1>0a, <1>2
    <3>5. cn = [t \in Task |-> IF t \in Range(woken) THEN sc.count[Time] ELSE sc.cnt[t]] /\ cn \in [Task -> Nat]
      BY <3>4, <1>0a, <1>2
    <3>6. nx = [sc.next EXCEPT ![a[n]] = sc.head[Time]] /\ nx \in [Task -> Pointers]
      BY <1>0, <1>0a, <1>2, <2>10
    <3> HIDE DEF cn, nx
    <3>7. [sc.head EXCEPT ![Time] = a[1], ![l] = sc.next[a[n]]] \in [Lists -> Pointers] BY <3>1, <1>0a
    <3>8. /\ s2.cnt = cn /\ s2.next = nx /\ s2.head = [sc.head EXCEPT ![Time] = a[1], ![l] = sc.next[a[n]]]
          /\ s2.count = up.count /\ s2.cur = up.cur /\ s2.fault = up.fault /\ s2.hint = up.hint
      BY <3>3, <1>2 DEF Schedulers
    <3>9. s2 \in Schedulers BY <3>3, <3>5, <3>6, <3>7, <1>2 DEF Schedulers
    <3> QED BY <3>5, <3>6, <3>8, <3>9, <1>2
  <2> DEFINE q2 == Spliced(q, l, n)
  <2> HIDE DEF R
  <2>13. /\ Fit(s2, q2) /\ q2 \in [Lists -> Seq(Task)]
         /\ OnLists(q2) = Taken(OnLists(q), l, Range(SubSeq(q[l], 1, n)))
         /\ Range(q[Time]) \subseteq Range(q2[Time])
    <3>1. /\ Fit(sc, q) /\ n \in 1..Len(q[l]) /\ s2 \in Schedulers /\ Splices(s2, sc, q, l, n)
          /\ DueNow(s2, sc, Range(SubSeq(q[l], 1, n))) /\ s2.count = [sc.count EXCEPT ![l] = @ + 1]
      BY <2>0, <2>1a, <2>5, <2>12 DEF woken, Splices, DueNow
    <3>2. \A i \in (n + 1)..Len(q[l]) : sc.cnt[q[l][i]] > sc.count[l] + 1 BY <2>8, <2>1a DEF c
    <3>3. l \in EC OBVIOUS
    <3> HIDE DEF h
    <3> QED BY ONLY <3>1, <3>2, <3>3, MoveFit
  <2>14. Hinted(s2, q2)
    <3> HIDE DEF q2
    <3> QED BY <2>0, <2>12, <2>13 DEF Hinted
  <2>15. Sound(s2) /\ On(s2) = OnLists(q2)
    <3> HIDE DEF q2
    <3> QED BY <2>13, <2>14, FitSound
  <2>16. On(s2) = Taken(On(sc), l, R)
    <3>1. Range(SubSeq(q[l], 1, n)) = R BY <2>11, <2>1a DEF woken
    <3> HIDE DEF q2
    <3> QED BY <3>1, <2>0, <2>13, <2>15
  <2>17. DueNow(s2, sc, R) BY <2>11, <2>12 DEF DueNow
  <2> QED BY <2>12, <2>15, <2>16, <2>17 DEF s2, R, c
<1> QED BY <1>5, <1>6

\* CreateTask: the new task is the first to run.
LEMMA CreateSound ==
  ASSUME NEW sc, Sound(sc), NEW t \in Task, \A m \in Lists : t \notin On(sc)[m]
  PROVE  LET s2 == CreateTask(sc, t)
         IN  /\ Sound(s2) /\ On(s2) = [On(sc) EXCEPT ![Time] = @ \cup {t}]
             /\ s2.cnt = [sc.cnt EXCEPT ![t] = sc.count[Time]] /\ s2.count = sc.count
             /\ s2.cur = sc.cur /\ s2.fault = sc.fault
<1> DEFINE s2 == CreateTask(sc, t)
           v == sc.count[Time]
<1>0. sc \in Schedulers /\ Time \in Lists BY DEF Sound, Lists
<1>0a. /\ sc.head \in [Lists -> Pointers] /\ sc.next \in [Task -> Pointers] /\ sc.cnt \in [Task -> Nat]
       /\ sc.count \in [Lists -> Nat] /\ v \in Nat
  BY <1>0 DEF Schedulers
<1>1. PICK q : /\ Fit(sc, q) /\ Hinted(sc, q) /\ On(sc) = OnLists(q) /\ q \in [Lists -> Seq(Task)]
               /\ \A m \in Lists : Waiting(sc, m) = q[m] /\ On(sc)[m] = Range(q[m])
  BY SoundFit
<1> DEFINE q2 == [q EXCEPT ![Time] = Inserted(q[Time], 0, t)]
<1>2. /\ s2 \in Schedulers /\ s2.head = [sc.head EXCEPT ![Time] = t]
      /\ s2.next = [sc.next EXCEPT ![t] = sc.head[Time]] /\ s2.cnt = [sc.cnt EXCEPT ![t] = v]
      /\ s2.count = sc.count /\ s2.cur = sc.cur /\ s2.fault = sc.fault /\ s2.hint = sc.hint
  BY <1>0, <1>0a DEF Schedulers, CreateTask, Pointers
<1> HIDE DEF s2
<1>2a. v = sc.count[Time] OBVIOUS
<1> HIDE DEF v
<1>3. Links(s2, sc, q, Time, 0, t) BY <1>2 DEF Links
<1>4. \A i \in 1..Len(q[Time]) : v <= sc.cnt[q[Time][i]]
  <2> SUFFICES ASSUME NEW i \in 1..Len(q[Time]) PROVE v <= sc.cnt[q[Time][i]] OBVIOUS
  <2>1. sc.cnt[q[Time][i]] >= v BY <1>0, <1>1, <1>2a DEF Fit, Ahead
  <2>2. q[Time] \in Seq(Task) BY <1>0, <1>1
  <2>3. q[Time][i] \in Task BY <2>2
  <2>4. sc.cnt[q[Time][i]] \in Nat BY <2>3, <1>0a
  <2> QED BY <2>1, <2>4, <1>0a
<1>5. Fit(s2, q2) /\ OnLists(q2) = [OnLists(q) EXCEPT ![Time] = @ \cup {t}]
  <2>0. q[Time] \in Seq(Task) /\ Len(q[Time]) \in Nat BY <1>0, <1>1
  <2>1. /\ Fit(sc, q) /\ Time \in Lists /\ t \in Task /\ 0 \in 0..Len(q[Time]) /\ s2 \in Schedulers
        /\ \A m \in Lists : t \notin Range(q[m])
        /\ Links(s2, sc, q, Time, 0, t) /\ v \in Nat /\ s2.cnt = [sc.cnt EXCEPT ![t] = v]
        /\ s2.count = sc.count
    <3>1. 0 \in 0..Len(q[Time]) BY <2>0
    <3>2. \A m \in Lists : t \notin Range(q[m]) BY <1>1
    <3>3. Fit(sc, q) BY <1>1
    <3> QED BY <3>1, <3>2, <3>3, <1>0, <1>0a, <1>2, <1>3
  <2>2. /\ \A i \in 1..0 : sc.cnt[q[Time][i]] <= v
        /\ \A i \in (0 + 1)..Len(q[Time]) : v <= sc.cnt[q[Time][i]]
        /\ IF Time = Time THEN v >= sc.count[Time] ELSE v > sc.count[Time]
    BY <1>4, <1>0a, <1>2a
  <2> HIDE DEF q2
  <2>3. /\ Fit(s2, [q EXCEPT ![Time] = Inserted(q[Time], 0, t)])
        /\ OnLists([q EXCEPT ![Time] = Inserted(q[Time], 0, t)]) = [OnLists(q) EXCEPT ![Time] = @ \cup {t}]
    <3>1. Fit(s2, [q EXCEPT ![Time] = Inserted(q[Time], 0, t)]) BY <2>1, <2>2, InsertFit
    <3>2. OnLists([q EXCEPT ![Time] = Inserted(q[Time], 0, t)]) = [OnLists(q) EXCEPT ![Time] = @ \cup {t}]
      BY <2>1, <2>2, InsertFit
    <3> QED BY <3>1, <3>2
  <2> QED BY <2>3 DEF q2
<1> HIDE DEF q2
<1>6. Hinted(s2, q2)
  <2>1. OnLists(q2)[Time] = Range(q2[Time]) /\ OnLists(q)[Time] = Range(q[Time]) BY <1>0 DEF OnLists
  <2>2. Range(q2[Time]) = Range(q[Time]) \cup {t} BY <2>1, <1>0, <1>5 DEF OnLists
  <2> QED BY <2>2, <1>1, <1>2 DEF Hinted
<1>7. Sound(s2) /\ On(s2) = OnLists(q2) BY <1>5, <1>6, FitSound
<1> QED BY <1>1, <1>2, <1>2a, <1>5, <1>7 DEF s2

\* SimCreateTask of an object that is not ready leaves the lists as they were.
LEMMA CreateUndone ==
  ASSUME NEW sc, Sound(sc), NEW t \in Task, \A m \in Lists : t \notin On(sc)[m]
  PROVE  LET s2 == RemoveLastTask(CreateTask(sc, t), t)
         IN  /\ Sound(s2) /\ On(s2) = On(sc) /\ s2.cnt = [sc.cnt EXCEPT ![t] = sc.count[Time]]
             /\ s2.count = sc.count /\ s2.cur = sc.cur /\ s2.fault = sc.fault
<1> DEFINE s1 == CreateTask(sc, t)
           s2 == RemoveLastTask(s1, t)
<1>0. sc \in Schedulers /\ Time \in Lists BY DEF Sound, Lists
<1>0a. /\ sc.head \in [Lists -> Pointers] /\ sc.next \in [Task -> Pointers] /\ sc.cnt \in [Task -> Nat]
       /\ sc.count \in [Lists -> Nat]
  BY <1>0 DEF Schedulers
<1>1. /\ s1 \in Schedulers /\ s1.head = [sc.head EXCEPT ![Time] = t]
      /\ s1.next = [sc.next EXCEPT ![t] = sc.head[Time]] /\ s1.cnt = [sc.cnt EXCEPT ![t] = sc.count[Time]]
      /\ s1.count = sc.count /\ s1.cur = sc.cur /\ s1.fault = sc.fault /\ s1.hint = sc.hint
  BY <1>0, <1>0a DEF Schedulers, CreateTask, Pointers
<1> HIDE DEF s1
<1>2. s2 = [s1 EXCEPT !.head[Time] = s1.next[t], !.next[t] = NULL] BY <1>0, <1>0a, <1>1 DEF RemoveLastTask
<1>3. /\ s2 \in Schedulers /\ s2.head = [s1.head EXCEPT ![Time] = s1.next[t]]
      /\ s2.next = [s1.next EXCEPT ![t] = NULL] /\ s2.cnt = s1.cnt
      /\ s2.count = s1.count /\ s2.cur = s1.cur /\ s2.fault = s1.fault /\ s2.hint = s1.hint
  <2>1. s1.next[t] \in Pointers BY <1>1 DEF Schedulers
  <2> HIDE DEF s2
  <2> QED BY <1>1, <1>2, <2>1 DEF Schedulers, Pointers
<1> HIDE DEF s2
<1>4. s2.head = sc.head BY <1>0, <1>0a, <1>1, <1>3
<1>5. \A m \in Lists : \A x \in On(sc)[m] :
        /\ s2.next[x] = sc.next[x] /\ s2.cnt[x] = sc.cnt[x]
        /\ IF m = Time THEN sc.cnt[x] >= s2.count[Time] ELSE sc.cnt[x] > s2.count[m]
  <2> SUFFICES ASSUME NEW m \in Lists, NEW x \in On(sc)[m]
               PROVE  /\ s2.next[x] = sc.next[x] /\ s2.cnt[x] = sc.cnt[x]
                      /\ IF m = Time THEN sc.cnt[x] >= s2.count[Time] ELSE sc.cnt[x] > s2.count[m]
    OBVIOUS
  <2>1. x \in Task /\ IF m = Time THEN sc.cnt[x] >= sc.count[Time] ELSE sc.cnt[x] > sc.count[m] BY SoundLists
  <2>2. x # t OBVIOUS
  <2> QED BY <2>1, <2>2, <1>0a, <1>1, <1>3
<1>6. Sound(s2) /\ On(s2) = On(sc)
  <2>1. s2 \in Schedulers /\ s2.hint \in {sc.hint, NULL} BY <1>1, <1>3
  <2> QED BY <2>1, <1>4, <1>5, SameSound
<1> QED BY <1>1, <1>3, <1>6 DEF s2, s1

\* remove_cell of wakeupcall.cc: the pointer before the task skips it.
LEMMA RemoveUnlinks ==
  ASSUME NEW sc, NEW q, Fit(sc, q), NEW k \in 1..Len(q[Time])
  PROVE  /\ Unlinks(RemoveTask(sc, q[Time][k]), sc, q, Time, k)
         /\ RemoveTask(sc, q[Time][k]) \in Schedulers
         /\ RemoveTask(sc, q[Time][k]).cnt = sc.cnt /\ RemoveTask(sc, q[Time][k]).count = sc.count
         /\ RemoveTask(sc, q[Time][k]).cur = sc.cur /\ RemoveTask(sc, q[Time][k]).fault = sc.fault
         /\ RemoveTask(sc, q[Time][k]).hint = sc.hint
<1> DEFINE a == q[Time]
           t == a[k]
           r == RemoveTask(sc, t)
           h == sc.head[Time]
<1>0. Time \in Lists /\ sc \in Schedulers /\ Has(sc, q) BY DEF Fit, Has, Lists
<1>0a. /\ sc.head \in [Lists -> Pointers] /\ sc.next \in [Task -> Pointers] /\ sc.cnt \in [Task -> Nat]
       /\ sc.count \in [Lists -> Nat]
  BY <1>0 DEF Schedulers
<1>1. /\ a \in Seq(Task) /\ Len(a) \in Nat /\ Distinct(a) /\ Chained(sc.next, h, a) /\ k \in 1..Len(a)
      /\ Waiting(sc, Time) = a
  BY <1>0, HasWaiting DEF Has, OnePlace, Distinct
<1>2. /\ a # <<>> /\ h = a[1] /\ 1 \in 1..Len(a) /\ t \in Task /\ t \in Range(Waiting(sc, Time))
      /\ k \in Nat /\ k >= 1 /\ k <= Len(a)
  BY <1>1 DEF Chained, Range
<1> HIDE DEF a, t, h
<1>3. r = IF h = t THEN [sc EXCEPT !.head[Time] = sc.next[t]]
          ELSE [sc EXCEPT !.next[Before(sc, h, t)] = sc.next[t]]
  BY <1>2 DEF RemoveTask, h
<1>4. t = a[k] /\ a = q[Time] BY DEF t, a
<1>5. CASE h = t
  <2>1. k = 1 BY <1>1, <1>2, <1>4, <1>5 DEF Distinct
  <2>2. r = [sc EXCEPT !.head[Time] = sc.next[t]] BY <1>3, <1>5
  <2> HIDE DEF r
  <2>3. /\ r \in Schedulers /\ r.head = [sc.head EXCEPT ![Time] = sc.next[t]] /\ r.next = sc.next
        /\ r.cnt = sc.cnt /\ r.count = sc.count /\ r.cur = sc.cur /\ r.fault = sc.fault /\ r.hint = sc.hint
    BY <2>2, <1>0, <1>0a, <1>2 DEF Schedulers
  <2>4. Unlinks(r, sc, q, Time, k) BY <2>1, <2>3, <1>4 DEF Unlinks
  <2> QED BY <2>3, <2>4 DEF r, t, a
<1>6. CASE h # t
  <2>1. k # 1 BY <1>2, <1>4, <1>6
  <2>2. PICK j \in 1..Len(a) :
          /\ Follow(sc.next, a[1])[Stop(Follow(sc.next, a[1]), {t})] = a[j]
          /\ (j = Len(a) \/ a[j + 1] \in {t}) /\ \A i \in (1 + 1)..j : a[i] \notin {t}
    <3>1. Has(sc, q) /\ Time \in Lists /\ 1 \in 1..Len(q[Time]) BY <1>0, <1>2, <1>4
    <3>2. PICK j \in 1..Len(q[Time]) : StopPlace(sc.next, q[Time], 1, {t}, j) BY ONLY <3>1, StopInList
    <3> HIDE DEF t
    <3> QED BY ONLY <3>2 DEF StopPlace, a
  <2>3. k = j + 1
    <3>1. j \in Nat /\ j >= 1 /\ j <= Len(a) BY <1>1
    <3>2. j < k
      <4>1. CASE k <= j
        <5>1. k \in (1 + 1)..j BY <4>1, <2>1, <1>2, <3>1
        <5>2. a[k] # t BY <5>1, <2>2
        <5> QED BY <5>2, <1>4
      <4> QED BY <4>1, <3>1, <1>2
    <3>3. j # Len(a) /\ j + 1 \in 1..Len(a) BY <3>1, <3>2, <1>1, <1>2
    <3>4. a[j + 1] = a[k] BY <3>3, <2>2, <1>4
    <3> QED BY <3>3, <3>4, <1>1 DEF Distinct
  <2>4. Before(sc, h, t) = a[k - 1]
    <3>1. j = k - 1 BY <2>3, <1>2
    <3> QED BY <3>1, <2>2, <1>2 DEF Before
  <2>5. a[k - 1] \in Task
    <3>1. k - 1 \in 1..Len(a) BY <2>1, <1>1, <1>2
    <3> QED BY <3>1, <1>1
  <2>6. r = [sc EXCEPT !.next[a[k - 1]] = sc.next[t]] BY <1>3, <1>6, <2>4
  <2> HIDE DEF r
  <2>7. /\ r \in Schedulers /\ r.head = sc.head /\ r.next = [sc.next EXCEPT ![a[k - 1]] = sc.next[t]]
        /\ r.cnt = sc.cnt /\ r.count = sc.count /\ r.cur = sc.cur /\ r.fault = sc.fault /\ r.hint = sc.hint
    BY <2>5, <2>6, <1>0, <1>0a, <1>2 DEF Schedulers
  <2>8. Unlinks(r, sc, q, Time, k) BY <2>1, <2>7, <1>4 DEF Unlinks
  <2> QED BY <2>7, <2>8 DEF r, t, a
<1> QED BY <1>5, <1>6

\* sorted_insert_cell of wakeupcall.cc: the task goes before those of its time.
LEMMA SortedInsertFit ==
  ASSUME NEW sc, NEW q, Fit(sc, q), NEW t \in Task, \A m \in Lists : t \notin Range(q[m]),
         sc.cnt[t] >= sc.count[Time]
  PROVE  LET s2 == SortedInsertTask(sc, t)
         IN  /\ s2.cnt = sc.cnt /\ s2.count = sc.count /\ s2.cur = sc.cur /\ s2.fault = sc.fault
             /\ s2.hint = sc.hint
             /\ \E q2 \in [Lists -> Seq(Task)] :
                  Fit(s2, q2) /\ OnLists(q2) = [OnLists(q) EXCEPT ![Time] = @ \cup {t}]
<1> DEFINE a == q[Time]
           h == sc.head[Time]
           v == sc.cnt[t]
           s2 == SortedInsertTask(sc, t)
<1>0. /\ Time \in Lists /\ sc \in Schedulers /\ Has(sc, q) /\ q \in [Lists -> Seq(Task)]
      /\ InOrder(q, sc.cnt) BY DEF Fit, Has, Lists
<1>0a. /\ sc.head \in [Lists -> Pointers] /\ sc.next \in [Task -> Pointers] /\ sc.cnt \in [Task -> Nat]
       /\ sc.count \in [Lists -> Nat] /\ v \in Nat
  BY <1>0 DEF Schedulers
<1>1. /\ a \in Seq(Task) /\ Len(a) \in Nat /\ Chained(sc.next, h, a)
      /\ \A i, j \in 1..Len(a) : i < j => sc.cnt[a[i]] <= sc.cnt[a[j]]
  BY <1>0 DEF Has, InOrder
<1>2. \A i \in 1..Len(a) : a[i] \in Task /\ sc.cnt[a[i]] \in Nat /\ a[i] # t BY <1>0, <1>0a, <1>1 DEF Range
<1>3. h = (IF a = <<>> THEN NULL ELSE a[1]) /\ NULL \notin Task BY <1>1, TaskingAssumption DEF Chained
<1>a. a = q[Time] /\ v = sc.cnt[t] /\ h = sc.head[Time] OBVIOUS
<1>b. s2 = IF h = NULL \/ sc.cnt[h] >= v THEN [sc EXCEPT !.next[t] = h, !.head[Time] = t]
           ELSE [sc EXCEPT !.next = [@ EXCEPT ![t] = sc.next[LastSooner(sc, h, v)], ![LastSooner(sc, h, v)] = t]]
  BY DEF SortedInsertTask
<1> HIDE DEF a, v, h, s2
<1>4. ASSUME NEW k \in 0..Len(a), Links(s2, sc, q, Time, k, t), s2 \in Schedulers,
             \A i \in 1..k : sc.cnt[a[i]] <= v, \A i \in (k + 1)..Len(a) : v <= sc.cnt[a[i]],
             s2.cnt = sc.cnt, s2.count = sc.count
      PROVE  \E q2 \in [Lists -> Seq(Task)] :
               Fit(s2, q2) /\ OnLists(q2) = [OnLists(q) EXCEPT ![Time] = @ \cup {t}]
  <2>1. s2.cnt = [sc.cnt EXCEPT ![t] = v] BY <1>0a, <1>4, <1>a
  <2>2. /\ Fit(sc, q) /\ Time \in Lists /\ t \in Task /\ k \in 0..Len(q[Time]) /\ s2 \in Schedulers
        /\ \A m \in Lists : t \notin Range(q[m])
        /\ Links(s2, sc, q, Time, k, t) /\ v \in Nat /\ s2.cnt = [sc.cnt EXCEPT ![t] = v]
        /\ s2.count = sc.count
    BY <2>1, <1>0, <1>0a, <1>4, <1>a
  <2>3. /\ \A i \in 1..k : sc.cnt[q[Time][i]] <= v
        /\ \A i \in (k + 1)..Len(q[Time]) : v <= sc.cnt[q[Time][i]]
        /\ IF Time = Time THEN v >= sc.count[Time] ELSE v > sc.count[Time]
    BY <1>4, <1>a
  <2>4. Fit(s2, [q EXCEPT ![Time] = Inserted(q[Time], k, t)]) BY ONLY <2>2, <2>3, InsertFit
  <2>5. OnLists([q EXCEPT ![Time] = Inserted(q[Time], k, t)]) = [OnLists(q) EXCEPT ![Time] = @ \cup {t}]
    BY ONLY <2>2, <2>3, InsertFit
  <2>6. [q EXCEPT ![Time] = Inserted(q[Time], k, t)] \in [Lists -> Seq(Task)]
    <3>1. Fit(s2, [q EXCEPT ![Time] = Inserted(q[Time], k, t)]) BY <2>4
    <3> QED BY <3>1 DEF Fit, Has
  <2> QED BY <2>4, <2>5, <2>6
<1>5. CASE h = NULL \/ sc.cnt[h] >= v
  <2>1. s2 = [sc EXCEPT !.next[t] = h, !.head[Time] = t] BY <1>5, <1>b
  <2>2. /\ s2 \in Schedulers /\ s2.head = [sc.head EXCEPT ![Time] = t] /\ s2.next = [sc.next EXCEPT ![t] = h]
        /\ s2.cnt = sc.cnt /\ s2.count = sc.count /\ s2.cur = sc.cur /\ s2.fault = sc.fault /\ s2.hint = sc.hint
    <3>1. h \in Pointers /\ t \in Pointers BY <1>0, <1>0a, <1>a DEF Pointers
    <3> QED BY <2>1, <3>1, <1>0, <1>0a DEF Schedulers
  <2>3. Links(s2, sc, q, Time, 0, t) BY <2>2, <1>a DEF Links
  <2>4. \A i \in 1..Len(a) : v <= sc.cnt[a[i]]
    <3> SUFFICES ASSUME NEW i \in 1..Len(a) PROVE v <= sc.cnt[a[i]] OBVIOUS
    <3>1. a # <<>> /\ 1 \in 1..Len(a) /\ (i = 1 \/ 1 < i) BY <1>1
    <3>2. sc.cnt[a[1]] >= v BY <3>1, <1>2, <1>3, <1>5
    <3>3. 1 < i => sc.cnt[a[1]] <= sc.cnt[a[i]] BY <3>1, <1>1
    <3>4. sc.cnt[a[1]] \in Nat /\ sc.cnt[a[i]] \in Nat BY <3>1, <1>2
    <3> QED BY <3>1, <3>2, <3>3, <3>4, <1>0a
  <2>5. 0 \in 0..Len(a) /\ (\A i \in 1..0 : sc.cnt[a[i]] <= v) /\ (0 + 1)..Len(a) = 1..Len(a) BY <1>1
  <2>6. \E q2 \in [Lists -> Seq(Task)] :
          Fit(s2, q2) /\ OnLists(q2) = [OnLists(q) EXCEPT ![Time] = @ \cup {t}]
    BY <2>2, <2>3, <2>4, <2>5, <1>4
  <2> QED BY <2>2, <2>6 DEF s2
<1>6. CASE ~(h = NULL \/ sc.cnt[h] >= v)
  <2> DEFINE p == LastSooner(sc, h, v)
             S == {x \in Task : sc.cnt[x] >= v}
  <2>1. a # <<>> /\ h = a[1] /\ 1 \in 1..Len(a) /\ sc.cnt[a[1]] < v
    <3>1. a # <<>> /\ h = a[1] BY <1>3, <1>6
    <3>2. 1 \in 1..Len(a) BY <3>1, <1>1
    <3> QED BY <3>1, <3>2, <1>0a, <1>2, <1>6
  <2>2. PICK k \in 1..Len(a) :
          /\ p = a[k] /\ (k = Len(a) \/ a[k + 1] \in S) /\ \A i \in (1 + 1)..k : a[i] \notin S
    <3>1. Has(sc, q) /\ Time \in Lists /\ 1 \in 1..Len(q[Time]) BY <1>0, <2>1, <1>a
    <3>2. PICK k \in 1..Len(q[Time]) : StopPlace(sc.next, q[Time], 1, S, k) BY ONLY <3>1, StopInList
    <3>3. p = Follow(sc.next, a[1])[Stop(Follow(sc.next, a[1]), S)] BY <2>1 DEF LastSooner
    <3> HIDE DEF S, p
    <3> QED BY <3>2, <3>3, <1>a DEF StopPlace
  <2> HIDE DEF p
  <2>3. k \in Nat /\ k >= 1 /\ k <= Len(a) /\ k \in 0..Len(a) /\ k # 0 BY <1>1
  <2>4. \A i \in 1..k : sc.cnt[a[i]] <= v
    <3> SUFFICES ASSUME NEW i \in 1..k PROVE sc.cnt[a[i]] <= v OBVIOUS
    <3>1. i \in 1..Len(a) /\ (i = 1 \/ i \in (1 + 1)..k) BY <2>3, <1>1
    <3>2. i # 1 => a[i] \notin S BY <3>1, <2>2
    <3> QED BY <3>1, <3>2, <2>1, <1>0a, <1>2
  <2>5. \A i \in (k + 1)..Len(a) : v <= sc.cnt[a[i]]
    <3> SUFFICES ASSUME NEW i \in (k + 1)..Len(a) PROVE v <= sc.cnt[a[i]] OBVIOUS
    <3>1. i \in 1..Len(a) /\ k + 1 \in 1..Len(a) /\ k # Len(a) /\ (i = k + 1 \/ k + 1 < i) BY <2>3, <1>1
    <3>2. sc.cnt[a[k + 1]] >= v BY <3>1, <2>2
    <3>3. k + 1 < i => sc.cnt[a[k + 1]] <= sc.cnt[a[i]] BY <3>1, <1>1
    <3>4. sc.cnt[a[k + 1]] \in Nat /\ sc.cnt[a[i]] \in Nat BY <3>1, <1>2
    <3> QED BY <3>1, <3>2, <3>3, <3>4, <1>0a
  <2>6. p = a[k] /\ p \in Task /\ p # t /\ sc.next[p] \in Pointers BY <2>2, <1>0a, <1>2
  <2>7. s2 = [sc EXCEPT !.next = [@ EXCEPT ![t] = sc.next[p], ![p] = t]] BY <1>6, <1>b DEF p
  <2>8. /\ s2 \in Schedulers /\ s2.head = sc.head /\ s2.next = [sc.next EXCEPT ![p] = t, ![t] = sc.next[p]]
        /\ s2.cnt = sc.cnt /\ s2.count = sc.count /\ s2.cur = sc.cur /\ s2.fault = sc.fault /\ s2.hint = sc.hint
    <3>1. [sc.next EXCEPT ![t] = sc.next[p], ![p] = t] = [sc.next EXCEPT ![p] = t, ![t] = sc.next[p]]
      BY <2>6, <1>0a
    <3>2. [sc.next EXCEPT ![p] = t, ![t] = sc.next[p]] \in [Task -> Pointers]
      BY <2>6, <1>0a DEF Pointers
    <3> QED BY <2>7, <3>1, <3>2, <1>0 DEF Schedulers
  <2>9. Links(s2, sc, q, Time, k, t) BY <2>3, <2>6, <2>8, <1>a DEF Links
  <2>10. \E q2 \in [Lists -> Seq(Task)] :
          Fit(s2, q2) /\ OnLists(q2) = [OnLists(q) EXCEPT ![Time] = @ \cup {t}]
    BY <2>3, <2>4, <2>5, <2>8, <2>9, <1>4
  <2> QED BY <2>8, <2>10 DEF s2
<1> QED BY <1>5, <1>6

\* future_advance: the wake-up task goes to its new place on the time list.
LEMMA WakeAtSound ==
  ASSUME Sound(s), NEW v \in Nat, v >= s.count[Time], Wake \in On(s)[Time]
  PROVE  LET s2 == WakeAt(v)
         IN  /\ Sound(s2) /\ On(s2) = On(s) /\ s2.cnt = [s.cnt EXCEPT ![Wake] = v]
             /\ s2.count = s.count /\ s2.cur = s.cur /\ s2.fault = s.fault
<1> DEFINE r  == RemoveTask(s, Wake)
           u  == [r EXCEPT !.cnt[Wake] = v]
           s2 == SortedInsertTask(u, Wake)
<1>0. Time \in Lists BY DEF Lists
<1>1. PICK q : /\ Fit(s, q) /\ Hinted(s, q) /\ On(s) = OnLists(q) /\ q \in [Lists -> Seq(Task)]
               /\ \A m \in Lists : Waiting(s, m) = q[m] /\ On(s)[m] = Range(q[m])
  BY SoundFit
<1>2. q[Time] \in Seq(Task) BY <1>0, <1>1
<1>3. PICK k \in 1..Len(q[Time]) : q[Time][k] = Wake BY <1>0, <1>1, <1>2 DEF Range
<1>4. /\ Unlinks(r, s, q, Time, k) /\ r \in Schedulers /\ r.cnt = s.cnt /\ r.count = s.count /\ r.cur = s.cur
      /\ r.fault = s.fault /\ r.hint = s.hint
  BY <1>1, <1>3, RemoveUnlinks
<1> HIDE DEF r
<1>5. /\ u \in Schedulers /\ u.head = r.head /\ u.next = r.next /\ u.cnt = [s.cnt EXCEPT ![Wake] = v]
      /\ u.count = s.count /\ u.cur = s.cur /\ u.fault = s.fault /\ u.hint = s.hint
  BY <1>4 DEF Schedulers
<1>5a. s.cnt \in [Task -> Nat] /\ Wake \in Task BY <1>1, <1>2, <1>3 DEF Fit, Has, Schedulers
<1>6. s2 = WakeAt(v) BY DEF WakeAt, r
<1> HIDE DEF u
<1>7. Unlinks(u, s, q, Time, k) BY <1>4, <1>5 DEF Unlinks
<1> DEFINE q1 == [q EXCEPT ![Time] = Removed(q[Time], k)]
<1>8. /\ Fit(u, q1) /\ OnLists(q1) = [OnLists(q) EXCEPT ![Time] = @ \ {q[Time][k]}] /\ q1 \in [Lists -> Seq(Task)]
  <2>1. /\ Fit(s, q) /\ Time \in Lists /\ u \in Schedulers
        /\ \A x \in Task \ {q[Time][k]} : u.cnt[x] = s.cnt[x]
        /\ \A m \in Lists \ {Time} : u.count[m] = s.count[m]
        /\ u.count[Time] = s.count[Time]
    BY <1>0, <1>1, <1>3, <1>5, <1>5a
  <2>2. k \in 1..Len(q[Time]) OBVIOUS
  <2> HIDE DEF s2
  <2> QED BY ONLY <2>1, <2>2, <1>7, RemoveFit
<1> HIDE DEF q1
<1>9. OnLists(q1) = [On(s) EXCEPT ![Time] = @ \ {Wake}] BY <1>1, <1>3, <1>8
<1>10. \A m \in Lists : Wake \notin Range(q1[m])
  <2> SUFFICES ASSUME NEW m \in Lists PROVE Wake \notin Range(q1[m]) OBVIOUS
  <2>1. Range(q1[m]) = [On(s) EXCEPT ![Time] = @ \ {Wake}][m] BY <1>9 DEF OnLists
  <2>2. On(s) \in [Lists -> SUBSET Task] /\ (m # Time => On(s)[Time] \cap On(s)[m] = {}) BY <1>0, SoundLists
  <2> QED BY <2>1, <2>2, <1>0
<1>11. Wake \in Task /\ u.cnt[Wake] >= u.count[Time] BY <1>5, <1>5a
<1>12. PICK q2 \in [Lists -> Seq(Task)] :
          Fit(s2, q2) /\ OnLists(q2) = [OnLists(q1) EXCEPT ![Time] = @ \cup {Wake}]
  <2> HIDE DEF s2
  <2>1. \E q2 \in [Lists -> Seq(Task)] :
          /\ Fit(SortedInsertTask(u, Wake), q2)
          /\ OnLists(q2) = [OnLists(q1) EXCEPT ![Time] = @ \cup {Wake}]
    <3>1. Fit(u, q1) /\ Wake \in Task BY <1>8, <1>11
    <3> QED BY ONLY <3>1, <1>10, <1>11, SortedInsertFit
  <2> QED BY <2>1 DEF s2
<1>13. s2.cnt = u.cnt /\ s2.count = u.count /\ s2.cur = u.cur /\ s2.fault = u.fault /\ s2.hint = u.hint
  BY <1>8, <1>10, <1>11, SortedInsertFit
<1> HIDE DEF s2
<1>14. OnLists(q2) = On(s)
  <2>1. On(s) \in [Lists -> SUBSET Task] BY <1>0, SoundLists
  <2> QED BY <2>1, <1>0, <1>9, <1>12
<1>15. Hinted(s2, q2)
  <2>1. Range(q2[Time]) = Range(q[Time]) BY <1>0, <1>1, <1>14 DEF OnLists
  <2> QED BY <2>1, <1>1, <1>5, <1>13 DEF Hinted
<1>16. Sound(s2) /\ On(s2) = On(s) BY <1>12, <1>14, <1>15, FitSound
<1> QED BY <1>5, <1>6, <1>13, <1>16

\* The tasks main has created wait on the time list when simulate() is called.
LEMMA FreshSound ==
  ASSUME scene \in Scenarios
  PROVE  \E sc : /\ Fresh = Dispatch(sc) /\ Sound(sc) /\ sc.fault = ""
                 /\ On(sc) = [l \in Lists |-> IF l = Time THEN Booted ELSE {}]
                 /\ sc.cnt = [t \in Task |-> 0]
                 /\ sc.count = [l \in Lists |-> IF l = PutEC THEN Size ELSE 0]
                 /\ Booted \subseteq Task /\ Booted # {}
<1> DEFINE follower(t) == IF \E i \in 1..(Len(Boot) - 1) : Boot[i] = t
                          THEN Boot[1 + CHOOSE i \in 1..(Len(Boot) - 1) : Boot[i] = t] ELSE NULL
           sc == [head  |-> [l \in Lists |-> IF l = Time THEN Boot[1] ELSE NULL],
                  next  |-> [t \in Task |-> follower(t)],
                  cnt   |-> [t \in Task |-> 0],
                  count |-> [l \in Lists |-> IF l = PutEC THEN Size ELSE 0],
                  hint  |-> NULL, cur |-> NULL, fault |-> ""]
           q == [l \in Lists |-> IF l = Time THEN Boot ELSE <<>>]
<1>0. /\ Time \in Lists /\ Time \notin EC /\ PutEC \in EC /\ PutEC # Time /\ Size \in Nat
  BY TaskingAssumption, SchedulingAssumption DEF Lists
<1>1. /\ Boot \in Seq(Task) /\ Boot # <<>> /\ Len(Boot) \in Nat
      /\ \A i, j \in 1..Len(Boot) : Boot[i] = Boot[j] => i = j
  <2>1. /\ scene.boot \in Seq(Task) \ {<<>>}
        /\ \A i, j \in 1..Len(scene.boot) : scene.boot[i] = scene.boot[j] => i = j
    BY ScenarioAssumption
  <2> QED BY <2>1 DEF Boot
<1>2. 1 \in 1..Len(Boot) /\ (\A i \in 1..Len(Boot) : Boot[i] \in Task) /\ Range(Boot) = Booted /\ Booted \subseteq Task
      /\ Booted # {}
  <2>1. DOMAIN Boot = 1..Len(Boot) BY <1>1
  <2>2. 1 \in 1..Len(Boot) /\ \A i \in 1..Len(Boot) : Boot[i] \in Task BY <1>1
  <2>3. Range(Boot) = Booted BY <2>1 DEF Range, Booted
  <2> QED BY <2>2, <2>3 DEF Booted
<1>3. ASSUME NEW i \in 1..Len(Boot)
      PROVE  follower(Boot[i]) = IF i = Len(Boot) THEN NULL ELSE Boot[i + 1]
  <2>1. \A j \in 1..(Len(Boot) - 1) : j \in 1..Len(Boot) /\ (Boot[j] = Boot[i] => j = i) BY <1>1
  <2>2. CASE i = Len(Boot)
    <3>1. ~ \E j \in 1..(Len(Boot) - 1) : Boot[j] = Boot[i] BY <2>1, <2>2, <1>1
    <3> QED BY <2>2, <3>1
  <2>3. CASE i # Len(Boot)
    <3>1. i \in 1..(Len(Boot) - 1) BY <2>3, <1>1
    <3> DEFINE z == CHOOSE j \in 1..(Len(Boot) - 1) : Boot[j] = Boot[i]
    <3>2. z \in 1..(Len(Boot) - 1) /\ Boot[z] = Boot[i] BY <3>1
    <3>3. follower(Boot[i]) = Boot[1 + z] BY <3>1
    <3> HIDE DEF z
    <3>4. z = i BY <3>2, <2>1
    <3>5. 1 + z = i + 1 BY <3>4
    <3> HIDE DEF follower
    <3> QED BY <2>3, <3>3, <3>5
  <2> QED BY <2>2, <2>3
<1>4. ASSUME NEW t \in Task PROVE follower(t) \in Pointers
  <2>1. CASE \E i \in 1..(Len(Boot) - 1) : Boot[i] = t
    <3>1. PICK i \in 1..(Len(Boot) - 1) : Boot[i] = t BY <2>1
    <3>2. i \in 1..Len(Boot) /\ i # Len(Boot) /\ i + 1 \in 1..Len(Boot) BY <1>1
    <3>3. follower(t) = Boot[i + 1] BY <3>1, <3>2, <1>3
    <3> HIDE DEF follower
    <3> QED BY <3>2, <3>3, <1>2 DEF Pointers
  <2>2. CASE ~ \E i \in 1..(Len(Boot) - 1) : Boot[i] = t BY <2>2 DEF Pointers
  <2> QED BY <2>1, <2>2
<1>5. Fresh = Dispatch(sc) BY DEF Fresh
<1> HIDE DEF follower
<1>6. sc \in Schedulers
  <2>1. \A l \in Lists : (IF l = Time THEN Boot[1] ELSE NULL) \in Pointers BY <1>2 DEF Pointers
  <2>2. \A l \in Lists : (IF l = PutEC THEN Size ELSE 0) \in Nat BY <1>0
  <2>3. /\ [l \in Lists |-> IF l = Time THEN Boot[1] ELSE NULL] \in [Lists -> Pointers]
        /\ [l \in Lists |-> IF l = PutEC THEN Size ELSE 0] \in [Lists -> Nat]
        /\ [t \in Task |-> follower(t)] \in [Task -> Pointers]
    BY <2>1, <2>2, <1>4
  <2>4. [t \in Task |-> 0] \in [Task -> Nat] OBVIOUS
  <2>5. NULL \in Pointers BY DEF Pointers
  <2>6. "" \in Faults BY DEF Faults
  <2> QED BY <2>3, <2>4, <2>5, <2>6 DEF Schedulers
<1>7. /\ sc.head = [l \in Lists |-> IF l = Time THEN Boot[1] ELSE NULL]
      /\ sc.next = [t \in Task |-> follower(t)] /\ sc.cnt = [t \in Task |-> 0] /\ sc.fault = ""
      /\ sc.count = [l \in Lists |-> IF l = PutEC THEN Size ELSE 0] /\ sc.hint = NULL
  OBVIOUS
<1> HIDE DEF sc
<1>8. /\ q \in [Lists -> Seq(Task)] /\ q[Time] = Boot /\ \A l \in Lists \ {Time} : q[l] = <<>> BY <1>0, <1>1
<1>9. OnLists(q) = [l \in Lists |-> IF l = Time THEN Booted ELSE {}]
  <2>1. \A l \in Lists : Range(q[l]) = IF l = Time THEN Booted ELSE {}
    <3> SUFFICES ASSUME NEW l \in Lists PROVE Range(q[l]) = IF l = Time THEN Booted ELSE {} OBVIOUS
    <3>1. CASE l = Time BY <3>1, <1>2, <1>8
    <3>2. CASE l # Time BY <3>2, <1>8 DEF Range
    <3> QED BY <3>1, <3>2
  <2> HIDE DEF q
  <2> QED BY <2>1 DEF OnLists
<1> HIDE DEF q
<1>10. \A l \in Lists, i \in Nat : i \in 1..Len(q[l]) => l = Time /\ i \in 1..Len(Boot)
  <2> SUFFICES ASSUME NEW l \in Lists, NEW i \in Nat, i \in 1..Len(q[l]) PROVE l = Time /\ i \in 1..Len(Boot) OBVIOUS
  <2>1. CASE l = Time BY <2>1, <1>8
  <2>2. CASE l # Time
    <3>1. Len(q[l]) = 0 BY <2>2, <1>8
    <3> QED BY <3>1
  <2> QED BY <2>1, <2>2
<1>10a. \A l \in Lists : \A i \in 1..Len(q[l]) : l = Time /\ i \in 1..Len(Boot)
  <2> SUFFICES ASSUME NEW l \in Lists, NEW i \in 1..Len(q[l]) PROVE l = Time /\ i \in 1..Len(Boot) OBVIOUS
  <2>1. q[l] \in Seq(Task) BY <1>8
  <2>2. i \in Nat BY <2>1
  <2> QED BY <2>2, <1>10
<1>11. OnePlace(q)
  <2> SUFFICES ASSUME NEW l \in Lists, NEW m \in Lists, NEW i \in 1..Len(q[l]), NEW j \in 1..Len(q[m]),
                      q[l][i] = q[m][j]
               PROVE  l = m /\ i = j
    BY DEF OnePlace
  <2>1. l = Time /\ m = Time /\ i \in 1..Len(Boot) /\ j \in 1..Len(Boot) BY <1>10a
  <2> QED BY <2>1, <1>1, <1>8
<1>12. \A l \in Lists : Chained(sc.next, sc.head[l], q[l])
  <2> SUFFICES ASSUME NEW l \in Lists PROVE Chained(sc.next, sc.head[l], q[l]) OBVIOUS
  <2>1. CASE l = Time
    <3>1. sc.head[l] = Boot[1] /\ q[l] = Boot BY <2>1, <1>7, <1>8
    <3>2. \A i \in 1..Len(Boot) : sc.next[Boot[i]] = IF i = Len(Boot) THEN NULL ELSE Boot[i + 1]
      <4> SUFFICES ASSUME NEW i \in 1..Len(Boot)
                   PROVE  sc.next[Boot[i]] = IF i = Len(Boot) THEN NULL ELSE Boot[i + 1] OBVIOUS
      <4>1. sc.next[Boot[i]] = follower(Boot[i]) BY <1>2, <1>7
      <4> QED BY <4>1, <1>3
    <3> QED BY <3>1, <3>2, <1>1 DEF Chained
  <2>2. CASE l # Time
    <3>1. sc.head[l] = NULL /\ q[l] = <<>> BY <2>2, <1>7, <1>8
    <3> QED BY <3>1 DEF Chained
  <2> QED BY <2>1, <2>2
<1>13. \A l \in Lists : \A i \in 1..Len(q[l]) : sc.cnt[q[l][i]] = 0 /\ l = Time BY <1>2, <1>7, <1>8, <1>10a
<1>14. InOrder(q, sc.cnt)
  <2> SUFFICES ASSUME NEW l \in Lists, NEW i \in 1..Len(q[l]), NEW j \in 1..Len(q[l])
               PROVE  sc.cnt[q[l][i]] <= sc.cnt[q[l][j]]
    BY DEF InOrder
  <2>1. sc.cnt[q[l][i]] = 0 /\ sc.cnt[q[l][j]] = 0 BY <1>13
  <2> QED BY <2>1
<1>15. Ahead(q, sc.cnt, sc.count)
  <2>1. sc.count[Time] = 0 BY <1>0, <1>7
  <2> QED BY <2>1, <1>13 DEF Ahead
<1>16. Fit(sc, q) /\ Hinted(sc, q) BY <1>6, <1>7, <1>8, <1>11, <1>12, <1>14, <1>15 DEF Fit, Has, Hinted
<1>17. Sound(sc) /\ On(sc) = OnLists(q) BY <1>16, FitSound
<1>18. sc.fault = "" /\ On(sc) = [l \in Lists |-> IF l = Time THEN Booted ELSE {}] BY <1>7, <1>9, <1>17
<1> QED BY <1>2, <1>5, <1>7, <1>17, <1>18

\* The lists of the checkpoint, as sequences, and their counts.
FileLists  == [l \in Lists |-> File.lists[l].tasks]
FileCounts == [l \in Lists |-> File.lists[l].count]

\* RestoreQueueState links the tasks of the checkpoint as they were; the hint
\* is the one of the process.
LEMMA RestoredSound ==
  ASSUME s \in Schedulers, FileSound, s.hint \in Range(File.lists[Time].tasks) \cup {NULL}
  PROVE  LET s2 == Restored(s)
         IN  /\ Sound(s2) /\ On(s2) = OnLists(FileLists) /\ s2.count = FileCounts /\ s2.fault = s.fault
             /\ \A l \in Lists : \A t \in OnLists(FileLists)[l] : s2.cnt[t] = File.cnt[t]
<1> DEFINE q == FileLists
           s1 == [s EXCEPT !.next = [t \in Task |-> IF t = Chk THEN @[t] ELSE NULL],
                           !.cnt  = [t \in Task |-> IF t = Chk THEN @[t] ELSE File.cnt[t]]]
           lists == File.lists
           s2 == RestoreQueueStates(s1, lists)
           on(t) == {l \in Lists : t \in Range(lists[l].tasks)}
           nx(t) == IF on(t) = {} THEN s1.next[t] ELSE Successor(lists[CHOOSE l \in on(t) : TRUE].tasks, t)
<1>0. Time \in Lists /\ NULL \notin Task /\ Chk \in Task BY TaskingAssumption, SchedulingAssumption DEF Lists
<1>0a. /\ s.head \in [Lists -> Pointers] /\ s.next \in [Task -> Pointers] /\ s.cnt \in [Task -> Nat]
       /\ s.count \in [Lists -> Nat] /\ s.hint \in Pointers /\ s.cur \in Pointers /\ s.fault \in Faults
  BY DEF Schedulers
<1>1. /\ File.cnt \in [Task -> Nat] /\ FileCounts \in [Lists -> Nat]
      /\ q \in [Lists -> Seq(Task)] /\ OnePlace(q) /\ InOrder(q, File.cnt) /\ Ahead(q, File.cnt, FileCounts)
      /\ \A l \in Lists : Chk \notin OnLists(q)[l]
  BY DEF FileSound, Arranged, Placed, FileLists, FileCounts
<1>2. \A l \in Lists : q[l] = lists[l].tasks /\ FileCounts[l] = lists[l].count BY DEF FileLists, FileCounts
<1>3. Restored(s) = s2 BY DEF Restored
<1>4. /\ s1.head = s.head /\ s1.next = [t \in Task |-> IF t = Chk THEN s.next[t] ELSE NULL]
      /\ s1.cnt = [t \in Task |-> IF t = Chk THEN s.cnt[t] ELSE File.cnt[t]] /\ s1.count = s.count
      /\ s1.hint = s.hint /\ s1.cur = s.cur /\ s1.fault = s.fault /\ s1 \in Schedulers
  <2> DEFINE n1 == [t \in Task |-> IF t = Chk THEN s.next[t] ELSE NULL]
             c1 == [t \in Task |-> IF t = Chk THEN s.cnt[t] ELSE File.cnt[t]]
  <2>1. s1 = [s EXCEPT !.next = n1, !.cnt = c1] OBVIOUS
  <2>2. n1 \in [Task -> Pointers] BY <1>0a DEF Pointers
  <2>3. c1 \in [Task -> Nat] BY <1>0a, <1>1
  <2> HIDE DEF n1, c1, s1
  <2>4. s1.next = n1 /\ s1.cnt = c1 /\ s1 \in Schedulers BY <2>1, <2>2, <2>3 DEF Schedulers
  <2>5. s1.head = s.head /\ s1.count = s.count BY <2>1 DEF Schedulers
  <2>6. s1.hint = s.hint /\ s1.cur = s.cur /\ s1.fault = s.fault BY <2>1 DEF Schedulers
  <2> QED BY <2>4, <2>5, <2>6 DEF n1, c1
<1> DEFINE hd == [l \in Lists |-> IF lists[l].tasks = <<>> THEN NULL ELSE lists[l].tasks[1]]
           ct == [l \in Lists |-> lists[l].count]
           ne == [t \in Task |-> nx(t)]
<1>5. s2 = [s1 EXCEPT !.count = ct, !.head = hd, !.next = ne]
  BY DEF RestoreQueueStates
<1>6. ct = FileCounts BY DEF FileCounts
<1> HIDE DEF s1, s2, q, nx
<1>7. ASSUME NEW l \in Lists, NEW i \in 1..Len(q[l])
      PROVE  /\ q[l][i] \in Task /\ q[l][i] \in OnLists(q)[l] /\ q[l][i] # Chk
             /\ nx(q[l][i]) = IF i = Len(q[l]) THEN NULL ELSE q[l][i + 1]
  <2> DEFINE t == q[l][i]
  <2>0. q[l] \in Seq(Task) BY <1>1
  <2>1. t \in Task /\ t \in Range(q[l]) /\ t \in OnLists(q)[l] /\ t # Chk BY <2>0, <1>1 DEF Range, OnLists
  <2>1a. t = q[l][i] OBVIOUS
  <2> HIDE DEF t
  <2>2. l \in on(t) BY <2>1, <1>2
  <2>3. \A m \in on(t) : m = l
    <3> SUFFICES ASSUME NEW m \in Lists, t \in Range(lists[m].tasks) PROVE m = l OBVIOUS
    <3>1. q[m] \in Seq(Task) /\ t \in Range(q[m]) BY <1>1, <1>2
    <3>2. PICK j \in 1..Len(q[m]) : t = q[m][j] BY <3>1 DEF Range
    <3> QED BY <3>2, <2>1a, <1>1 DEF OnePlace
  <2>4. (CHOOSE m \in on(t) : TRUE) = l
    <3> HIDE DEF on
    <3>1. (CHOOSE m \in on(t) : TRUE) \in on(t) BY <2>2
    <3> QED BY <3>1, <2>3
  <2>5. nx(t) = Successor(q[l], t)
    <3>1. on(t) # {} BY <2>2
    <3> HIDE DEF on
    <3> QED BY <3>1, <2>4, <1>2 DEF nx
  <2> DEFINE z == CHOOSE j \in 1..Len(q[l]) : q[l][j] = t
  <2>6. z \in 1..Len(q[l]) /\ q[l][z] = t BY <2>1a
  <2>7. Successor(q[l], t) = IF z = Len(q[l]) THEN NULL ELSE q[l][z + 1] BY DEF Successor
  <2> HIDE DEF z
  <2>8. z = i BY <2>6, <2>1a, <1>1 DEF OnePlace
  <2> QED BY <2>1, <2>1a, <2>5, <2>7, <2>8
<1>8. ASSUME NEW t \in Task PROVE nx(t) \in Pointers
  <2>1. CASE on(t) = {}
    <3>1. nx(t) = s1.next[t] BY <2>1 DEF nx
    <3>2. s1.next[t] \in Pointers BY <1>4, <1>0a DEF Pointers
    <3> QED BY <3>1, <3>2
  <2>2. CASE on(t) # {}
    <3>1. PICK l \in Lists : t \in Range(lists[l].tasks) BY <2>2
    <3>2. q[l] \in Seq(Task) /\ t \in Range(q[l]) BY <3>1, <1>1, <1>2
    <3>3. PICK i \in 1..Len(q[l]) : t = q[l][i] BY <3>2 DEF Range
    <3>4. nx(t) = IF i = Len(q[l]) THEN NULL ELSE q[l][i + 1] BY <3>3, <1>7
    <3>5. i # Len(q[l]) => i + 1 \in 1..Len(q[l]) BY <3>2
    <3> QED BY <3>2, <3>4, <3>5 DEF Pointers
  <2> QED BY <2>1, <2>2
<1>9. hd \in [Lists -> Pointers]
  <2>1. \A l \in Lists : (IF lists[l].tasks = <<>> THEN NULL ELSE lists[l].tasks[1]) \in Pointers
    <3> SUFFICES ASSUME NEW l \in Lists PROVE (IF q[l] = <<>> THEN NULL ELSE q[l][1]) \in Pointers BY <1>2
    <3>1. q[l] \in Seq(Task) BY <1>1
    <3>2. q[l] # <<>> => q[l][1] \in Task BY <3>1
    <3> QED BY <3>2 DEF Pointers
  <2> QED BY <2>1
<1>10. s1.cnt \in [Task -> Nat] BY <1>4, <1>0a, <1>1
<1>11. ne \in [Task -> Pointers] BY <1>8
<1>12. /\ s2 \in Schedulers /\ s2.head = hd /\ s2.next = ne /\ s2.count = FileCounts /\ s2.cnt = s1.cnt
       /\ s2.hint = s.hint /\ s2.fault = s.fault
  <2> HIDE DEF hd, ne, ct
  <2> QED BY <1>1, <1>4, <1>5, <1>6, <1>9, <1>10, <1>11, <1>0a DEF Schedulers
<1>13. \A l \in Lists : Chained(s2.next, s2.head[l], q[l])
  <2> SUFFICES ASSUME NEW l \in Lists PROVE Chained(s2.next, s2.head[l], q[l]) OBVIOUS
  <2>1. s2.head[l] = IF q[l] = <<>> THEN NULL ELSE q[l][1] BY <1>2, <1>12
  <2>2. \A i \in 1..Len(q[l]) : s2.next[q[l][i]] = IF i = Len(q[l]) THEN NULL ELSE q[l][i + 1] BY <1>7, <1>12
  <2> QED BY <2>1, <2>2 DEF Chained
<1>14. \A l \in Lists : \A i \in 1..Len(q[l]) : s2.cnt[q[l][i]] = File.cnt[q[l][i]]
  BY <1>4, <1>7, <1>12
<1>15. InOrder(q, s2.cnt) BY <1>1, <1>14 DEF InOrder
<1>16. Ahead(q, s2.cnt, s2.count) BY <1>1, <1>12, <1>14 DEF Ahead
<1>17. Hinted(s2, q) BY <1>0, <1>2, <1>12 DEF Hinted
<1>18. Fit(s2, q) BY <1>1, <1>12, <1>13, <1>15, <1>16 DEF Fit, Has
<1>19. Sound(s2) /\ On(s2) = OnLists(q) BY <1>17, <1>18, FitSound
<1>20. \A l \in Lists : \A t \in OnLists(q)[l] : s2.cnt[t] = File.cnt[t]
  <2> SUFFICES ASSUME NEW l \in Lists, NEW t \in OnLists(q)[l] PROVE s2.cnt[t] = File.cnt[t] OBVIOUS
  <2>1. q[l] \in Seq(Task) /\ t \in Range(q[l]) BY <1>1 DEF OnLists
  <2>2. PICK i \in 1..Len(q[l]) : t = q[l][i] BY <2>1 DEF Range
  <2> QED BY <2>2, <1>14
<1> QED BY <1>3, <1>12, <1>19, <1>20 DEF q

----------------------------------------------------------------------------
(* Where the tasks are.                                                    *)

\* The types of what Placed relates.
Types(on, cnt, count, pos) == /\ on \in [Lists -> SUBSET Task] /\ cnt \in [Task -> Nat]
                              /\ count \in [Lists -> Nat] /\ pos \in [Task -> Places]

\* A task more, or less, on list l; a function changed at one argument.
Plus(on, l, t)  == [on EXCEPT ![l] = @ \cup {t}]
Minus(on, l, t) == [on EXCEPT ![l] = @ \ {t}]
With(f, x, v)   == [f EXCEPT ![x] = v]

\* What a task may be suspended in on list l with value v.
Suspends(a, l, v) == /\ a \in Places /\ a.k \notin Gone /\ a.l = l
                     /\ (l \in EC \/ a.k = "run") => a.v = v

\* The running task goes on a list.
LEMMA PlacedSuspend ==
  ASSUME NEW on, NEW cnt, NEW count, NEW pos, Types(on, cnt, count, pos), NEW cur \in Task,
         Placed(on, cnt, count, cur, pos), NEW l \in Lists, NEW v \in Nat, NEW a, Suspends(a, l, v),
         NEW on2, on2 = Plus(on, l, cur), NEW cnt2, cnt2 = With(cnt, cur, v),
         NEW pos2, pos2 = With(pos, cur, a)
  PROVE  Placed(on2, cnt2, count, NULL, pos2)
<1>0. NULL \notin Task /\ Time \notin EC /\ Lists = EC \cup {Time} BY TaskingAssumption DEF Lists
<1>1. /\ \A m \in Lists : cur \notin on[m] /\ on[m] \subseteq Task
      /\ \A t \in Task : pos[t].k \notin Gone <=> t = cur \/ \E m \in Lists : t \in on[m]
      /\ \A m \in EC : \A t \in on[m] : pos[t].l = m /\ pos[t].v = cnt[t]
      /\ \A t \in on[Time] : (pos[t].l = Time /\ pos[t].k = "run") => cnt[t] = pos[t].v
      /\ \A t \in on[Time] : pos[t].l \in EC => count[pos[t].l] >= pos[t].v
  BY DEF Placed, Types
<1>2. \A t \in Task : /\ pos2[t] = IF t = cur THEN a ELSE pos[t]
                      /\ cnt2[t] = IF t = cur THEN v ELSE cnt[t]
  BY DEF Types, With
<1>3. \A m \in Lists : \A t : t \in on2[m] <=> t \in on[m] \/ (t = cur /\ m = l) BY DEF Types, Plus
<1>4. \A m \in Lists : NULL \notin on2[m] BY <1>0, <1>1, <1>3
<1>5. \A t \in Task : pos2[t].k \notin Gone <=> t = NULL \/ \E m \in Lists : t \in on2[m]
  <2> SUFFICES ASSUME NEW t \in Task PROVE pos2[t].k \notin Gone <=> \E m \in Lists : t \in on2[m] BY <1>0
  <2>1. CASE t = cur BY <2>1, <1>2, <1>3 DEF Suspends
  <2>2. CASE t # cur BY <2>2, <1>1, <1>2, <1>3
  <2> QED BY <2>1, <2>2
<1>6. \A m \in EC : \A t \in on2[m] : pos2[t].l = m /\ pos2[t].v = cnt2[t]
  <2> SUFFICES ASSUME NEW m \in EC, NEW t \in on2[m] PROVE pos2[t].l = m /\ pos2[t].v = cnt2[t] OBVIOUS
  <2>1. CASE t = cur BY <2>1, <1>0, <1>1, <1>2, <1>3 DEF Suspends
  <2>2. CASE t # cur BY <2>2, <1>0, <1>1, <1>2, <1>3
  <2> QED BY <2>1, <2>2
<1>7. \A t \in on2[Time] : (pos2[t].l = Time /\ pos2[t].k = "run") => cnt2[t] = pos2[t].v
  <2> SUFFICES ASSUME NEW t \in on2[Time] PROVE (pos2[t].l = Time /\ pos2[t].k = "run") => cnt2[t] = pos2[t].v
    OBVIOUS
  <2>1. CASE t = cur BY <2>1, <1>0, <1>1, <1>2, <1>3 DEF Suspends
  <2>2. CASE t # cur BY <2>2, <1>0, <1>1, <1>2, <1>3
  <2> QED BY <2>1, <2>2
<1>8. \A t \in on2[Time] \cup ({NULL} \cap Task) : pos2[t].l \in EC => count[pos2[t].l] >= pos2[t].v
  <2> SUFFICES ASSUME NEW t \in on2[Time] PROVE pos2[t].l \in EC => count[pos2[t].l] >= pos2[t].v
    BY <1>0
  <2>1. CASE t = cur BY <2>1, <1>0, <1>1, <1>2, <1>3 DEF Suspends
  <2>2. CASE t # cur BY <2>2, <1>0, <1>1, <1>2, <1>3
  <2> QED BY <2>1, <2>2
<1> QED BY <1>4, <1>5, <1>6, <1>7, <1>8 DEF Placed

\* The running task ends.
LEMMA PlacedGone ==
  ASSUME NEW on, NEW cnt, NEW count, NEW pos, Types(on, cnt, count, pos), NEW cur \in Task,
         Placed(on, cnt, count, cur, pos), NEW a, a.k \in Gone,
         NEW pos2, pos2 = With(pos, cur, a)
  PROVE  Placed(on, cnt, count, NULL, pos2)
<1>0. NULL \notin Task /\ Time \notin EC /\ Lists = EC \cup {Time} BY TaskingAssumption DEF Lists
<1>1. /\ \A m \in Lists : cur \notin on[m] /\ on[m] \subseteq Task
      /\ \A t \in Task : pos[t].k \notin Gone <=> t = cur \/ \E m \in Lists : t \in on[m]
      /\ \A m \in EC : \A t \in on[m] : pos[t].l = m /\ pos[t].v = cnt[t]
      /\ \A t \in on[Time] : (pos[t].l = Time /\ pos[t].k = "run") => cnt[t] = pos[t].v
      /\ \A t \in on[Time] : pos[t].l \in EC => count[pos[t].l] >= pos[t].v
  BY DEF Placed, Types
<1>2. \A t \in Task : pos2[t] = IF t = cur THEN a ELSE pos[t] BY DEF Types, With
<1>3. \A m \in Lists : \A t \in on[m] : t \in Task /\ pos2[t] = pos[t] BY <1>1, <1>2
<1>4. \A m \in Lists : NULL \notin on[m] BY <1>0, <1>1
<1>5. \A t \in Task : pos2[t].k \notin Gone <=> t = NULL \/ \E m \in Lists : t \in on[m]
  <2> SUFFICES ASSUME NEW t \in Task PROVE pos2[t].k \notin Gone <=> \E m \in Lists : t \in on[m] BY <1>0
  <2>1. CASE t = cur BY <2>1, <1>1, <1>2
  <2>2. CASE t # cur BY <2>2, <1>1, <1>2
  <2> QED BY <2>1, <2>2
<1>6. \A t \in on[Time] \cup ({NULL} \cap Task) : pos2[t].l \in EC => count[pos2[t].l] >= pos2[t].v
  BY <1>0, <1>1, <1>3
<1>7. \A m \in EC : \A t \in on[m] : pos2[t].l = m /\ pos2[t].v = cnt[t] BY <1>0, <1>1, <1>3
<1>8. \A t \in on[Time] : (pos2[t].l = Time /\ pos2[t].k = "run") => cnt[t] = pos2[t].v BY <1>0, <1>1, <1>3
<1> QED BY <1>4, <1>5, <1>6, <1>7, <1>8 DEF Placed

\* The running task goes on, with what it waited for reached.
LEMMA PlacedSame ==
  ASSUME NEW on, NEW cnt, NEW count, NEW pos, Types(on, cnt, count, pos), NEW cur \in Task,
         Placed(on, cnt, count, cur, pos), NEW a \in Places, a.k \notin Gone,
         NEW count2, \A l \in EC : count2[l] = count[l],
         a.l \in EC => count[a.l] >= a.v, NEW pos2, pos2 = [pos EXCEPT ![cur] = a]
  PROVE  Placed(on, cnt, count2, cur, pos2)
<1>0. NULL \notin Task /\ Time \notin EC /\ Lists = EC \cup {Time} BY TaskingAssumption DEF Lists
<1>1. /\ \A m \in Lists : cur \notin on[m] /\ on[m] \subseteq Task
      /\ \A t \in Task : pos[t].k \notin Gone <=> t = cur \/ \E m \in Lists : t \in on[m]
      /\ \A m \in EC : \A t \in on[m] : pos[t].l = m /\ pos[t].v = cnt[t]
      /\ \A t \in on[Time] : (pos[t].l = Time /\ pos[t].k = "run") => cnt[t] = pos[t].v
      /\ \A t \in on[Time] : pos[t].l \in EC => count[pos[t].l] >= pos[t].v
  BY DEF Placed, Types
<1>2. \A t \in Task : pos2[t] = IF t = cur THEN a ELSE pos[t] BY DEF Types
<1>3. \A m \in Lists : \A t \in on[m] : t \in Task /\ pos2[t] = pos[t] BY <1>1, <1>2
<1>5. \A t \in Task : pos2[t].k \notin Gone <=> t = cur \/ \E m \in Lists : t \in on[m] BY <1>1, <1>2
<1>6. \A t \in on[Time] \cup ({cur} \cap Task) : pos2[t].l \in EC => count2[pos2[t].l] >= pos2[t].v
  <2>1. \A t \in on[Time] : pos2[t].l \in EC => count2[pos2[t].l] >= pos2[t].v BY <1>0, <1>1, <1>3
  <2>2. pos2[cur].l \in EC => count2[pos2[cur].l] >= pos2[cur].v BY <1>2
  <2> QED BY <2>1, <2>2
<1>7. \A m \in EC : \A t \in on[m] : pos2[t].l = m /\ pos2[t].v = cnt[t] BY <1>0, <1>1, <1>3
<1>8. \A t \in on[Time] : (pos2[t].l = Time /\ pos2[t].k = "run") => cnt[t] = pos2[t].v BY <1>0, <1>1, <1>3
<1>9. \A m \in Lists : cur \notin on[m] BY <1>1
<1> QED BY <1>5, <1>6, <1>7, <1>8, <1>9 DEF Placed

\* Only the counts of tasks on lists matter.
LEMMA PlacedCnt ==
  ASSUME NEW on, NEW cnt, NEW count, NEW pos, Types(on, cnt, count, pos), NEW cur,
         Placed(on, cnt, count, cur, pos), NEW cnt2, \A l \in Lists : \A t \in on[l] : cnt2[t] = cnt[t]
  PROVE  Placed(on, cnt2, count, cur, pos)
BY DEF Placed, Lists

\* The first task of the time list goes on at its time: what it waits for has
\* come.
LEMMA PlacedDispatch ==
  ASSUME NEW on, NEW cnt, NEW count, NEW pos, Types(on, cnt, count, pos),
         Placed(on, cnt, count, NULL, pos), NEW c \in on[Time], \A m \in EC : c \notin on[m],
         NEW on2, on2 = Minus(on, Time, c), NEW count2, count2 = With(count, Time, cnt[c])
  PROVE  /\ Placed(on2, cnt, count2, c, pos)
         /\ (pos[c].l = Time /\ pos[c].k = "run") => count2[Time] = pos[c].v
<1>0. NULL \notin Task /\ Time \notin EC /\ Lists = EC \cup {Time} BY TaskingAssumption DEF Lists
<1>1. /\ \A m \in Lists : on[m] \subseteq Task
      /\ \A t \in Task : pos[t].k \notin Gone <=> \E m \in Lists : t \in on[m]
      /\ \A m \in EC : \A t \in on[m] : pos[t].l = m /\ pos[t].v = cnt[t]
      /\ \A t \in on[Time] : (pos[t].l = Time /\ pos[t].k = "run") => cnt[t] = pos[t].v
      /\ \A t \in on[Time] : pos[t].l \in EC => count[pos[t].l] >= pos[t].v
  BY <1>0 DEF Placed, Types
<1>2. c \in Task /\ count2[Time] = cnt[c] /\ \A e \in EC : count2[e] = count[e] BY <1>0, <1>1 DEF Types, With
<1>3. \A m \in Lists : \A t : t \in on2[m] <=> t \in on[m] /\ (t # c \/ m # Time) BY <1>0 DEF Types, Minus
<1>4. \A m \in Lists : c \notin on2[m] BY <1>0, <1>3
<1>5. \A t \in Task : pos[t].k \notin Gone <=> t = c \/ \E m \in Lists : t \in on2[m]
  <2> SUFFICES ASSUME NEW t \in Task
               PROVE (\E m \in Lists : t \in on[m]) <=> t = c \/ \E m \in Lists : t \in on2[m] BY <1>1
  <2>1. CASE t = c BY <2>1, <1>0
  <2>2. CASE t # c BY <2>2, <1>3
  <2> QED BY <2>1, <2>2
<1>6. \A t \in on2[Time] \cup ({c} \cap Task) : pos[t].l \in EC => count2[pos[t].l] >= pos[t].v
  BY <1>0, <1>1, <1>2, <1>3
<1>7. \A m \in EC : \A t \in on2[m] : pos[t].l = m /\ pos[t].v = cnt[t] BY <1>0, <1>1, <1>3
<1>8. \A t \in on2[Time] : (pos[t].l = Time /\ pos[t].k = "run") => cnt[t] = pos[t].v BY <1>0, <1>1, <1>3
<1>9. Placed(on2, cnt, count2, c, pos) BY <1>4, <1>5, <1>6, <1>7, <1>8 DEF Placed
<1>10. (pos[c].l = Time /\ pos[c].k = "run") => count2[Time] = pos[c].v BY <1>1, <1>2
<1> QED BY <1>9, <1>10

\* The waiters R of list l, whose count is reached, are due now.
LEMMA PlacedAdvance ==
  ASSUME NEW on, NEW cnt, NEW count, NEW pos, Types(on, cnt, count, pos), NEW cur \in Task,
         Placed(on, cnt, count, cur, pos), NEW l \in EC, NEW R \in SUBSET on[l],
         \A t \in R : cnt[t] = count[l] + 1, on[Time] \cap on[l] = {},
         NEW on2, on2 = Taken(on, l, R), NEW cnt2 \in [Task -> Nat],
         \A t \in Task : cnt2[t] = IF t \in R THEN count[Time] ELSE cnt[t],
         NEW count2, count2 = [count EXCEPT ![l] = @ + 1]
  PROVE  Placed(on2, cnt2, count2, cur, pos)
<1>0. NULL \notin Task /\ Time \notin EC /\ Lists = EC \cup {Time} BY TaskingAssumption DEF Lists
<1>1. /\ \A m \in Lists : cur \notin on[m] /\ on[m] \subseteq Task
      /\ \A t \in Task : pos[t].k \notin Gone <=> t = cur \/ \E m \in Lists : t \in on[m]
      /\ \A m \in EC : \A t \in on[m] : pos[t].l = m /\ pos[t].v = cnt[t]
      /\ \A t \in on[Time] : (pos[t].l = Time /\ pos[t].k = "run") => cnt[t] = pos[t].v
      /\ \A t \in on[Time] \cup {cur} : pos[t].l \in EC => count[pos[t].l] >= pos[t].v
  BY DEF Placed, Types
<1>2. \A m \in Lists : \A t : t \in on2[m] <=> \/ t \in on[m] /\ (m # l \/ t \notin R)
                                               \/ t \in R /\ m = Time
  <2>1. \A m \in Lists : on2[m] = IF m = l THEN on[l] \ R ELSE IF m = Time THEN on[Time] \cup R ELSE on[m]
    BY <1>0 DEF Types, Taken
  <2> QED BY <2>1, <1>0
<1>3. \A e \in EC : /\ count[e] \in Nat
                    /\ count2[e] = IF e = l THEN count[l] + 1 ELSE count[e]
  BY <1>0 DEF Types
<1>3a. \A t \in Task : pos[t].v \in Nat BY DEF Types, Places
<1>4. \A m \in Lists : cur \notin on2[m] BY <1>0, <1>1, <1>2
<1>5. \A t \in Task : pos[t].k \notin Gone <=> t = cur \/ \E m \in Lists : t \in on2[m]
  <2> SUFFICES ASSUME NEW t \in Task
               PROVE (\E m \in Lists : t \in on[m]) <=> \E m \in Lists : t \in on2[m] BY <1>1
  <2>1. CASE t \in R BY <2>1, <1>0, <1>2
  <2>2. CASE t \notin R BY <2>2, <1>0, <1>2
  <2> QED BY <2>1, <2>2
<1>6. \A t \in on2[Time] \cup ({cur} \cap Task) : pos[t].l \in EC => count2[pos[t].l] >= pos[t].v
  <2> SUFFICES ASSUME NEW t \in on2[Time] \cup {cur}, pos[t].l \in EC PROVE count2[pos[t].l] >= pos[t].v
    OBVIOUS
  <2>0. t \in Task BY <1>0, <1>1, <1>2
  <2>1. CASE t \in R
    <3>1. pos[t].l = l /\ pos[t].v = count[l] + 1 BY <2>1, <1>1
    <3> QED BY <3>1, <1>3
  <2>2. CASE t \notin R
    <3>1. count[pos[t].l] >= pos[t].v BY <2>2, <1>0, <1>1, <1>2
    <3>2. count2[pos[t].l] >= count[pos[t].l] /\ count2[pos[t].l] \in Nat /\ count[pos[t].l] \in Nat BY <1>3
    <3> QED BY <3>1, <3>2, <2>0, <1>3a
  <2> QED BY <2>1, <2>2
<1>7. \A m \in EC : \A t \in on2[m] : pos[t].l = m /\ pos[t].v = cnt2[t]
  <2> SUFFICES ASSUME NEW m \in EC, NEW t \in on2[m] PROVE pos[t].l = m /\ pos[t].v = cnt2[t] OBVIOUS
  <2>1. t \in on[m] /\ (m # l \/ t \notin R) /\ t \in Task BY <1>0, <1>1, <1>2
  <2>2. pos[t].l = m /\ pos[t].v = cnt[t] BY <2>1, <1>1
  <2>3. t \notin R BY <2>1, <2>2, <1>1
  <2> QED BY <2>1, <2>2, <2>3
<1>8. \A t \in on2[Time] : (pos[t].l = Time /\ pos[t].k = "run") => cnt2[t] = pos[t].v
  <2> SUFFICES ASSUME NEW t \in on2[Time], pos[t].l = Time, pos[t].k = "run" PROVE cnt2[t] = pos[t].v OBVIOUS
  <2>1. t \notin R BY <1>0, <1>1
  <2>2. t \in on[Time] BY <2>1, <1>0, <1>2
  <2> QED BY <2>1, <2>2, <1>0, <1>1
<1> QED BY <1>4, <1>5, <1>6, <1>7, <1>8 DEF Placed

\* A new task is due now.
LEMMA PlacedCreate ==
  ASSUME NEW on, NEW cnt, NEW count, NEW pos, Types(on, cnt, count, pos), NEW cur \in Task,
         Placed(on, cnt, count, cur, pos), NEW t \in Task, t # cur, \A m \in Lists : t \notin on[m],
         NEW on2, on2 = Plus(on, Time, t),
         NEW cnt2, \A u \in Task \ {t} : cnt2[u] = cnt[u], NEW pos2, pos2 = With(pos, t, Created)
  PROVE  Placed(on2, cnt2, count, cur, pos2)
<1>0. NULL \notin Task /\ Time \notin EC /\ Lists = EC \cup {Time} BY TaskingAssumption DEF Lists
<1>1. /\ \A m \in Lists : cur \notin on[m] /\ on[m] \subseteq Task
      /\ \A u \in Task : pos[u].k \notin Gone <=> u = cur \/ \E m \in Lists : u \in on[m]
      /\ \A m \in EC : \A u \in on[m] : pos[u].l = m /\ pos[u].v = cnt[u]
      /\ \A u \in on[Time] : (pos[u].l = Time /\ pos[u].k = "run") => cnt[u] = pos[u].v
      /\ \A u \in on[Time] \cup {cur} : pos[u].l \in EC => count[pos[u].l] >= pos[u].v
  BY DEF Placed, Types
<1>2. \A u \in Task : pos2[u] = IF u = t THEN Created ELSE pos[u] BY DEF Types, With
<1>3. \A m \in Lists : \A u : u \in on2[m] <=> u \in on[m] \/ (u = t /\ m = Time) BY <1>0 DEF Types, Plus
<1>3a. Created.k = "new" /\ Created.l = Time /\ "new" \notin Gone BY DEF Created, Where, Gone
<1>4. \A m \in Lists : cur \notin on2[m] BY <1>1, <1>3
<1>5. \A u \in Task : pos2[u].k \notin Gone <=> u = cur \/ \E m \in Lists : u \in on2[m]
  <2> SUFFICES ASSUME NEW u \in Task
               PROVE pos2[u].k \notin Gone <=> u = cur \/ \E m \in Lists : u \in on2[m] OBVIOUS
  <2>1. CASE u = t BY <2>1, <1>0, <1>2, <1>3, <1>3a
  <2>2. CASE u # t BY <2>2, <1>1, <1>2, <1>3
  <2> QED BY <2>1, <2>2
<1>6. \A u \in on2[Time] \cup ({cur} \cap Task) : pos2[u].l \in EC => count[pos2[u].l] >= pos2[u].v
  <2> SUFFICES ASSUME NEW u \in on2[Time] \cup {cur}, pos2[u].l \in EC PROVE count[pos2[u].l] >= pos2[u].v
    OBVIOUS
  <2>1. u \in Task /\ u # t BY <1>0, <1>1, <1>2, <1>3, <1>3a
  <2>2. u \in on[Time] \cup {cur} /\ pos2[u] = pos[u] BY <2>1, <1>0, <1>2, <1>3
  <2> QED BY <2>2, <1>1
<1>7. \A m \in EC : \A u \in on2[m] : pos2[u].l = m /\ pos2[u].v = cnt2[u]
  <2> SUFFICES ASSUME NEW m \in EC, NEW u \in on2[m] PROVE pos2[u].l = m /\ pos2[u].v = cnt2[u] OBVIOUS
  <2>1. u \in on[m] /\ u # t /\ u \in Task BY <1>0, <1>1, <1>3
  <2> QED BY <2>1, <1>1, <1>2
<1>8. \A u \in on2[Time] : (pos2[u].l = Time /\ pos2[u].k = "run") => cnt2[u] = pos2[u].v
  <2> SUFFICES ASSUME NEW u \in on2[Time], pos2[u].l = Time, pos2[u].k = "run" PROVE cnt2[u] = pos2[u].v
    OBVIOUS
  <2>1. u \in Task /\ u # t BY <1>0, <1>1, <1>2, <1>3, <1>3a
  <2> QED BY <2>1, <1>0, <1>1, <1>2, <1>3
<1> QED BY <1>4, <1>5, <1>6, <1>7, <1>8 DEF Placed

----------------------------------------------------------------------------
(* What the operations of Tasking do to a scheduler and its tasks.         *)

\* The lists are sound and every task is where it is suspended.
Good(sc, pos) == /\ Sound(sc) /\ pos \in [Task -> Places]
                 /\ Placed(On(sc), sc.cnt, sc.count, sc.cur, pos)

\* The parts of a scheduler whose lists are sound.
LEMMA SoundTypes ==
  ASSUME NEW sc, Sound(sc), NEW pos \in [Task -> Places]
  PROVE  /\ Types(On(sc), sc.cnt, sc.count, pos) /\ sc.cur \in Pointers /\ sc.fault \in Faults
         /\ sc.cnt \in [Task -> Nat] /\ sc.count \in [Lists -> Nat]
         /\ Time \in Lists /\ Time \notin EC /\ EC \subseteq Lists
         /\ \A l \in Lists : /\ \A m \in Lists \ {l} : On(sc)[l] \cap On(sc)[m] = {}
                             /\ On(sc)[l] \subseteq Task
<1>1. sc \in Schedulers BY DEF Sound
<1>2. Time \in Lists /\ Time \notin EC /\ EC \subseteq Lists BY TaskingAssumption DEF Lists
<1>3. On(sc) \in [Lists -> SUBSET Task] BY <1>2, SoundLists
<1>4. \A l \in Lists : \A m \in Lists \ {l} : On(sc)[l] \cap On(sc)[m] = {} BY SoundLists
<1>5. /\ sc.cnt \in [Task -> Nat] /\ sc.count \in [Lists -> Nat] /\ sc.cur \in Pointers /\ sc.fault \in Faults
  BY <1>1 DEF Schedulers
<1> QED BY <1>2, <1>3, <1>4, <1>5 DEF Types

\* A task that is dispatched has what it waited for; a pause ends at its time.
DueRun(sc, pos) ==
  sc.cur \in Task => /\ sc.count[Time] = sc.cnt[sc.cur]
                     /\ (pos[sc.cur].l = Time /\ pos[sc.cur].k = "run") => sc.count[Time] = pos[sc.cur].v

\* From sc to s2 nothing but the running task was suspended, and another one
\* dispatched.
Switched(s2, sc, pos2) ==
  /\ Good(s2, pos2) /\ s2.fault = sc.fault
  /\ \A e \in EC : s2.count[e] = sc.count[e]
  /\ \A t \in Task \ {sc.cur} : s2.cnt[t] = sc.cnt[t]
  /\ s2.cur # sc.cur => DueRun(s2, pos2)

\* The task that find_next_task lets run has what it waited for.
LEMMA GoodDispatch ==
  ASSUME NEW sc, Sound(sc), NEW pos \in [Task -> Places], Placed(On(sc), sc.cnt, sc.count, NULL, pos),
         NEW s2, Dispatched(s2, sc)
  PROVE  Good(s2, pos) /\ DueRun(s2, pos) /\ s2.fault = sc.fault /\ s2.cnt = sc.cnt
         /\ \A e \in EC : s2.count[e] = sc.count[e]
<1>1. /\ Types(On(sc), sc.cnt, sc.count, pos) /\ Time \in Lists /\ Time \notin EC /\ EC \subseteq Lists
      /\ sc.count \in [Lists -> Nat] /\ On(sc)[Time] \subseteq Task /\ NULL \notin Task
      /\ \A l \in Lists : \A m \in Lists \ {l} : On(sc)[l] \cap On(sc)[m] = {}
  BY SoundTypes, TaskingAssumption
<1>2. Sound(s2) /\ s2.cnt = sc.cnt /\ s2.fault = sc.fault BY DEF Dispatched
<1>3. CASE On(sc)[Time] = {}
  <2>1. s2.cur = NULL /\ On(s2) = On(sc) /\ s2.count = sc.count BY <1>3 DEF Dispatched
  <2>2. Good(s2, pos) BY <1>2, <2>1 DEF Good
  <2> QED BY <1>1, <1>2, <2>1, <2>2 DEF DueRun
<1>4. CASE On(sc)[Time] # {}
  <2> DEFINE c == s2.cur
  <2>1. /\ c \in On(sc)[Time] /\ On(s2) = [On(sc) EXCEPT ![Time] = @ \ {c}]
        /\ s2.count = [sc.count EXCEPT ![Time] = sc.cnt[c]]
    BY <1>4 DEF Dispatched
  <2>2. \A m \in EC : c \notin On(sc)[m] BY <2>1, <1>1
  <2>3. /\ Placed(On(s2), sc.cnt, s2.count, c, pos)
        /\ (pos[c].l = Time /\ pos[c].k = "run") => s2.count[Time] = pos[c].v
    <3>1. On(s2) = Minus(On(sc), Time, c) /\ s2.count = With(sc.count, Time, sc.cnt[c]) BY <2>1 DEF Minus, With
    <3>2. c \in On(sc)[Time] BY <2>1
    <3>3. Types(On(sc), sc.cnt, sc.count, pos) /\ Placed(On(sc), sc.cnt, sc.count, NULL, pos) BY <1>1
    <3> HIDE DEF c
    <3> QED BY ONLY <2>2, <3>1, <3>2, <3>3, PlacedDispatch
  <2>4. Good(s2, pos) BY <1>2, <2>3 DEF Good
  <2>5. s2.count[Time] = sc.cnt[c] /\ \A e \in EC : s2.count[e] = sc.count[e] BY <2>1, <1>1
  <2>6. DueRun(s2, pos) BY <1>2, <2>3, <2>5 DEF DueRun
  <2> QED BY <1>2, <2>4, <2>5, <2>6
<1> QED BY <1>3, <1>4

\* find_next_task.
LEMMA GoodFindNext ==
  ASSUME NEW sc, NEW pos, Good(sc, pos), sc.cur \in Task, NEW l \in Lists, NEW v \in Nat,
         IF l = Time THEN v >= sc.count[Time] ELSE v > sc.count[l], NEW a, Suspends(a, l, v),
         NEW pos2, pos2 = [pos EXCEPT ![sc.cur] = a]
  PROVE  /\ Switched(FindNextTask(sc, l, v), sc, pos2)
         /\ DueRun(FindNextTask(sc, l, v), pos2) /\ FindNextTask(sc, l, v).cnt[sc.cur] = v
<1> DEFINE s1 == SaveCurrent(sc, l, v)
           s2 == FindNextTask(sc, l, v)
           c  == sc.cur
<1>1. /\ Sound(sc) /\ pos \in [Task -> Places] /\ Placed(On(sc), sc.cnt, sc.count, c, pos)
      /\ \A m \in Lists : sc.cur \notin On(sc)[m]
  BY DEF Good, Placed
<1>2. /\ Sound(s1) /\ On(s1) = [On(sc) EXCEPT ![l] = @ \cup {c}]
      /\ s1.cnt = [sc.cnt EXCEPT ![c] = v] /\ s1.count = sc.count /\ s1.fault = sc.fault
      /\ Dispatched(s2, s1)
  BY <1>1, FindNextSound
<1>3. Types(On(sc), sc.cnt, sc.count, pos) /\ sc.cnt \in [Task -> Nat] BY <1>1, SoundTypes
<1>3a. c \in Task /\ pos2 = [pos EXCEPT ![c] = a] OBVIOUS
<1> HIDE DEF s1, s2, c
<1>4. Placed(On(s1), s1.cnt, s1.count, NULL, pos2)
  <2>1. On(s1) = Plus(On(sc), l, c) /\ s1.cnt = With(sc.cnt, c, v) /\ pos2 = With(pos, c, a)
    BY <1>2, <1>3a DEF Plus, With
  <2>2. Types(On(sc), sc.cnt, sc.count, pos) /\ Placed(On(sc), sc.cnt, sc.count, c, pos) BY <1>1, <1>3
  <2>3. c \in Task /\ l \in Lists /\ v \in Nat /\ Suspends(a, l, v) BY <1>3a
  <2>4. Placed(On(s1), s1.cnt, sc.count, NULL, pos2) BY ONLY <2>1, <2>2, <2>3, PlacedSuspend
  <2> QED BY <2>4, <1>2
<1>5. pos2 \in [Task -> Places] BY <1>1, <1>3a DEF Suspends
<1>6. /\ Good(s2, pos2) /\ DueRun(s2, pos2) /\ s2.fault = s1.fault /\ s2.cnt = s1.cnt
      /\ \A e \in EC : s2.count[e] = s1.count[e]
  <2>1. Sound(s1) /\ Dispatched(s2, s1) BY <1>2
  <2> QED BY ONLY <2>1, <1>4, <1>5, GoodDispatch
<1>7. s2.cnt[c] = v /\ \A t \in Task \ {c} : s2.cnt[t] = sc.cnt[t] BY <1>2, <1>3, <1>3a, <1>6
<1>8. Switched(s2, sc, pos2) BY <1>2, <1>6, <1>7 DEF Switched, c
<1> QED BY <1>6, <1>7, <1>8 DEF s2, c

\* The running task goes on.
LEMMA GoodSame ==
  ASSUME NEW sc, NEW pos, Good(sc, pos), sc.cur \in Task, NEW a \in Places, a.k \notin Gone,
         a.l \in EC => sc.count[a.l] >= a.v, NEW pos2, pos2 = [pos EXCEPT ![sc.cur] = a]
  PROVE  Good(sc, pos2) /\ Switched(sc, sc, pos2)
<1>1. Sound(sc) /\ pos \in [Task -> Places] /\ Placed(On(sc), sc.cnt, sc.count, sc.cur, pos) BY DEF Good
<1>2. Types(On(sc), sc.cnt, sc.count, pos) BY <1>1, SoundTypes
<1>3. Placed(On(sc), sc.cnt, sc.count, sc.cur, pos2) BY <1>1, <1>2, PlacedSame
<1>4. Good(sc, pos2) BY <1>1, <1>3 DEF Good
<1> QED BY <1>4 DEF Switched

\* await.
LEMMA GoodAwait ==
  ASSUME NEW sc, NEW pos, Good(sc, pos), sc.cur \in Task, NEW l \in Lists, NEW v \in Nat,
         NEW a, Suspends(a, l, v), NEW pos2, pos2 = [pos EXCEPT ![sc.cur] = a]
  PROVE  LET s2 == Await(sc, l, v)
         IN  /\ Switched(s2, sc, pos2)
             /\ IF s2.cur = sc.cur THEN l = Time => s2.count[Time] >= v ELSE s2.cnt[sc.cur] = v
<1> DEFINE s2 == Await(sc, l, v)
<1>1. Sound(sc) /\ pos \in [Task -> Places] BY DEF Good
<1>2. sc.count \in [Lists -> Nat] BY <1>1, SoundTypes
<1>3. CASE sc.count[l] >= v
  <2>1. s2 = sc BY <1>3 DEF Await
  <2>2. Switched(sc, sc, pos2) BY <1>3, GoodSame DEF Suspends
  <2> QED BY <2>1, <2>2, <1>3
<1>4. CASE ~(sc.count[l] >= v)
  <2>1. s2 = FindNextTask(sc, l, v) BY <1>4 DEF Await
  <2>2. IF l = Time THEN v >= sc.count[Time] ELSE v > sc.count[l] BY <1>2, <1>4
  <2>3. Switched(s2, sc, pos2) /\ DueRun(s2, pos2) /\ s2.cnt[sc.cur] = v
    <3> HIDE DEF s2
    <3> QED BY <2>1, <2>2, GoodFindNext
  <2>4. s2.cur = sc.cur => s2.count[Time] = v
    <3> HIDE DEF s2
    <3> QED BY <2>3 DEF DueRun
  <2> QED BY <2>3, <2>4
<1> QED BY <1>3, <1>4

\* epause.
LEMMA GoodEpause ==
  ASSUME NEW sc, NEW pos, Good(sc, pos), sc.cur \in Task, NEW n \in Nat,
         NEW a, Suspends(a, Time, sc.count[Time] + n), NEW pos2, pos2 = [pos EXCEPT ![sc.cur] = a]
  PROVE  Switched(Epause(sc, n), sc, pos2)
<1> DEFINE h == sc.head[Time]
           v == sc.count[Time] + n
           s2 == Epause(sc, n)
           s1 == [sc EXCEPT !.count[Time] = v]
<1>1. Sound(sc) /\ pos \in [Task -> Places] /\ Placed(On(sc), sc.cnt, sc.count, sc.cur, pos) BY DEF Good
<1>2. /\ sc.count \in [Lists -> Nat] /\ Time \in Lists /\ sc.cnt \in [Task -> Nat] /\ Time \notin EC
      /\ EC \subseteq Lists /\ Types(On(sc), sc.cnt, sc.count, pos) /\ On(sc)[Time] \subseteq Task
      /\ NULL \notin Task
  BY <1>1, SoundTypes, TaskingAssumption
<1>3. v \in Nat /\ v >= sc.count[Time] BY <1>2
<1>4. CASE h = NULL \/ v <= sc.cnt[h]
  <2>1. s2 = s1 BY <1>4 DEF Epause
  <2>2. /\ s1 \in Schedulers /\ s1.head = sc.head /\ s1.hint = sc.hint /\ s1.next = sc.next /\ s1.cnt = sc.cnt
        /\ s1.cur = sc.cur /\ s1.fault = sc.fault /\ s1.count = [sc.count EXCEPT ![Time] = v]
    <3>1. sc \in Schedulers BY <1>1 DEF Sound
    <3> HIDE DEF v
    <3> QED BY <3>1, <1>2, <1>3 DEF Schedulers
  <2>3. s1.count[Time] = v /\ \A e \in EC : s1.count[e] = sc.count[e] BY <2>2, <1>2
  <2>4. \A l \in Lists : \A t \in On(sc)[l] :
          IF l = Time THEN sc.cnt[t] >= v ELSE sc.cnt[t] > s1.count[l]
    <3> SUFFICES ASSUME NEW l \in Lists, NEW t \in On(sc)[l]
                 PROVE IF l = Time THEN sc.cnt[t] >= v ELSE sc.cnt[t] > s1.count[l] OBVIOUS
    <3>1. CASE l = Time
      <4>1. h \in On(sc)[Time] /\ sc.cnt[h] <= sc.cnt[t] BY <3>1, <1>1, SoundLists
      <4>2. v <= sc.cnt[h] BY <4>1, <1>2, <1>4
      <4>3. sc.cnt[h] \in Nat /\ sc.cnt[t] \in Nat BY <4>1, <3>1, <1>2
      <4> HIDE DEF v, h
      <4> QED BY <3>1, <4>1, <4>2, <4>3, <1>3
    <3>2. CASE l # Time
      <4>1. sc.cnt[t] > sc.count[l] BY <3>2, <1>1, SoundLists
      <4>2. l \in EC BY <3>2 DEF Lists
      <4> QED BY <3>2, <4>1, <4>2, <2>3
    <3> QED BY <3>1, <3>2
  <2> HIDE DEF s1, v, s2
  <2>5. Sound(s1) /\ On(s1) = On(sc)
    <3>1. s1.hint \in {sc.hint, NULL} BY <2>2
    <3>2. \A l \in Lists : \A t \in On(sc)[l] :
             /\ s1.next[t] = sc.next[t] /\ s1.cnt[t] = sc.cnt[t]
             /\ IF l = Time THEN sc.cnt[t] >= s1.count[Time] ELSE sc.cnt[t] > s1.count[l]
      BY <2>2, <2>3, <2>4
    <3>3. s1 \in Schedulers /\ s1.head = sc.head BY <2>2
    <3> QED BY <3>1, <3>2, <3>3, <1>1, SameSound
  <2>6. Placed(On(sc), sc.cnt, s1.count, sc.cur, pos2)
    <3>1. a \in Places /\ a.k \notin Gone /\ a.l \notin EC BY <1>2 DEF Suspends
    <3> QED BY <3>1, <1>1, <1>2, <2>3, PlacedSame
  <2>7. pos2 \in [Task -> Places] BY <1>1 DEF Suspends
  <2>8. Good(s1, pos2) BY <2>2, <2>5, <2>6, <2>7 DEF Good
  <2> QED BY <2>1, <2>2, <2>3, <2>8 DEF Switched, s2
<1>5. CASE ~(h = NULL \/ v <= sc.cnt[h])
  <2>1. s2 = Await(sc, Time, v) BY <1>5 DEF Epause
  <2> HIDE DEF v, s2, h
  <2>2. Suspends(a, Time, v) BY DEF v
  <2>3. Switched(s2, sc, pos2) BY <1>2, <1>3, <2>1, <2>2, GoodAwait
  <2> QED BY <2>3 DEF s2
<1> QED BY <1>4, <1>5

\* advance.
LEMMA GoodAdvance ==
  ASSUME NEW sc, NEW pos, Good(sc, pos), sc.cur \in Task, NEW l \in EC
  PROVE  LET s2 == Advance(sc, l)
         IN  /\ Good(s2, pos) /\ s2.cur = sc.cur /\ s2.fault = sc.fault
             /\ s2.count[l] = sc.count[l] + 1 /\ \A e \in Lists \ {l} : s2.count[e] = sc.count[e]
             /\ \A t \in Task : t \notin On(sc)[l] => s2.cnt[t] = sc.cnt[t]
<1> DEFINE s2 == Advance(sc, l)
           R  == {t \in On(sc)[l] : sc.cnt[t] = sc.count[l] + 1}
           c  == sc.cur
<1>1. Sound(sc) /\ pos \in [Task -> Places] /\ Placed(On(sc), sc.cnt, sc.count, c, pos) BY DEF Good
<1>2. /\ Types(On(sc), sc.cnt, sc.count, pos) /\ Time \in Lists /\ l \in Lists /\ l # Time
      /\ sc.count \in [Lists -> Nat] /\ sc.cnt \in [Task -> Nat] /\ On(sc)[Time] \cap On(sc)[l] = {}
  BY <1>1, SoundTypes
<1>3. /\ Sound(s2) /\ On(s2) = Taken(On(sc), l, R) /\ DueNow(s2, sc, R)
      /\ s2.count = [sc.count EXCEPT ![l] = @ + 1] /\ s2.cur = c /\ s2.fault = sc.fault
  BY <1>1, AdvanceSound
<1>4. R \in SUBSET On(sc)[l] /\ (\A t \in R : sc.cnt[t] = sc.count[l] + 1) OBVIOUS
<1>4a. c \in Task OBVIOUS
<1> HIDE DEF s2, R, c
<1>5. \A t \in Task : s2.cnt[t] = IF t \in R THEN sc.count[Time] ELSE sc.cnt[t] BY <1>3 DEF DueNow
<1>6. s2.cnt \in [Task -> Nat] BY <1>3, SoundTypes DEF Sound, Schedulers
<1>7. Placed(On(s2), s2.cnt, s2.count, c, pos)
  BY ONLY <1>1, <1>2, <1>3, <1>4, <1>4a, <1>5, <1>6, l \in EC, PlacedAdvance
<1>8. Good(s2, pos) BY <1>1, <1>3, <1>7 DEF Good
<1>9. s2.count[l] = sc.count[l] + 1 /\ \A e \in Lists \ {l} : s2.count[e] = sc.count[e] BY <1>2, <1>3
<1>10. \A t \in Task : t \notin On(sc)[l] => s2.cnt[t] = sc.cnt[t] BY <1>4, <1>5
<1> QED BY <1>3, <1>8, <1>9, <1>10 DEF s2, c

\* CreateTask.
LEMMA GoodCreate ==
  ASSUME NEW sc, NEW pos, Good(sc, pos), sc.cur \in Task, NEW t \in Task, pos[t].k = "absent",
         NEW pos2, pos2 = With(pos, t, Created)
  PROVE  LET s2 == CreateTask(sc, t)
         IN  /\ Good(s2, pos2) /\ s2.cur = sc.cur /\ s2.fault = sc.fault /\ s2.count = sc.count
             /\ t # sc.cur /\ \A u \in Task \ {t} : s2.cnt[u] = sc.cnt[u]
<1> DEFINE s2 == CreateTask(sc, t)
           c  == sc.cur
<1>1. Sound(sc) /\ pos \in [Task -> Places] /\ Placed(On(sc), sc.cnt, sc.count, c, pos) BY DEF Good
<1>2. /\ Types(On(sc), sc.cnt, sc.count, pos) /\ Time \in Lists
      /\ sc.count \in [Lists -> Nat] /\ sc.cnt \in [Task -> Nat]
  BY <1>1, SoundTypes
<1>3. t # c /\ \A m \in Lists : t \notin On(sc)[m] BY <1>1 DEF Placed, Gone
<1>4. /\ Sound(s2) /\ On(s2) = [On(sc) EXCEPT ![Time] = @ \cup {t}]
      /\ s2.cnt = [sc.cnt EXCEPT ![t] = sc.count[Time]] /\ s2.count = sc.count
      /\ s2.cur = c /\ s2.fault = sc.fault
  BY <1>1, <1>3, CreateSound
<1>4a. c \in Task OBVIOUS
<1> HIDE DEF s2, c
<1>5. \A u \in Task \ {t} : s2.cnt[u] = sc.cnt[u] BY <1>2, <1>4
<1>6. Placed(On(s2), s2.cnt, sc.count, c, pos2)
  <2>1. pos2 = With(pos, t, Created) /\ On(s2) = Plus(On(sc), Time, t) BY <1>4 DEF Plus
  <2>2. Types(On(sc), sc.cnt, sc.count, pos) /\ Placed(On(sc), sc.cnt, sc.count, c, pos) BY <1>1, <1>2
  <2>3. t \in Task OBVIOUS
  <2> QED BY ONLY <1>3, <1>4a, <1>5, <2>1, <2>2, <2>3, PlacedCreate
<1>7. pos2 \in [Task -> Places]
  <2>1. Created \in Places BY <1>2 DEF Created, Where, Places, Kinds
  <2> QED BY <2>1, <1>1 DEF With
<1>8. Good(s2, pos2) BY <1>1, <1>4, <1>6, <1>7 DEF Good
<1> QED BY <1>3, <1>4, <1>5, <1>8 DEF s2, c

\* A task created and taken off the list again.
LEMMA GoodUndone ==
  ASSUME NEW sc, NEW pos, Good(sc, pos), sc.cur \in Task, NEW t \in Task, pos[t].k = "absent"
  PROVE  LET s2 == RemoveLastTask(CreateTask(sc, t), t)
         IN  /\ Good(s2, pos) /\ s2.cur = sc.cur /\ s2.fault = sc.fault /\ s2.count = sc.count
             /\ t # sc.cur /\ \A u \in Task \ {t} : s2.cnt[u] = sc.cnt[u]
<1> DEFINE s2 == RemoveLastTask(CreateTask(sc, t), t)
           c  == sc.cur
<1>1. Sound(sc) /\ pos \in [Task -> Places] /\ Placed(On(sc), sc.cnt, sc.count, c, pos) BY DEF Good
<1>2. sc.cnt \in [Task -> Nat] /\ Types(On(sc), sc.cnt, sc.count, pos) BY <1>1, SoundTypes
<1>3. t # c /\ \A m \in Lists : t \notin On(sc)[m] BY <1>1 DEF Placed, Gone
<1>4. /\ Sound(s2) /\ On(s2) = On(sc) /\ s2.cnt = [sc.cnt EXCEPT ![t] = sc.count[Time]]
      /\ s2.count = sc.count /\ s2.cur = c /\ s2.fault = sc.fault
  BY <1>1, <1>3, CreateUndone
<1> HIDE DEF s2, c
<1>5. \A u \in Task \ {t} : s2.cnt[u] = sc.cnt[u] BY <1>2, <1>4
<1>6. Placed(On(s2), s2.cnt, s2.count, s2.cur, pos)
  <2>1. Types(On(sc), sc.cnt, sc.count, pos) /\ Placed(On(sc), sc.cnt, sc.count, c, pos) BY <1>1, <1>2
  <2>2. \A l \in Lists : \A u \in On(sc)[l] : s2.cnt[u] = sc.cnt[u] BY <1>2, <1>3, <1>5 DEF Types
  <2>3. Placed(On(sc), s2.cnt, sc.count, c, pos) BY ONLY <2>1, <2>2, PlacedCnt
  <2> QED BY <2>3, <1>4
<1>7. Good(s2, pos) BY <1>1, <1>4, <1>6 DEF Good
<1> QED BY <1>3, <1>4, <1>5, <1>7 DEF s2, c

\* The running task ends and another one is dispatched.
LEMMA GoodFinish ==
  ASSUME NEW sc, NEW pos, Good(sc, pos), sc.cur \in Task, NEW a \in Places, a.k \in Gone,
         NEW pos2, pos2 = [pos EXCEPT ![sc.cur] = a]
  PROVE  Switched(Dispatch(sc), sc, pos2) /\ DueRun(Dispatch(sc), pos2) /\ Dispatch(sc).cnt = sc.cnt
<1> DEFINE s2 == Dispatch(sc)
           c == sc.cur
<1>1. Sound(sc) /\ pos \in [Task -> Places] /\ Placed(On(sc), sc.cnt, sc.count, c, pos) BY DEF Good
<1>2. Types(On(sc), sc.cnt, sc.count, pos) BY <1>1, SoundTypes
<1>3. c \in Task /\ pos2 = With(pos, c, a) BY DEF With
<1>4. Dispatched(s2, sc) BY <1>1, DispatchSound
<1> HIDE DEF s2, c
<1>5. Placed(On(sc), sc.cnt, sc.count, NULL, pos2) BY <1>1, <1>2, <1>3, PlacedGone
<1>6. pos2 \in [Task -> Places] BY <1>1, <1>3 DEF With
<1>7. /\ Good(s2, pos2) /\ DueRun(s2, pos2) /\ s2.fault = sc.fault /\ s2.cnt = sc.cnt
      /\ \A e \in EC : s2.count[e] = sc.count[e]
  <2>1. Sound(sc) /\ Dispatched(s2, sc) BY <1>1, <1>4
  <2> QED BY ONLY <2>1, <1>5, <1>6, GoodDispatch
<1>8. Switched(s2, sc, pos2) BY <1>7 DEF Switched
<1> QED BY <1>7, <1>8 DEF s2

\* future_advance moves the wake-up task.
LEMMA GoodWakeAt ==
  ASSUME NEW pos, Good(s, pos), s.cur \in Task, Wake \in On(s)[Time], NEW v \in Nat, v >= s.count[Time],
         pos[Wake].k # "run"
  PROVE  LET s2 == WakeAt(v)
         IN  /\ Good(s2, pos) /\ s2.cur = s.cur /\ s2.fault = s.fault /\ s2.count = s.count
             /\ s2.cnt[Wake] = v /\ \A u \in Task \ {Wake} : s2.cnt[u] = s.cnt[u]
<1> DEFINE s2 == WakeAt(v)
<1>0. Time \notin EC /\ Lists = EC \cup {Time} BY TaskingAssumption DEF Lists
<1>1. Sound(s) /\ pos \in [Task -> Places] /\ Placed(On(s), s.cnt, s.count, s.cur, pos) BY DEF Good
<1>2. /\ s.cnt \in [Task -> Nat] /\ Wake \in Task
      /\ \A l \in Lists : \A m \in Lists \ {l} : On(s)[l] \cap On(s)[m] = {}
      /\ \A l \in Lists : On(s)[l] \subseteq Task
  BY <1>1, SoundTypes
<1>3. /\ Sound(s2) /\ On(s2) = On(s) /\ s2.cnt = [s.cnt EXCEPT ![Wake] = v]
      /\ s2.count = s.count /\ s2.cur = s.cur /\ s2.fault = s.fault
  BY <1>1, WakeAtSound
<1> HIDE DEF s2
<1>4. s2.cnt[Wake] = v /\ \A u \in Task \ {Wake} : s2.cnt[u] = s.cnt[u] BY <1>2, <1>3
<1>5. \A l \in EC : Wake \notin On(s)[l] BY <1>0, <1>2
<1>6. \A l \in EC : \A t \in On(s)[l] : pos[t].l = l /\ pos[t].v = s2.cnt[t]
  BY <1>0, <1>1, <1>2, <1>4, <1>5 DEF Placed
<1>7. \A t \in On(s)[Time] : (pos[t].l = Time /\ pos[t].k = "run") => s2.cnt[t] = pos[t].v
  BY <1>0, <1>1, <1>2, <1>4 DEF Placed
<1>8. Placed(On(s), s2.cnt, s.count, s.cur, pos) BY <1>1, <1>6, <1>7 DEF Placed
<1>9. Good(s2, pos) BY <1>1, <1>3, <1>8 DEF Good
<1> QED BY <1>3, <1>4, <1>9 DEF s2

\* A process that begins: the first task main created runs.
LEMMA GoodFresh ==
  ASSUME scene \in Scenarios
  PROVE  /\ Good(Fresh, Begin) /\ Fresh.fault = "" /\ Fresh.count[PutEC] = Size /\ Fresh.count[GetEC] = 0
         /\ Fresh.cur = Boot[1]
<1>1. PICK sc : /\ Fresh = Dispatch(sc) /\ Sound(sc) /\ sc.fault = ""
                /\ On(sc) = [l \in Lists |-> IF l = Time THEN Booted ELSE {}]
                /\ sc.cnt = [t \in Task |-> 0]
                /\ sc.count = [l \in Lists |-> IF l = PutEC THEN Size ELSE 0]
                /\ Booted \subseteq Task /\ Booted # {}
  BY FreshSound
<1>2. /\ Time \in Lists /\ Time \notin EC /\ EC \subseteq Lists /\ PutEC \in EC /\ GetEC \in EC
      /\ PutEC # GetEC /\ NULL \notin Task
  BY TaskingAssumption, SchedulingAssumption DEF Lists
<1>3. Begin \in [Task -> Places] /\ \A t \in Task : Begin[t] = IF t \in Booted THEN Created ELSE Absent
  <2>1. Created \in Places /\ Absent \in Places
    BY <1>2 DEF Created, Absent, Where, Places, Kinds, Gone
  <2> QED BY <2>1 DEF Begin
<1>4. /\ Created.k \notin Gone /\ Absent.k \in Gone /\ Created.l = Time /\ Absent.l = Time /\ Created.k # "run"
  BY DEF Created, Absent, Where, Gone
<1>5. \A l \in Lists : On(sc)[l] = IF l = Time THEN Booted ELSE {} BY <1>1
<1>6. Placed(On(sc), sc.cnt, sc.count, NULL, Begin)
  <2>1. \A l \in Lists : NULL \notin On(sc)[l] BY <1>1, <1>2, <1>5
  <2>2. \A t \in Task : Begin[t].k \notin Gone <=> t = NULL \/ \E l \in Lists : t \in On(sc)[l]
    BY <1>1, <1>2, <1>3, <1>4, <1>5
  <2>3. \A l \in EC : \A t \in On(sc)[l] : FALSE BY <1>2, <1>5
  <2>4. \A t \in On(sc)[Time] : t \in Task /\ Begin[t] = Created BY <1>1, <1>2, <1>3, <1>5
  <2> QED BY <1>2, <1>4, <2>1, <2>2, <2>3, <2>4 DEF Placed
<1>7. Dispatched(Fresh, sc) BY <1>1, DispatchSound
<1>8. Good(Fresh, Begin) /\ Fresh.fault = sc.fault /\ \A e \in EC : Fresh.count[e] = sc.count[e]
  <2>1. Sound(sc) BY <1>1
  <2>2. Begin \in [Task -> Places] BY <1>3
  <2> QED BY ONLY <1>6, <1>7, <2>1, <2>2, GoodDispatch
<1>9. sc.count[PutEC] = Size /\ sc.count[GetEC] = 0 BY <1>1, <1>2
<1>10. Fresh.cur = Boot[1]
  <2>1. Boot[1] # NULL
    <3>1. Boot \in Seq(Task) \ {<<>>} BY ScenarioAssumption DEF Boot
    <3> QED BY <3>1, <1>2
  <2> QED BY <1>2, <2>1 DEF Fresh, Dispatch
<1> QED BY <1>1, <1>2, <1>8, <1>9, <1>10

\* The process restarted from a checkpoint goes on where it was.
LEMMA GoodRestored ==
  ASSUME s \in Schedulers, FileSound, s.hint \in Range(File.lists[Time].tasks) \cup {NULL},
         NEW pos2, pos2 = [File.at EXCEPT ![Chk] = Finished]
  PROVE  LET s2 == Dispatch(Restored(s))
         IN  /\ Good(s2, pos2) /\ DueRun(s2, pos2) /\ s2.fault = s.fault
             /\ \A e \in EC : s2.count[e] = FileCounts[e]
<1> DEFINE s1 == Restored(s)
           on == OnLists(FileLists)
           s2 == Dispatch(s1)
<1>1. /\ Sound(s1) /\ On(s1) = on /\ s1.count = FileCounts /\ s1.fault = s.fault
      /\ \A l \in Lists : \A t \in on[l] : s1.cnt[t] = File.cnt[t]
  BY RestoredSound
<1>2. /\ File.cnt \in [Task -> Nat] /\ FileCounts \in [Lists -> Nat] /\ File.at \in [Task -> Places]
      /\ FileLists \in [Lists -> Seq(Task)] /\ Placed(on, File.cnt, FileCounts, Chk, File.at)
  BY DEF FileSound, Arranged, FileLists, FileCounts
<1>3. Types(on, File.cnt, FileCounts, File.at)
  <2>1. \A l \in Lists : Range(FileLists[l]) \subseteq Task BY <1>2 DEF Range
  <2>2. on \in [Lists -> SUBSET Task] BY <2>1 DEF OnLists
  <2> QED BY <1>2, <2>2 DEF Types
<1>4. Chk \in Task /\ Finished.k \in Gone /\ Finished \in Places
  BY SchedulingAssumption DEF Finished, Where, Gone, Places, Kinds, Lists
<1>4a. pos2 = With(File.at, Chk, Finished) /\ pos2 \in [Task -> Places] BY <1>2, <1>4 DEF With
<1>5. Dispatched(s2, s1) BY <1>1, DispatchSound
<1> HIDE DEF s1, s2, on
<1>6. Placed(on, File.cnt, FileCounts, NULL, pos2)
  <2>1. Placed(on, File.cnt, FileCounts, Chk, File.at) BY <1>2
  <2> QED BY ONLY <1>3, <1>4, <1>4a, <2>1, PlacedGone
<1>7. Placed(on, s1.cnt, FileCounts, NULL, pos2)
  <2>1. Types(on, File.cnt, FileCounts, pos2) BY <1>3, <1>4a DEF Types
  <2>2. \A l \in Lists : \A t \in on[l] : s1.cnt[t] = File.cnt[t] BY <1>1
  <2> QED BY ONLY <1>6, <2>1, <2>2, PlacedCnt
<1>8. Placed(On(s1), s1.cnt, s1.count, NULL, pos2) BY <1>1, <1>7
<1>9. /\ Good(s2, pos2) /\ DueRun(s2, pos2) /\ s2.fault = s1.fault /\ s2.cnt = s1.cnt
      /\ \A e \in EC : s2.count[e] = s1.count[e]
  <2>1. Sound(s1) /\ pos2 \in [Task -> Places] BY <1>1, <1>4a
  <2> QED BY ONLY <1>5, <1>8, <2>1, GoodDispatch
<1> QED BY <1>1, <1>9 DEF s1, s2


----------------------------------------------------------------------------
(* Remainders.                                                             *)

\* A number is its quotient times the divisor, plus the remainder.
LEMMA ModParts == ASSUME NEW a \in Int, NEW n \in Nat \ {0}
  PROVE a % n \in 0..(n - 1) /\ a \div n \in Int /\ a = n * (a \div n) + (a % n)
OBVIOUS

\* There is only one such remainder.
LEMMA ModIs ==
  ASSUME NEW a \in Int, NEW n \in Nat \ {0}, NEW x \in Int, NEW r \in 0..(n - 1), a = n * x + r
  PROVE  a % n = r
<1>1. \A m \in Nat \ {0} : \A u, v \in Int : \A i, j \in 0..(m - 1) : m * u + i = m * v + j => u = v
  OBVIOUS
<1>2. a % n \in 0..(n - 1) /\ a \div n \in Int /\ a = n * (a \div n) + (a % n) BY ModParts
<1>3. x = a \div n
  <2> DEFINE y == a \div n
             b == a % n
  <2> HIDE DEF y, b
  <2>1. y \in Int /\ b \in 0..(n - 1) /\ n * x + r = n * y + b BY <1>2 DEF y, b
  <2>2. x = y BY <1>1, <2>1
  <2> QED BY <2>2 DEF y
<1> QED BY <1>2, <1>3

\* Numbers less than n apart have different remainders.
LEMMA ModApart ==
  ASSUME NEW a \in Int, NEW b \in Int, NEW n \in Nat \ {0}, a < b, b - a < n
  PROVE  a % n # b % n
<1> SUFFICES ASSUME a % n = b % n PROVE FALSE OBVIOUS
<1> DEFINE x == a \div n
           r == a % n
           d == b - a
<1>1. x \in Int /\ r \in 0..(n - 1) /\ a = n * x + r BY ModParts
<1>2. d \in 1..(n - 1) /\ b = a + d OBVIOUS
<1>3. b % n = r OBVIOUS
<1> HIDE DEF x, r, d
<1>4. CASE r + d <= n - 1
  <2>1. r + d \in 0..(n - 1) /\ b = n * x + (r + d) BY <1>1, <1>2, <1>4
  <2>2. b % n = r + d BY <2>1, <1>1, ModIs
  <2> QED BY <2>2, <1>1, <1>2, <1>3
<1>5. CASE ~(r + d <= n - 1)
  <2>1. r + d - n \in 0..(n - 1) BY <1>1, <1>2, <1>5
  <2>2. n * (x + 1) = n * x + n BY <1>1
  <2>3. b = n * (x + 1) + (r + d - n) BY <2>2, <1>1, <1>2
  <2>4. b % n = r + d - n BY <2>1, <2>3, <1>1, ModIs
  <2> QED BY <2>4, <1>1, <1>2, <1>3
<1> QED BY <1>4, <1>5

\* Counting on around the ring.
LEMMA ModNext == ASSUME NEW a \in Nat, NEW n \in Nat \ {0} PROVE (a + 1) % n = ((a % n) + 1) % n
<1> DEFINE x == a \div n
           r == a % n
<1>1. x \in Int /\ r \in 0..(n - 1) /\ a = n * x + r BY ModParts
<1> SUFFICES (a + 1) % n = (r + 1) % n OBVIOUS
<1> HIDE DEF x, r
<1>2. CASE r + 1 <= n - 1
  <2>1. (a + 1) % n = r + 1
    <3>1. r + 1 \in 0..(n - 1) /\ a + 1 \in Int /\ a + 1 = n * x + (r + 1) BY <1>1, <1>2
    <3> QED BY <3>1, <1>1, ModIs
  <2>2. (r + 1) % n = r + 1
    <3>1. r + 1 \in 0..(n - 1) /\ r + 1 \in Int /\ r + 1 = n * 0 + (r + 1) BY <1>1, <1>2
    <3> QED BY <3>1, ModIs
  <2> QED BY <2>1, <2>2
<1>3. CASE ~(r + 1 <= n - 1)
  <2>1. (a + 1) % n = 0
    <3>1. r + 1 = n BY <1>1, <1>3
    <3>2. n * (x + 1) = n * x + n BY <1>1
    <3>3. 0 \in 0..(n - 1) /\ a + 1 \in Int /\ x + 1 \in Int /\ a + 1 = n * (x + 1) + 0 BY <1>1, <3>1, <3>2
    <3> QED BY <3>3, ModIs
  <2>2. (r + 1) % n = 0
    <3>1. 0 \in 0..(n - 1) /\ r + 1 \in Int /\ r + 1 = n * 1 + 0 BY <1>1, <1>3
    <3> QED BY <3>1, ModIs
  <2> QED BY <2>1, <2>2
<1> QED BY <1>2, <1>3

----------------------------------------------------------------------------
(* Tickets and slots of the queue.                                         *)

\* One half of Tickets: of the n tickets drawn by calls named k those served
\* are done many, none above the bound low.
Side(pos, k, n, low, done) ==
  /\ n \in Nat /\ low \in Nat
  /\ \A v, w \in InCall(pos, k) : pos[w].v \in 1..n /\ (v # w => pos[v].v # pos[w].v)
  /\ done = Cardinality(Served(pos, k, n)) /\ Served(pos, k, n) \subseteq 1..low

\* Tickets, taken apart into what it says of Put and of Get.
LEMMA TicketSides ==
  ASSUME NEW pos, NEW count \in [Lists -> Nat], NEW p, NEW g
  PROVE  Tickets(pos, count, p, g) <=> /\ Side(pos, "put", p, count[PutEC], count[GetEC])
                                       /\ Side(pos, "get", g, count[GetEC], count[PutEC] - Size)
<1>1. count[PutEC] \in Nat /\ count[GetEC] \in Nat /\ Size \in Nat BY SchedulingAssumption DEF Lists
<1>2. ASSUME NEW k, NEW n \in Nat PROVE Cardinality(Served(pos, k, n)) \in Nat
  <2>1. IsFiniteSet(1..n) BY FS_Interval
  <2>2. IsFiniteSet(Served(pos, k, n)) BY <2>1, FS_Subset DEF Served
  <2> QED BY <2>2, FS_CardinalityType
<1>3. ASSUME Tickets(pos, count, p, g)
      PROVE  /\ Side(pos, "put", p, count[PutEC], count[GetEC])
             /\ Side(pos, "get", g, count[GetEC], count[PutEC] - Size)
  <2>1. Side(pos, "put", p, count[PutEC], count[GetEC]) BY <1>1, <1>3 DEF Tickets, Side
  <2>2. g \in Nat /\ count[PutEC] = Size + Cardinality(Served(pos, "get", g)) BY <1>3 DEF Tickets
  <2>3. count[PutEC] - Size = Cardinality(Served(pos, "get", g))
    <3>1. Cardinality(Served(pos, "get", g)) \in Nat BY <1>2, <2>2
    <3> QED BY ONLY <3>1, <2>2, <1>1
  <2>4. Side(pos, "get", g, count[GetEC], count[PutEC] - Size) BY <1>1, <1>3, <2>3 DEF Tickets, Side
  <2> QED BY <2>1, <2>4
<1>4. ASSUME Side(pos, "put", p, count[PutEC], count[GetEC]),
             Side(pos, "get", g, count[GetEC], count[PutEC] - Size)
      PROVE  Tickets(pos, count, p, g)
  <2>1. p \in Nat /\ g \in Nat BY <1>4 DEF Side
  <2>2. count[PutEC] = Size + Cardinality(Served(pos, "get", g))
    <3>1. Cardinality(Served(pos, "get", g)) \in Nat BY <1>2, <2>1
    <3>2. count[PutEC] - Size = Cardinality(Served(pos, "get", g)) BY <1>4 DEF Side
    <3> QED BY ONLY <3>1, <3>2, <1>1
  <2> QED BY <1>4, <2>1, <2>2 DEF Tickets, Side
<1> QED BY <1>3, <1>4

\* The set of tickets served is finite; serving one more adds one.
LEMMA ServedMore ==
  ASSUME NEW n \in Nat, NEW T \in SUBSET (1..n), NEW t \in 1..n
  PROVE  /\ Cardinality(T) \in Nat /\ IsFiniteSet(T)
         /\ t \notin T => Cardinality(T \cup {t}) = Cardinality(T) + 1
<1>1. IsFiniteSet(1..n) BY FS_Interval
<1>2. IsFiniteSet(T) BY <1>1, FS_Subset
<1>3. Cardinality(T) \in Nat BY <1>2, FS_CardinalityType
<1>4. t \notin T => Cardinality(T \cup {t}) = Cardinality(T) + 1 BY <1>2, FS_AddElement
<1> QED BY <1>2, <1>3, <1>4

\* Callers keep their tickets.
LEMMA SideSame ==
  ASSUME NEW pos, NEW k, NEW n, NEW low, NEW done, Side(pos, k, n, low, done),
         NEW pos2, \A w \in Workers : /\ pos2[w].k = k <=> pos[w].k = k
                                      /\ pos[w].k = k => pos2[w].v = pos[w].v,
         NEW low2 \in Nat, low2 >= low
  PROVE  Side(pos2, k, n, low2, done) /\ Served(pos2, k, n) = Served(pos, k, n)
<1>1. InCall(pos2, k) = InCall(pos, k) /\ InCall(pos, k) \subseteq Workers BY DEF InCall
<1>2. \A w \in InCall(pos, k) : pos2[w].v = pos[w].v BY DEF InCall
<1>3. Served(pos2, k, n) = Served(pos, k, n) BY <1>1, <1>2 DEF Served
<1>4. \A v, w \in InCall(pos2, k) : pos2[w].v \in 1..n /\ (v # w => pos2[v].v # pos2[w].v)
  BY <1>1, <1>2 DEF Side
<1>5. Served(pos2, k, n) \subseteq 1..low2 BY <1>3 DEF Side
<1> QED BY <1>3, <1>4, <1>5 DEF Side

\* A caller draws a ticket and waits.
LEMMA SideDraw ==
  ASSUME NEW pos, NEW k, NEW n, NEW low, NEW done, Side(pos, k, n, low, done),
         NEW w \in Workers, pos[w].k # k, NEW pos2, \A x \in Workers \ {w} : pos2[x] = pos[x],
         pos2[w].k = k, pos2[w].v = n + 1
  PROVE  Side(pos2, k, n + 1, low, done) /\ Served(pos2, k, n + 1) = Served(pos, k, n)
<1>0. n \in Nat /\ low \in Nat BY DEF Side
<1>1. InCall(pos2, k) = InCall(pos, k) \cup {w} /\ w \notin InCall(pos, k) BY DEF InCall
<1>2. \A x \in InCall(pos, k) : pos2[x] = pos[x] /\ pos[x].v \in 1..n BY DEF InCall, Side
<1>3. {pos2[x].v : x \in InCall(pos2, k)} = {pos[x].v : x \in InCall(pos, k)} \cup {n + 1}
  BY <1>1, <1>2
<1>4. Served(pos2, k, n + 1) = Served(pos, k, n) BY <1>0, <1>3 DEF Served
<1>5. \A x, y \in InCall(pos2, k) : pos2[y].v \in 1..(n + 1) /\ (x # y => pos2[x].v # pos2[y].v)
  <2> SUFFICES ASSUME NEW x \in InCall(pos2, k), NEW y \in InCall(pos2, k)
               PROVE pos2[y].v \in 1..(n + 1) /\ (x # y => pos2[x].v # pos2[y].v) OBVIOUS
  <2>1. \A u, v \in InCall(pos, k) : pos[v].v \in 1..n /\ (u # v => pos[u].v # pos[v].v) BY DEF Side
  <2>2. x = w \/ (x \in InCall(pos, k) /\ pos2[x] = pos[x]) BY <1>1, <1>2
  <2>3. y = w \/ (y \in InCall(pos, k) /\ pos2[y] = pos[y]) BY <1>1, <1>2
  <2> QED BY <1>0, <2>1, <2>2, <2>3
<1> QED BY <1>0, <1>4, <1>5 DEF Side

\* A caller draws a ticket and is served at once.
LEMMA SideAtOnce ==
  ASSUME NEW pos, NEW k, NEW n, NEW low, NEW done, Side(pos, k, n, low, done),
         NEW w \in Workers, pos[w].k # k, NEW pos2, \A x \in Workers \ {w} : pos2[x] = pos[x],
         pos2[w].k # k, n + 1 <= low
  PROVE  /\ Side(pos2, k, n + 1, low, done + 1)
         /\ Served(pos2, k, n + 1) = Served(pos, k, n) \cup {n + 1}
<1>0. n \in Nat /\ low \in Nat /\ Served(pos, k, n) \subseteq 1..low /\ done = Cardinality(Served(pos, k, n))
  BY DEF Side
<1>1. InCall(pos2, k) = InCall(pos, k) BY DEF InCall
<1>2. \A x \in InCall(pos, k) : pos2[x] = pos[x] /\ pos[x].v \in 1..n BY DEF InCall, Side
<1>3. {pos2[x].v : x \in InCall(pos2, k)} = {pos[x].v : x \in InCall(pos, k)} BY <1>1, <1>2
<1>4. n + 1 \notin {pos[x].v : x \in InCall(pos, k)} BY <1>0, <1>2
<1>5. Served(pos2, k, n + 1) = Served(pos, k, n) \cup {n + 1}
  <2> DEFINE C == {pos[x].v : x \in InCall(pos, k)}
  <2>1. Served(pos2, k, n + 1) = (1..(n + 1)) \ C /\ Served(pos, k, n) = (1..n) \ C BY <1>3 DEF Served
  <2>2. (1..(n + 1)) = (1..n) \cup {n + 1} BY <1>0
  <2> HIDE DEF C
  <2>3. n + 1 \notin C BY <1>4 DEF C
  <2> QED BY <2>1, <2>2, <2>3
<1>6. \A x, y \in InCall(pos2, k) : pos2[y].v \in 1..(n + 1) /\ (x # y => pos2[x].v # pos2[y].v)
  <2> SUFFICES ASSUME NEW x \in InCall(pos2, k), NEW y \in InCall(pos2, k)
               PROVE pos2[y].v \in 1..(n + 1) /\ (x # y => pos2[x].v # pos2[y].v) OBVIOUS
  <2>1. \A u, v \in InCall(pos, k) : pos[v].v \in 1..n /\ (u # v => pos[u].v # pos[v].v) BY DEF Side
  <2> QED BY <1>0, <1>1, <1>2, <2>1
<1>7. Cardinality(Served(pos2, k, n + 1)) = done + 1
  <2> DEFINE T == Served(pos, k, n)
  <2>1. T \in SUBSET (1..(n + 1)) /\ n + 1 \notin T /\ n + 1 \in Nat /\ n + 1 \in 1..(n + 1) BY <1>0 DEF Served
  <2> HIDE DEF T
  <2>2. Cardinality(T \cup {n + 1}) = Cardinality(T) + 1 BY <2>1, ServedMore
  <2> QED BY <2>2, <1>0, <1>5 DEF T
<1>8. Served(pos2, k, n + 1) \subseteq 1..low BY <1>0, <1>5
<1> QED BY <1>0, <1>5, <1>6, <1>7, <1>8 DEF Side

\* A caller that waited is served.
LEMMA SideServe ==
  ASSUME NEW pos, NEW k, NEW n, NEW low, NEW done, Side(pos, k, n, low, done),
         NEW w \in Workers, pos[w].k = k, NEW pos2, \A x \in Workers \ {w} : pos2[x] = pos[x],
         pos2[w].k # k, pos[w].v <= low
  PROVE  /\ Side(pos2, k, n, low, done + 1) /\ pos[w].v \in (1..n) \ Served(pos, k, n)
         /\ Served(pos2, k, n) = Served(pos, k, n) \cup {pos[w].v}
<1> DEFINE t == pos[w].v
<1>0. n \in Nat /\ low \in Nat /\ Served(pos, k, n) \subseteq 1..low /\ done = Cardinality(Served(pos, k, n))
  BY DEF Side
<1>1. InCall(pos, k) = InCall(pos2, k) \cup {w} /\ w \notin InCall(pos2, k) BY DEF InCall
<1>2. \A x \in InCall(pos2, k) : pos2[x] = pos[x] /\ pos[x].v \in 1..n /\ pos[x].v # t BY <1>1 DEF InCall, Side
<1>2a. t \in 1..n BY <1>1 DEF Side
<1>3. {pos[x].v : x \in InCall(pos, k)} = {pos2[x].v : x \in InCall(pos2, k)} \cup {t} BY <1>1, <1>2
<1>4. t \notin {pos2[x].v : x \in InCall(pos2, k)} BY <1>2
<1>5. Served(pos2, k, n) = Served(pos, k, n) \cup {t} /\ t \notin Served(pos, k, n)
  <2> HIDE DEF t
  <2> QED BY <1>0, <1>2a, <1>3, <1>4 DEF Served
<1>6. \A x, y \in InCall(pos2, k) : pos2[y].v \in 1..n /\ (x # y => pos2[x].v # pos2[y].v)
  BY <1>1, <1>2 DEF Side
<1>7. Cardinality(Served(pos2, k, n)) = done + 1
  <2> DEFINE T == Served(pos, k, n)
  <2>1. T \in SUBSET (1..n) /\ t \notin T BY <1>5 DEF Served
  <2> HIDE DEF T, t
  <2>2. Cardinality(T \cup {t}) = Cardinality(T) + 1 BY <1>0, <1>2a, <2>1, ServedMore
  <2> QED BY <2>2, <1>0, <1>5 DEF T
<1>8. Served(pos2, k, n) \subseteq 1..low
  <2> HIDE DEF t
  <2>1. t <= low BY DEF t
  <2> QED BY <1>0, <1>2a, <1>5, <2>1
<1> QED BY <1>0, <1>2a, <1>5, <1>6, <1>7, <1>8 DEF Side

\* How full the buffer can be.
LEMMA TicketBounds ==
  ASSUME NEW pos, NEW count \in [Lists -> Nat], NEW p, NEW g, Tickets(pos, count, p, g)
  PROVE  /\ count[PutEC] - Size \in Nat /\ count[GetEC] \in Nat /\ count[PutEC] \in Nat
         /\ count[PutEC] - Size <= count[GetEC] /\ count[GetEC] <= count[PutEC]
<1>0. count[PutEC] \in Nat /\ count[GetEC] \in Nat /\ Size \in Nat BY SchedulingAssumption DEF Lists
<1>1. /\ Side(pos, "put", p, count[PutEC], count[GetEC])
      /\ Side(pos, "get", g, count[GetEC], count[PutEC] - Size)
  BY TicketSides
<1>2. ASSUME NEW k, NEW n, NEW low, NEW done, Side(pos, k, n, low, done)
      PROVE  done \in Nat /\ done <= low
  <2>1. low \in Nat /\ Served(pos, k, n) \subseteq 1..low /\ done = Cardinality(Served(pos, k, n))
    BY <1>2 DEF Side
  <2>2. IsFiniteSet(1..low) /\ Cardinality(1..low) = low
    <3>1. 1 \in Int /\ low \in Int BY <2>1
    <3>2. IsFiniteSet(1..low) /\ Cardinality(1..low) = IF 1 > low THEN 0 ELSE low - 1 + 1
      BY <3>1, FS_Interval
    <3> QED BY <3>2, <2>1
  <2>3. IsFiniteSet(Served(pos, k, n)) /\ Cardinality(Served(pos, k, n)) <= Cardinality(1..low)
    BY <2>1, <2>2, FS_Subset
  <2>4. Cardinality(Served(pos, k, n)) \in Nat BY <2>3, FS_CardinalityType
  <2> QED BY <2>1, <2>2, <2>3, <2>4
<1> QED BY <1>0, <1>1, <1>2

\* The items of the buffer as numbers.
LEMMA Ringed ==
  ASSUME NEW count, NEW puts \in Nat, NEW gets \in Nat, count[GetEC] = puts, count[PutEC] - Size = gets,
         puts - gets <= Size, NEW i \in 0..(Size - 1)
  PROVE  /\ \A k : k \in ItemOf(count, i) <=> k \in Nat /\ gets < k /\ k <= puts /\ (k - 1) % Size = i
         /\ \A j, k \in ItemOf(count, i) : j = k
<1>0. Size \in Nat \ {0} BY SchedulingAssumption
<1>1. ItemOf(count, i) = {k \in (gets + 1)..puts : (k - 1) % Size = i} BY DEF ItemOf
<1>2. \A k : k \in ItemOf(count, i) <=> k \in Nat /\ gets < k /\ k <= puts /\ (k - 1) % Size = i BY <1>1
<1>3. ASSUME NEW j \in ItemOf(count, i), NEW k \in ItemOf(count, i), j < k PROVE FALSE
  <2>1. j - 1 \in Int /\ k - 1 \in Int /\ j - 1 < k - 1 /\ (k - 1) - (j - 1) < Size
    BY <1>0, <1>2, <1>3
  <2>2. (j - 1) % Size # (k - 1) % Size BY <1>0, <2>1, ModApart
  <2> QED BY <2>2, <1>2
<1>4. \A j, k \in ItemOf(count, i) : j = k
  <2> SUFFICES ASSUME NEW j \in ItemOf(count, i), NEW k \in ItemOf(count, i) PROVE j = k OBVIOUS
  <2>1. j \in Nat /\ k \in Nat BY <1>2
  <2> QED BY <1>3, <2>1
<1> QED BY <1>2, <1>4

\* An item is put into the free slot at the end of the ring.
LEMMA RingPut ==
  ASSUME NEW count \in [Lists -> Nat], NEW sl \in Slots, NEW put, NEW get, Ring(count, sl, put, get),
         count[PutEC] - Size \in Nat, count[PutEC] - Size <= count[GetEC], count[GetEC] + 1 <= count[PutEC],
         NEW count2, count2[GetEC] = count[GetEC] + 1, count2[PutEC] = count[PutEC]
  PROVE  /\ Ring(count2, [sl EXCEPT ![put] = count[GetEC] + 1], (put + 1) % Size, get)
         /\ put \in 0..(Size - 1)
<1> DEFINE puts == count[GetEC]
           gets == count[PutEC] - Size
           s2 == [sl EXCEPT ![put] = puts + 1]
<1>0. /\ Size \in Nat \ {0} /\ puts \in Nat /\ gets \in Nat /\ count[PutEC] \in Nat
      /\ puts - gets <= Size /\ puts + 1 - gets <= Size
  BY SchedulingAssumption DEF Lists
<1>1. put = puts % Size /\ get = gets % Size BY DEF Ring
<1>2. put \in 0..(Size - 1)
  <2> HIDE DEF puts
  <2>1. puts \in Int /\ Size \in Nat \ {0} BY <1>0
  <2>2. puts % Size \in 0..(Size - 1) BY ONLY <2>1, ModParts
  <2> QED BY <1>1, <2>2
<1>3. (put + 1) % Size = (puts + 1) % Size
  <2> HIDE DEF puts
  <2> QED BY <1>0, <1>1, ModNext
<1>4. count2[GetEC] = puts + 1 /\ count2[PutEC] - Size = gets /\ puts + 1 \in Nat BY <1>0
<1>5. count[GetEC] = puts /\ count[PutEC] - Size = gets OBVIOUS
<1> HIDE DEF puts, gets
<1>6. ASSUME NEW i \in 0..(Size - 1)
      PROVE  IF ItemOf(count2, i) = {} THEN s2[i] = 0 ELSE ItemOf(count2, i) = {s2[i]}
  <2>1. /\ \A k : k \in ItemOf(count, i) <=> k \in Nat /\ gets < k /\ k <= puts /\ (k - 1) % Size = i
        /\ \A j, k \in ItemOf(count, i) : j = k
    BY <1>0, <1>5, Ringed
  <2>2. /\ \A k : k \in ItemOf(count2, i) <=> k \in Nat /\ gets < k /\ k <= puts + 1 /\ (k - 1) % Size = i
        /\ \A j, k \in ItemOf(count2, i) : j = k
    BY <1>0, <1>4, Ringed
  <2> DEFINE n == puts + 1
  <2>3. n \in Nat /\ gets < n /\ n <= puts + 1 BY <1>0, <1>5
  <2>3a. (n - 1) % Size = put
    <3>1. n - 1 = puts BY <1>0
    <3> QED BY <3>1, <1>1
  <2>4. CASE i = put
    <3>1. s2[i] = puts + 1 BY <2>4 DEF Slots
    <3>2. puts + 1 \in ItemOf(count2, i)
      <4> HIDE DEF n
      <4>1. n \in ItemOf(count2, i) BY ONLY <2>2, <2>3, <2>3a, <2>4
      <4> QED BY <4>1 DEF n
    <3> QED BY <3>1, <3>2, <2>2
  <2>5. CASE i # put
    <3>1. s2[i] = sl[i] BY <2>5, <1>2 DEF Slots
    <3>2. ItemOf(count2, i) = ItemOf(count, i)
      <4>1. puts + 1 \notin ItemOf(count2, i)
        <5> HIDE DEF n
        <5>1. n \notin ItemOf(count2, i) BY ONLY <2>2, <2>3a, <2>5
        <5> QED BY <5>1 DEF n
      <4>2. \A k \in Nat : (k <= puts + 1 /\ k # puts + 1) <=> k <= puts BY <1>0
      <4>3. \A k : k \in ItemOf(count2, i) => k \in ItemOf(count, i) BY ONLY <4>1, <4>2, <2>1, <2>2
      <4>4. \A k : k \in ItemOf(count, i) => k \in ItemOf(count2, i) BY ONLY <4>2, <2>1, <2>2
      <4> QED BY <4>3, <4>4
    <3>3. IF ItemOf(count, i) = {} THEN sl[i] = 0 ELSE ItemOf(count, i) = {sl[i]} BY DEF Ring
    <3> QED BY <3>1, <3>2, <3>3
  <2> QED BY <2>4, <2>5
<1>7. Ring(count2, s2, (put + 1) % Size, get)
  <2> HIDE DEF s2
  <2> QED BY <1>1, <1>3, <1>4, <1>6 DEF Ring
<1> QED BY <1>2, <1>5, <1>7

\* The first item leaves its slot.
LEMMA RingGet ==
  ASSUME NEW count \in [Lists -> Nat], NEW sl \in Slots, NEW put, NEW get, Ring(count, sl, put, get),
         count[PutEC] - Size \in Nat, count[GetEC] <= count[PutEC],
         count[PutEC] - Size + 1 <= count[GetEC],
         NEW count2, count2[PutEC] = count[PutEC] + 1, count2[GetEC] = count[GetEC]
  PROVE  /\ Ring(count2, [sl EXCEPT ![get] = 0], put, (get + 1) % Size)
         /\ get \in 0..(Size - 1)
<1> DEFINE puts == count[GetEC]
           gets == count[PutEC] - Size
           s2 == [sl EXCEPT ![get] = 0]
<1>0. /\ Size \in Nat \ {0} /\ puts \in Nat /\ gets \in Nat /\ count[PutEC] \in Nat
      /\ puts - gets <= Size /\ gets + 1 <= puts /\ puts - (gets + 1) <= Size
  BY SchedulingAssumption DEF Lists
<1>1. put = puts % Size /\ get = gets % Size BY DEF Ring
<1>2. get \in 0..(Size - 1)
  <2> HIDE DEF gets
  <2>1. gets \in Int /\ Size \in Nat \ {0} BY <1>0
  <2>2. gets % Size \in 0..(Size - 1) BY ONLY <2>1, ModParts
  <2> QED BY <1>1, <2>2
<1>3. (get + 1) % Size = (gets + 1) % Size
  <2> HIDE DEF gets
  <2> QED BY <1>0, <1>1, ModNext
<1>4. count2[GetEC] = puts /\ count2[PutEC] - Size = gets + 1 /\ gets + 1 \in Nat BY <1>0
<1>5. count[GetEC] = puts /\ count[PutEC] - Size = gets OBVIOUS
<1> HIDE DEF puts, gets
<1>6. ASSUME NEW i \in 0..(Size - 1)
      PROVE  IF ItemOf(count2, i) = {} THEN s2[i] = 0 ELSE ItemOf(count2, i) = {s2[i]}
  <2>1. /\ \A k : k \in ItemOf(count, i) <=> k \in Nat /\ gets < k /\ k <= puts /\ (k - 1) % Size = i
        /\ \A j, k \in ItemOf(count, i) : j = k
    BY <1>0, <1>5, Ringed
  <2>2. \A k : k \in ItemOf(count2, i) <=> k \in Nat /\ gets + 1 < k /\ k <= puts /\ (k - 1) % Size = i
    BY <1>0, <1>4, Ringed
  <2> DEFINE n == gets + 1
  <2>3. n \in Nat /\ gets < n /\ n <= puts BY <1>0, <1>5
  <2>3b. (n - 1) % Size = get
    <3>1. n - 1 = gets BY <1>0
    <3> QED BY <3>1, <1>1
  <2>3a. \A k \in Nat : gets + 1 < k <=> (gets < k /\ k # gets + 1) BY <1>0
  <2>4. CASE i = get
    <3>1. s2[i] = 0 BY <2>4 DEF Slots
    <3>2. gets + 1 \in ItemOf(count, i)
      <4> HIDE DEF n
      <4>1. n \in ItemOf(count, i) BY ONLY <2>1, <2>3, <2>3b, <2>4
      <4> QED BY <4>1 DEF n
    <3>3. ItemOf(count2, i) = {} BY <3>2, <2>1, <2>2, <2>3a
    <3> QED BY <3>1, <3>3
  <2>5. CASE i # get
    <3>1. s2[i] = sl[i] BY <2>5, <1>2 DEF Slots
    <3>2. ItemOf(count2, i) = ItemOf(count, i)
      <4>1. gets + 1 \notin ItemOf(count, i)
        <5> HIDE DEF n
        <5>1. n \notin ItemOf(count, i) BY ONLY <2>1, <2>3b, <2>5
        <5> QED BY <5>1 DEF n
      <4> QED BY <4>1, <2>1, <2>2, <2>3a
    <3>3. IF ItemOf(count, i) = {} THEN sl[i] = 0 ELSE ItemOf(count, i) = {sl[i]} BY DEF Ring
    <3> QED BY <3>1, <3>2, <3>3
  <2> QED BY <2>4, <2>5
<1>7. Ring(count2, s2, put, (get + 1) % Size)
  <2> HIDE DEF s2
  <2> QED BY <1>1, <1>3, <1>4, <1>6 DEF Ring
<1> QED BY <1>2, <1>5, <1>7

\* The ticket queue in terms of the callers.
PutDone == Served(at, "put", queue.p)
GetDone == Served(at, "get", queue.g)

\* TicketQueue counts as this module does.
LEMMA SameCount == ASSUME NEW S PROVE TQ!Cardinality(S) = Cardinality(S)
BY DEF TQ!Cardinality, Cardinality, TQ!IsFiniteSet, IsFiniteSet

\* The tickets served, in the terms of the refinement.
LEMMA TicketTerms ==
  /\ (1..queue.p) \ Pending("put") = PutDone /\ (1..queue.g) \ Pending("get") = GetDone
  /\ ((1..queue.p) \ Pending("put"))' = PutDone' /\ ((1..queue.g) \ Pending("get"))' = GetDone'
BY DEF PutDone, GetDone, Served, InCall, Pending

\* Steps of callers that keep their tickets are none of the ticket queue.
LEMMA TicketsStay ==
  ASSUME queue' = queue,
         \A w \in Workers : \A k \in {"put", "get"} : /\ at'[w].k = k <=> at[w].k = k
                                                      /\ at[w].k = k => at'[w].v = at[w].v
  PROVE  UNCHANGED TQ!tvars
<1>1. InCall(at', "put") = InCall(at, "put") /\ InCall(at', "get") = InCall(at, "get") BY DEF InCall
<1>2. /\ \A w \in InCall(at, "put") : at'[w].v = at[w].v
      /\ \A w \in InCall(at, "get") : at'[w].v = at[w].v
  BY DEF InCall
<1>3. /\ Served(at', "put", queue.p) = Served(at, "put", queue.p)
      /\ Served(at', "get", queue.g) = Served(at, "get", queue.g)
  BY <1>1, <1>2 DEF Served
<1>4. PutDone' = PutDone /\ GetDone' = GetDone BY <1>3 DEF PutDone, GetDone
<1> QED BY <1>4, TicketTerms DEF TQ!tvars

----------------------------------------------------------------------------
(* The invariant, step by step.                                            *)

\* The parts of the invariant while a task runs.
LEMMA InvRunning ==
  ASSUME SchedulingInv, NEW x \in Task, Running(x)
  PROVE  /\ Good(s, at) /\ s.cur = x /\ s.fault = "" /\ at[x] \in Places /\ at[x].k \notin Gone
         /\ at[x].l \in EC => s.count[at[x].l] >= at[x].v
         /\ s.count \in [Lists -> Nat] /\ s.cnt \in [Task -> Nat] /\ s \in Schedulers
<1>1. s.cur = x /\ s.fault = "" BY DEF Running
<1>2. s \in Schedulers /\ at \in [Task -> Places] BY DEF SchedulingInv, TypeOK
<1>3. ListsSound(s) /\ Placed(On(s), s.cnt, s.count, s.cur, at) BY <1>1 DEF SchedulingInv
<1>4. Good(s, at) BY <1>2, <1>3 DEF Good, Sound
<1>5. at[x].k \notin Gone /\ (at[x].l \in EC => s.count[at[x].l] >= at[x].v) BY <1>1, <1>3 DEF Placed
<1>6. s.count \in [Lists -> Nat] /\ s.cnt \in [Task -> Nat] BY <1>2 DEF Schedulers
<1> QED BY <1>1, <1>2, <1>4, <1>5, <1>6

\* What the calls of a program are made with.
LEMMA CallArgs ==
  ASSUME NEW c \in Calls
  PROVE  /\ c[1] = "pause" => c[2] \in Nat
         /\ c[1] = "await" => c[2] \in EC /\ c[3] \in Nat
         /\ c[1] = "advance" => c[2] \in Shared
         /\ c[1] = "create" => c[2] \in Workers /\ c[3] \in BOOLEAN
         /\ c[1] = "alarm" => c[2] \in Shared /\ c[3] \in Nat
<1>1. CASE c \in {"pause"} \X Nat BY <1>1
<1>2. CASE c \in {"await"} \X EC \X Nat BY <1>2
<1>3. CASE c \in {"advance"} \X Shared BY <1>3
<1>4. CASE c \in {"create"} \X Workers \X BOOLEAN BY <1>4
<1>5. CASE c \in {"alarm"} \X Shared \X Nat BY <1>5
<1>6. CASE c \in {<<"put">>, <<"get">>} BY <1>6
<1> QED BY <1>1, <1>2, <1>3, <1>4, <1>5, <1>6 DEF Calls

\* A worker that makes a call runs and is not inside another one.
LEMMA Caller ==
  ASSUME SchedulingInv, NEW w \in Workers, NEW k, NEW c \in Call(w, k)
  PROVE  /\ Running(w) /\ at[w].k \in {"new", "run"} /\ c \in Calls /\ c[1] = k
         /\ w \in Task /\ [step EXCEPT ![w] = @ + 1] \in [Workers -> Nat]
<1>1. /\ Running(w) /\ at[w].k \in {"new", "run"} /\ step[w] < Len(Program(w))
      /\ c \in Program(w)[step[w] + 1] /\ c[1] = k
  BY DEF Call
<1>2. scene \in Scenarios /\ step \in [Workers -> Nat] BY DEF SchedulingInv, TypeOK
<1>3. Program(w) \in Seq(SUBSET Calls) BY <1>2, ScenarioAssumption DEF Program
<1>4. step[w] + 1 \in 1..Len(Program(w)) BY <1>1, <1>2, <1>3
<1>5. Program(w)[step[w] + 1] \in SUBSET Calls BY <1>3, <1>4
<1>6. [step EXCEPT ![w] = @ + 1] \in [Workers -> Nat] BY <1>2
<1> QED BY <1>1, <1>5, <1>6, SchedulingAssumption

\* What the list of alarms consists of.
Alarms == Seq([ec : Shared, time : Nat])

\* A step that has nothing to do with the queue.
LEMMA QuietParts ==
  ASSUME SchedulingInv, UNCHANGED <<scene, queue, slot, life>>, s' \in Schedulers,
         saved' = <<>> \/ saved' = <<File'>>, saved' # <<>> => FileSound', life' = 2 => saved' # <<>>,
         at' \in [Task -> Places], s'.fault = "" => Good(s', at'),
         s'.count[PutEC] = s.count[PutEC], s'.count[GetEC] = s.count[GetEC], Roles(at'),
         \A w \in Workers : \A k \in {"put", "get"} : /\ at'[w].k = k <=> at[w].k = k
                                                      /\ at[w].k = k => at'[w].v = at[w].v,
         step' \in [Workers -> Nat], alarms' \in Alarms
  PROVE  SchedulingInv' /\ UNCHANGED TQ!tvars
<1>1. s' \in Schedulers /\ at' \in [Task -> Places] OBVIOUS
<1>2. /\ s.count \in [Lists -> Nat] /\ s'.count \in [Lists -> Nat] /\ Size \in Nat
      /\ PutEC \in Lists /\ GetEC \in Lists
  BY <1>1, SchedulingAssumption DEF SchedulingInv, TypeOK, Schedulers, Lists
<1>3. TypeOK' BY <1>1 DEF SchedulingInv, TypeOK, Alarms
<1>4. s'.fault = "" => ListsSound(s') /\ Placed(On(s'), s'.cnt, s'.count, s'.cur, at') BY DEF Good, Sound
<1>5. Tickets(at', s'.count, queue'.p, queue'.g)
  <2>1. Tickets(at, s.count, queue.p, queue.g) BY DEF SchedulingInv
  <2>2. /\ Side(at, "put", queue.p, s.count[PutEC], s.count[GetEC])
        /\ Side(at, "get", queue.g, s.count[GetEC], s.count[PutEC] - Size)
    BY <1>2, <2>1, TicketSides
  <2>3. s.count[PutEC] \in Nat /\ s.count[GetEC] \in Nat BY <1>2
  <2>3a. \A x \in Nat : x >= x BY ONLY <2>3
  <2>4. Side(at', "put", queue.p, s.count[PutEC], s.count[GetEC])
    <3>1. Side(at, "put", queue.p, s.count[PutEC], s.count[GetEC]) BY <2>2
    <3>2. \A w \in Workers : /\ at'[w].k = "put" <=> at[w].k = "put"
                             /\ at[w].k = "put" => at'[w].v = at[w].v
      OBVIOUS
    <3>3. s.count[PutEC] \in Nat /\ s.count[PutEC] >= s.count[PutEC] BY ONLY <2>3, <2>3a
    <3> QED BY ONLY <3>1, <3>2, <3>3, SideSame
  <2>5. Side(at', "get", queue.g, s.count[GetEC], s.count[PutEC] - Size)
    <3>1. Side(at, "get", queue.g, s.count[GetEC], s.count[PutEC] - Size) BY <2>2
    <3>2. \A w \in Workers : /\ at'[w].k = "get" <=> at[w].k = "get"
                             /\ at[w].k = "get" => at'[w].v = at[w].v
      OBVIOUS
    <3>3. s.count[GetEC] \in Nat /\ s.count[GetEC] >= s.count[GetEC] BY ONLY <2>3, <2>3a
    <3> QED BY ONLY <3>1, <3>2, <3>3, SideSame
  <2>6. /\ Side(at', "put", queue'.p, s'.count[PutEC], s'.count[GetEC])
        /\ Side(at', "get", queue'.g, s'.count[GetEC], s'.count[PutEC] - Size)
    BY <2>4, <2>5
  <2> QED BY ONLY <1>2, <2>6, TicketSides
<1>6. Ring(s'.count, slot', queue'.put, queue'.get)
  <2>1. Ring(s.count, slot, queue.put, queue.get) BY DEF SchedulingInv
  <2> QED BY <2>1 DEF Ring, ItemOf
<1>7. Counters' BY DEF SchedulingInv, Counters
<1>8. UNCHANGED TQ!tvars BY TicketsStay
<1> QED BY <1>3, <1>4, <1>5, <1>6, <1>7, <1>8 DEF SchedulingInv

\* The file stays as it is in most steps.
LEMMA FileStays ==
  ASSUME SchedulingInv, UNCHANGED <<saved, life>>
  PROVE  /\ saved' = <<>> \/ saved' = <<File'>>
         /\ saved' # <<>> => FileSound'
         /\ life' = 2 => saved' # <<>>
<1>1. File' = File BY DEF File
<1>2. saved = <<>> \/ saved = <<File>> BY DEF SchedulingInv, TypeOK
<1>3. saved' # <<>> => FileSound' BY DEF SchedulingInv, FileSound, File
<1>4. life' = 2 => saved' # <<>> BY DEF SchedulingInv
<1> QED BY <1>1, <1>2, <1>3, <1>4

\* The same when no checkpoint is written.
LEMMA QuietStep ==
  ASSUME SchedulingInv, UNCHANGED <<scene, saved, queue, slot, life>>, s' \in Schedulers,
         at' \in [Task -> Places], s'.fault = "" => Good(s', at'),
         s'.count[PutEC] = s.count[PutEC], s'.count[GetEC] = s.count[GetEC], Roles(at'),
         \A w \in Workers : \A k \in {"put", "get"} : /\ at'[w].k = k <=> at[w].k = k
                                                      /\ at[w].k = k => at'[w].v = at[w].v,
         step' \in [Workers -> Nat], alarms' \in Alarms
  PROVE  SchedulingInv' /\ UNCHANGED TQ!tvars
<1>1. UNCHANGED <<scene, queue, slot, life>> OBVIOUS
<1>2. /\ saved' = <<>> \/ saved' = <<File'>>
      /\ saved' # <<>> => FileSound'
      /\ life' = 2 => saved' # <<>>
  BY FileStays
<1> QED BY <1>1, <1>2, QuietParts

\* What task x may be suspended in.
RoleOf(x, a) ==
  /\ x \in Workers => /\ a.k \in Gone \cup {"new", "run", "put", "get"}
                      /\ a.k = "new" => a.l = Time /\ a.v = 0
                      /\ a.k = "put" => a.l = PutEC
                      /\ a.k = "get" => a.l = GetEC
  /\ x = Wake => a.k \in {"absent", "new", "woken"} /\ a.l = Time
  /\ x = Chk => a.k \in Gone \cup {"new", "chk", "saved"} /\ a.l = Time

\* Roles are a matter of each task alone.
LEMMA RolesOne ==
  ASSUME NEW pos \in [Task -> Places], Roles(pos), NEW x \in Task, NEW a, RoleOf(x, a),
         NEW pos2, pos2 = With(pos, x, a)
  PROVE  Roles(pos2)
<1>1. Workers \subseteq Task /\ Wake \in Task /\ Chk \in Task BY SchedulingAssumption
<1>2. \A t \in Task : pos2[t] = IF t = x THEN a ELSE pos[t] BY DEF With
<1> QED BY <1>1, <1>2 DEF Roles, RoleOf

\* A step of one task that has nothing to do with the queue.
LEMMA QuietOne ==
  ASSUME SchedulingInv, UNCHANGED <<scene, saved, queue, slot, life>>, NEW x \in Task, NEW a,
         at' = With(at, x, a), RoleOf(x, a),
         x \in Workers => at[x].k \notin {"put", "get"} /\ a.k \notin {"put", "get"},
         Good(s', at'), s'.fault = "", s'.count[PutEC] = s.count[PutEC],
         s'.count[GetEC] = s.count[GetEC], step' \in [Workers -> Nat], alarms' \in Alarms
  PROVE  SchedulingInv' /\ UNCHANGED TQ!tvars
<1>1. at \in [Task -> Places] /\ Roles(at) /\ Workers \subseteq Task
  BY SchedulingAssumption DEF SchedulingInv, TypeOK
<1>2. Roles(at') BY <1>1, RolesOne
<1>3. \A t \in Task : at'[t] = IF t = x THEN a ELSE at[t] BY <1>1 DEF With
<1>4. \A w \in Workers : \A k \in {"put", "get"} : /\ at'[w].k = k <=> at[w].k = k
                                                   /\ at[w].k = k => at'[w].v = at[w].v
  BY <1>1, <1>3
<1>5. s' \in Schedulers /\ at' \in [Task -> Places] BY DEF Good, Sound
<1> QED BY <1>2, <1>4, <1>5, QuietStep

\* What every step but a restart achieves: the invariant, and a task that is
\* dispatched is due.
Stepped  == SchedulingInv' /\ (s'.cur # s.cur => DueRun(s', at')) /\ s'.fault = ""
\* What the steps of workers leave alone.
WakeKept == s'.cnt[Wake] = s.cnt[Wake] /\ at'[Wake] = at[Wake]

\* The running task may be suspended, and another one dispatched.
LEMMA SwitchStep ==
  ASSUME SchedulingInv, UNCHANGED <<scene, saved, queue, slot, life>>, NEW x \in Task, Running(x), NEW a,
         at' = [at EXCEPT ![x] = a], RoleOf(x, a),
         x \in Workers => at[x].k \notin {"put", "get"} /\ a.k \notin {"put", "get"},
         Switched(s', s, at'), step' \in [Workers -> Nat], alarms' \in Alarms
  PROVE  Stepped /\ UNCHANGED TQ!tvars /\ (x # Wake => WakeKept)
<1>0. PutEC \in EC /\ GetEC \in EC /\ Wake \in Task BY SchedulingAssumption
<1>1. s.fault = "" /\ s.cur = x BY DEF Running
<1>2. Good(s', at') /\ s'.fault = "" BY <1>1 DEF Switched
<1>3. s'.count[PutEC] = s.count[PutEC] /\ s'.count[GetEC] = s.count[GetEC] BY <1>0 DEF Switched
<1>4. at' = With(at, x, a) BY DEF With
<1>5. SchedulingInv' /\ UNCHANGED TQ!tvars BY <1>2, <1>3, <1>4, QuietOne
<1>6. at \in [Task -> Places] BY DEF SchedulingInv, TypeOK
<1>7. x # Wake => WakeKept BY <1>0, <1>1, <1>6 DEF Switched, WakeKept
<1> QED BY <1>2, <1>5, <1>7 DEF Stepped, Switched

\* Places a worker may be in.
LEMMA WorkerPlaces ==
  /\ \A k \in {"run", "put", "get"} : \A l \in Lists : \A v \in Nat :
       /\ Where(k, l, v) \in Places /\ Where(k, l, v).k = k /\ Where(k, l, v).l = l
       /\ Where(k, l, v).v = v /\ Suspends(Where(k, l, v), l, v)
  /\ \A x \in Workers : \A a : (a.k = "run" \/ (a.k = "put" /\ a.l = PutEC) \/ (a.k = "get" /\ a.l = GetEC)
                               \/ a.k = "finished") => RoleOf(x, a)
  /\ Workers \subseteq Task /\ Wake \in Task /\ Chk \in Task /\ Wake \notin Workers /\ Chk \notin Workers
  /\ Wake # Chk /\ NULL \notin Task
<1>1. ASSUME NEW k \in {"run", "put", "get"}, NEW l \in Lists, NEW v \in Nat
      PROVE  /\ Where(k, l, v) \in Places /\ Where(k, l, v).k = k /\ Where(k, l, v).l = l
             /\ Where(k, l, v).v = v /\ Suspends(Where(k, l, v), l, v)
  BY DEF Where, Places, Suspends, Kinds, Gone
<1>2. Wake \notin Workers /\ Chk \notin Workers /\ Workers \subseteq Task /\ Wake \in Task /\ Chk \in Task
      /\ Wake # Chk /\ NULL \notin Task
  BY SchedulingAssumption, TaskingAssumption
<1>3. \A x \in Workers : \A a : (a.k = "run" \/ (a.k = "put" /\ a.l = PutEC) \/ (a.k = "get" /\ a.l = GetEC)
                                \/ a.k = "finished") => RoleOf(x, a)
  BY <1>2 DEF RoleOf, Gone
<1> QED BY <1>1, <1>2, <1>3

\* A worker pauses.
LEMMA PauseStep ==
  ASSUME SchedulingInv, NEW w \in Workers, Pause(w) PROVE Stepped /\ WakeKept /\ UNCHANGED TQ!tvars
<1>1. PICK c \in Call(w, "pause") :
        /\ Begun(w) /\ UNCHANGED <<queue, slot, alarms>> /\ s' = Epause(s, c[2])
        /\ at' = [at EXCEPT ![w] = Where("run", Time, s.count[Time] + c[2])]
  BY DEF Pause
<1>2. /\ Running(w) /\ at[w].k \in {"new", "run"} /\ c \in Calls /\ c[1] = "pause" /\ w \in Task
      /\ [step EXCEPT ![w] = @ + 1] \in [Workers -> Nat]
  BY Caller
<1>3. c[2] \in Nat BY <1>2, CallArgs
<1>4. Good(s, at) /\ s.cur = w /\ s.count \in [Lists -> Nat] BY <1>2, InvRunning
<1> DEFINE v == s.count[Time] + c[2]
           a == Where("run", Time, v)
<1>5. Time \in Lists /\ v \in Nat BY <1>3, <1>4 DEF Lists
<1>5a. v = s.count[Time] + c[2] /\ at' = [at EXCEPT ![w] = a] BY <1>1
<1> HIDE DEF v
<1>6. a.k = "run" /\ Suspends(a, Time, v) /\ RoleOf(w, a) /\ w # Wake BY <1>5, WorkerPlaces
<1> HIDE DEF a
<1>7. Switched(s', s, at')
  <2>1. s.cur \in Task /\ at' = [at EXCEPT ![s.cur] = a] /\ Suspends(a, Time, s.count[Time] + c[2])
    BY <1>2, <1>4, <1>5a, <1>6
  <2>2. Switched(Epause(s, c[2]), s, at') BY <1>3, <1>4, <2>1, GoodEpause
  <2> QED BY <1>1, <2>2
<1>8. /\ UNCHANGED <<scene, saved, queue, slot, life>> /\ step' \in [Workers -> Nat] /\ alarms' \in Alarms
  BY <1>1, <1>2 DEF Begun, SchedulingInv, TypeOK, Alarms
<1> QED BY <1>2, <1>5a, <1>6, <1>7, <1>8, SwitchStep

\* A worker waits for an event count.
LEMMA AwaitStep ==
  ASSUME SchedulingInv, NEW w \in Workers, AwaitEvent(w) PROVE Stepped /\ WakeKept /\ UNCHANGED TQ!tvars
<1>1. PICK c \in Call(w, "await") :
        /\ Begun(w) /\ UNCHANGED <<queue, slot, alarms>> /\ s' = Await(s, c[2], c[3])
        /\ at' = [at EXCEPT ![w] = Where("run", c[2], c[3])]
  BY DEF AwaitEvent
<1>2. /\ Running(w) /\ at[w].k \in {"new", "run"} /\ c \in Calls /\ c[1] = "await" /\ w \in Task
      /\ [step EXCEPT ![w] = @ + 1] \in [Workers -> Nat]
  BY Caller
<1> DEFINE l == c[2]
           v == c[3]
           a == Where("run", l, v)
<1>3. l \in EC /\ v \in Nat BY <1>2, CallArgs
<1>4. Good(s, at) /\ s.cur = w BY <1>2, InvRunning
<1>5. l \in Lists BY <1>3 DEF Lists
<1>5a. at' = [at EXCEPT ![w] = a] /\ s' = Await(s, l, v) BY <1>1
<1> HIDE DEF l, v
<1>6. a.k = "run" /\ Suspends(a, l, v) /\ RoleOf(w, a) /\ w # Wake BY <1>3, <1>5, WorkerPlaces
<1> HIDE DEF a
<1>7. Switched(s', s, at')
  <2>1. s.cur \in Task /\ at' = [at EXCEPT ![s.cur] = a] BY <1>2, <1>4, <1>5a
  <2>2. Switched(Await(s, l, v), s, at') BY <1>3, <1>4, <1>5, <1>6, <2>1, GoodAwait
  <2> QED BY <1>5a, <2>2
<1>8. /\ UNCHANGED <<scene, saved, queue, slot, life>> /\ step' \in [Workers -> Nat] /\ alarms' \in Alarms
  BY <1>1, <1>2 DEF Begun, SchedulingInv, TypeOK, Alarms
<1> QED BY <1>2, <1>5a, <1>6, <1>7, <1>8, SwitchStep

\* A worker ends.
LEMMA FinishStep ==
  ASSUME SchedulingInv, NEW w \in Workers, Finish(w) PROVE Stepped /\ WakeKept /\ UNCHANGED TQ!tvars
<1>1. /\ Running(w) /\ at[w].k \in {"new", "run"} /\ s' = Dispatch(s) /\ at' = [at EXCEPT ![w] = Finished]
      /\ UNCHANGED <<scene, step, queue, slot, alarms, saved, life>>
  BY DEF Finish
<1>2. w \in Task /\ w # Wake BY WorkerPlaces
<1>3. Good(s, at) /\ s.cur = w BY <1>1, <1>2, InvRunning
<1>4. Finished \in Places /\ Finished.k \in Gone /\ Finished.k = "finished"
  BY DEF Finished, Where, Places, Kinds, Gone, Lists
<1>5. Switched(s', s, at')
  <2>1. s.cur \in Task /\ at' = [at EXCEPT ![s.cur] = Finished] BY <1>1, <1>2, <1>3
  <2>2. Switched(Dispatch(s), s, at') BY <1>3, <1>4, <2>1, GoodFinish
  <2> QED BY <1>1, <2>2
<1>6. RoleOf(w, Finished) BY <1>4, WorkerPlaces
<1>7. step' \in [Workers -> Nat] /\ alarms' \in Alarms BY <1>1 DEF SchedulingInv, TypeOK, Alarms
<1>8. w \in Workers => at[w].k \notin {"put", "get"} /\ Finished.k \notin {"put", "get"} BY <1>1, <1>4
<1> QED BY <1>1, <1>2, <1>5, <1>6, <1>7, <1>8, SwitchStep

\* The position of a task that goes on within its call.
AsKind(pos, x, k) == [pos EXCEPT ![x].k = k]

\* The running task goes on as one of kind k.
LEMMA GoodRun ==
  ASSUME NEW sc, NEW pos, Good(sc, pos), sc.cur \in Task, NEW k \in Kinds \ Gone,
         NEW pos2, pos2 = AsKind(pos, sc.cur, k)
  PROVE  Good(sc, pos2) /\ pos2[sc.cur].k = k /\ pos2[sc.cur].l = pos[sc.cur].l
         /\ pos2[sc.cur].v = pos[sc.cur].v /\ pos2 = With(pos, sc.cur, pos2[sc.cur])
         /\ pos2[sc.cur] \in Places
<1> DEFINE c == sc.cur
           a == [pos[c] EXCEPT !.k = k]
<1>1. pos \in [Task -> Places] /\ Placed(On(sc), sc.cnt, sc.count, c, pos) BY DEF Good
<1>2. a \in Places /\ a.k = k /\ a.l = pos[c].l /\ a.v = pos[c].v BY <1>1 DEF Places
<1>3. pos2 = [pos EXCEPT ![c] = a] BY DEF AsKind
<1> HIDE DEF a
<1>4. a.k \notin Gone /\ (a.l \in EC => sc.count[a.l] >= a.v) BY <1>1, <1>2 DEF Placed
<1>5. Good(sc, pos2) BY <1>2, <1>3, <1>4, GoodSame
<1>6. pos2[c] = a BY <1>1, <1>3
<1>7. pos2 = With(pos, c, pos2[c]) BY <1>3, <1>6 DEF With
<1> QED BY <1>2, <1>5, <1>6, <1>7

\* The wake-up task waits for nothing but time.
LEMMA WakeOff ==
  ASSUME NEW sc, NEW pos, Good(sc, pos), Roles(pos), NEW l \in EC PROVE Wake \notin On(sc)[l]
<1>1. Time \notin EC /\ pos[Wake].l = Time BY TaskingAssumption DEF Roles
<1> QED BY <1>1 DEF Good, Placed

\* A worker advances an event count.
LEMMA AdvanceStep ==
  ASSUME SchedulingInv, NEW w \in Workers, AdvanceEvent(w) PROVE Stepped /\ WakeKept /\ UNCHANGED TQ!tvars
<1>1. PICK c \in Call(w, "advance") :
        /\ Begun(w) /\ UNCHANGED <<queue, slot, alarms>> /\ s' = Advance(s, c[2])
        /\ at' = [at EXCEPT ![w].k = "run"]
  BY DEF AdvanceEvent
<1>2. /\ Running(w) /\ at[w].k \in {"new", "run"} /\ c \in Calls /\ c[1] = "advance" /\ w \in Task
      /\ [step EXCEPT ![w] = @ + 1] \in [Workers -> Nat]
  BY Caller
<1> DEFINE l == c[2]
<1>3. l \in Shared /\ l \in EC /\ l # PutEC /\ l # GetEC BY <1>2, CallArgs DEF Shared
<1>4. Good(s, at) /\ s.cur = w /\ s.fault = "" BY <1>2, InvRunning
<1>5. /\ w # Wake /\ Wake \in Task /\ PutEC \in Lists /\ GetEC \in Lists
  BY WorkerPlaces, SchedulingAssumption DEF Lists
<1>5a. s' = Advance(s, l) BY <1>1
<1> HIDE DEF l
<1>6. /\ Good(s', at) /\ s'.cur = s.cur /\ s'.fault = s.fault
      /\ \A e \in Lists \ {l} : s'.count[e] = s.count[e]
      /\ \A t \in Task : t \notin On(s)[l] => s'.cnt[t] = s.cnt[t]
  <2>1. Good(s, at) /\ s.cur \in Task /\ l \in EC BY <1>2, <1>3, <1>4
  <2>2. LET s2 == Advance(s, l)
        IN  /\ Good(s2, at) /\ s2.cur = s.cur /\ s2.fault = s.fault
            /\ \A e \in Lists \ {l} : s2.count[e] = s.count[e]
            /\ \A t \in Task : t \notin On(s)[l] => s2.cnt[t] = s.cnt[t]
    BY ONLY <2>1, GoodAdvance
  <2> QED BY ONLY <1>5a, <2>2
<1>7. /\ Good(s', at') /\ at'[w].k = "run" /\ at' = With(at, w, at'[w])
  <2>1. s'.cur \in Task /\ at' = AsKind(at, s'.cur, "run") BY <1>1, <1>2, <1>4, <1>6 DEF AsKind
  <2>2. "run" \in Kinds \ Gone BY DEF Kinds, Gone
  <2>2a. Good(s', at) BY <1>6
  <2>3. Good(s', at') /\ at'[s'.cur].k = "run" /\ at' = With(at, s'.cur, at'[s'.cur])
    BY ONLY <2>1, <2>2, <2>2a, GoodRun
  <2> QED BY <2>3, <1>4, <1>6
<1>8. RoleOf(w, at'[w]) BY <1>7, WorkerPlaces
<1>9. s'.count[PutEC] = s.count[PutEC] /\ s'.count[GetEC] = s.count[GetEC] BY <1>3, <1>5, <1>6
<1>10. UNCHANGED <<scene, saved, queue, slot, life>> /\ step' \in [Workers -> Nat] /\ alarms' \in Alarms
  BY <1>1, <1>2 DEF Begun, SchedulingInv, TypeOK, Alarms
<1>11. SchedulingInv' /\ UNCHANGED TQ!tvars
  <2>1. w \in Workers => at[w].k \notin {"put", "get"} /\ at'[w].k \notin {"put", "get"} BY <1>2, <1>7
  <2>2. s'.fault = "" BY <1>4, <1>6
  <2> QED BY <1>2, <1>7, <1>8, <1>9, <1>10, <2>1, <2>2, QuietOne
<1>12. WakeKept
  <2>1. Wake \notin On(s)[l] BY <1>3, <1>4, WakeOff DEF SchedulingInv
  <2>2. at'[Wake] = at[Wake] BY <1>1, <1>5 DEF SchedulingInv, TypeOK
  <2> QED BY <1>5, <1>6, <2>1, <2>2 DEF WakeKept
<1> QED BY <1>4, <1>6, <1>11, <1>12 DEF Stepped

\* A worker creates a task, and may take it back.
LEMMA CreateStep ==
  ASSUME SchedulingInv, NEW w \in Workers, Create(w) PROVE Stepped /\ WakeKept /\ UNCHANGED TQ!tvars
<1>1. PICK c \in Call(w, "create") :
        /\ Begun(w) /\ UNCHANGED <<queue, slot, alarms>> /\ at[c[2]] = Absent
        /\ s' = IF c[3] THEN CreateTask(s, c[2]) ELSE RemoveLastTask(CreateTask(s, c[2]), c[2])
        /\ at' = [at EXCEPT ![w].k = "run", ![c[2]] = IF c[3] THEN Created ELSE @]
  BY DEF Create
<1>2. /\ Running(w) /\ at[w].k \in {"new", "run"} /\ c \in Calls /\ c[1] = "create" /\ w \in Task
      /\ [step EXCEPT ![w] = @ + 1] \in [Workers -> Nat]
  BY Caller
<1> DEFINE t == c[2]
           pos == IF c[3] THEN [at EXCEPT ![t] = Created] ELSE at
<1>3. t \in Workers /\ c[3] \in BOOLEAN BY <1>2, CallArgs
<1>4. Good(s, at) /\ s.cur = w /\ s.fault = "" BY <1>2, InvRunning
<1>5. w # Wake /\ Wake \in Task /\ t \in Task /\ t # Wake BY <1>3, WorkerPlaces
<1>5a. at \in [Task -> Places] /\ Roles(at) BY DEF SchedulingInv, TypeOK
<1>5b. at[t].k = "absent" BY <1>1 DEF Absent, Where
<1>6. /\ Good(s', pos) /\ s'.cur = s.cur /\ s'.fault = s.fault /\ s'.count = s.count /\ t # s.cur
      /\ \A u \in Task \ {t} : s'.cnt[u] = s.cnt[u]
  <2>1. CASE c[3]
    <3>1. pos = [at EXCEPT ![t] = Created] /\ s' = CreateTask(s, t) BY <1>1, <2>1
    <3>1a. pos = With(at, t, Created) BY <3>1 DEF With
    <3> HIDE DEF pos, t
    <3>2. Good(s, at) /\ s.cur \in Task /\ t \in Task /\ at[t].k = "absent" BY <1>2, <1>4, <1>5, <1>5b
    <3>3. LET s2 == CreateTask(s, t)
          IN  /\ Good(s2, pos) /\ s2.cur = s.cur /\ s2.fault = s.fault /\ s2.count = s.count
              /\ t # s.cur /\ \A u \in Task \ {t} : s2.cnt[u] = s.cnt[u]
      BY ONLY <3>1a, <3>2, GoodCreate
    <3> QED BY ONLY <3>1, <3>3
  <2>2. CASE ~c[3]
    <3>1. pos = at /\ s' = RemoveLastTask(CreateTask(s, t), t) BY <1>1, <2>2
    <3> HIDE DEF pos, t
    <3>2. Good(s, at) /\ s.cur \in Task /\ t \in Task /\ at[t].k = "absent" BY <1>2, <1>4, <1>5, <1>5b
    <3>3. LET s2 == RemoveLastTask(CreateTask(s, t), t)
          IN  /\ Good(s2, at) /\ s2.cur = s.cur /\ s2.fault = s.fault /\ s2.count = s.count
              /\ t # s.cur /\ \A u \in Task \ {t} : s2.cnt[u] = s.cnt[u]
      BY ONLY <3>2, GoodUndone
    <3> QED BY ONLY <3>1, <3>3
  <2> QED BY <2>1, <2>2
<1>6a. /\ \A u \in Task : u # t => pos[u] = at[u]
       /\ pos[t] = at[t] \/ pos[t] = Created
  BY <1>5, <1>5a
<1>6b. at' = [pos EXCEPT ![w].k = "run"]
  <2>1. t # w BY <1>4, <1>6
  <2>2. CASE c[3] BY <1>1, <1>5, <1>5a, <2>1, <2>2
  <2>3. CASE ~c[3] BY <1>1, <1>5, <1>5a, <2>1, <2>3
  <2> QED BY <2>2, <2>3
<1> HIDE DEF t, pos
<1>7. /\ Good(s', at') /\ at'[w].k = "run" /\ at' = With(pos, w, at'[w])
  <2>1. s'.cur \in Task /\ at' = AsKind(pos, s'.cur, "run") BY <1>6b, <1>2, <1>4, <1>6 DEF AsKind
  <2>2. "run" \in Kinds \ Gone BY DEF Kinds, Gone
  <2>2a. Good(s', pos) BY <1>6
  <2>3. Good(s', at') /\ at'[s'.cur].k = "run" /\ at' = With(pos, s'.cur, at'[s'.cur])
    BY ONLY <2>1, <2>2, <2>2a, GoodRun
  <2> QED BY <2>3, <1>4, <1>6
<1>7a. pos \in [Task -> Places] BY <1>6 DEF Good
<1>7b. \A u \in Task : u # w => at'[u] = pos[u] BY <1>7, <1>7a DEF With
<1>8. Roles(at')
  <2>1. Roles(pos)
    <3>1. Created.k = "new" /\ Created.l = Time /\ Created.v = 0 BY DEF Created, Where
    <3>2. \A x \in Workers : pos[x] = at[x] \/ pos[x] = Created BY <1>6a, WorkerPlaces
    <3>3. pos[Wake] = at[Wake] /\ pos[Chk] = at[Chk] BY <1>3, <1>5, <1>6a, WorkerPlaces
    <3> QED BY <1>5a, <3>1, <3>2, <3>3 DEF Roles
  <2>2. RoleOf(w, at'[w]) BY <1>7, WorkerPlaces
  <2> QED BY <1>2, <1>7, <1>7a, <2>1, <2>2, RolesOne
<1>9. \A x \in Workers : \A k \in {"put", "get"} : /\ at'[x].k = k <=> at[x].k = k
                                                   /\ at[x].k = k => at'[x].v = at[x].v
  <2>1. Created.k = "new" BY DEF Created, Where
  <2> QED BY <1>2, <1>5b, <1>6a, <1>7, <1>7b, <2>1, WorkerPlaces
<1>10. UNCHANGED <<scene, saved, queue, slot, life>> /\ step' \in [Workers -> Nat] /\ alarms' \in Alarms
  BY <1>1, <1>2 DEF Begun, SchedulingInv, TypeOK, Alarms
<1>11. SchedulingInv' /\ UNCHANGED TQ!tvars
  <2>1. s' \in Schedulers /\ at' \in [Task -> Places] BY <1>7 DEF Good, Sound
  <2>2. s'.count[PutEC] = s.count[PutEC] /\ s'.count[GetEC] = s.count[GetEC] BY <1>6
  <2> QED BY <1>7, <1>8, <1>9, <1>10, <2>1, <2>2, QuietStep
<1>12. WakeKept BY <1>3, <1>5, <1>6, <1>6a, <1>7b DEF WakeKept
<1> QED BY <1>4, <1>6, <1>11, <1>12 DEF Stepped

\* A step that serves a call of the queue.
LEMMA QueueStep ==
  ASSUME SchedulingInv, UNCHANGED <<scene, saved, life, alarms>>, Good(s', at'), Roles(at'),
         step' \in [Workers -> Nat], queue' \in Queues, slot' \in Slots,
         Tickets(at', s'.count, queue'.p, queue'.g), Ring(s'.count, slot', queue'.put, queue'.get),
         Counters'
  PROVE  SchedulingInv'
<1>1. s' \in Schedulers /\ at' \in [Task -> Places] BY DEF Good, Sound
<1>2. TypeOK' BY <1>1 DEF SchedulingInv, TypeOK, File
<1>3. ListsSound(s') /\ Placed(On(s'), s'.cnt, s'.count, s'.cur, at') BY DEF Good, Sound
<1>4. saved' # <<>> => FileSound' BY DEF SchedulingInv, FileSound, File
<1>5. life' = 2 => saved' # <<>> BY DEF SchedulingInv
<1> QED BY <1>2, <1>3, <1>4, <1>5 DEF SchedulingInv

\* The fields of the queue that a call of Put or Get finds.
SameRing(q) == /\ q \in Queues /\ q.put = queue.put /\ q.get = queue.get
               /\ q.putCount = queue.putCount /\ q.getCount = queue.getCount

\* Worker w goes on, and the lists of event count l have moved.
Served1(w, l) ==
  /\ Good(s', at') /\ Roles(at') /\ s'.cur = s.cur /\ s'.fault = "" /\ WakeKept
  /\ s.count \in [Lists -> Nat] /\ s'.count \in [Lists -> Nat]
  /\ s'.count[l] = s.count[l] + 1 /\ \A e \in EC \ {l} : s'.count[e] = s.count[e]
  /\ at'[w].k = "run" /\ \A x \in Workers \ {w} : at'[x] = at[x]

\* The event count that a call of the queue advances is one higher, and all else that
\* the queue counts is as it was.
LEMMA ServedOne ==
  ASSUME SchedulingInv, NEW w \in Workers, Running(w), NEW l \in EC, s' = Advance(s, l),
         at' = [at EXCEPT ![w].k = "run"]
  PROVE  Served1(w, l)
<1>1. w \in Task /\ w # Wake /\ Wake \in Task /\ Workers \subseteq Task BY WorkerPlaces
<1>2. Good(s, at) /\ s.cur = w /\ s.fault = "" /\ s.count \in [Lists -> Nat] BY <1>1, InvRunning
<1>3. at \in [Task -> Places] /\ Roles(at) BY DEF SchedulingInv, TypeOK
<1>4. /\ Good(s', at) /\ s'.cur = s.cur /\ s'.fault = s.fault
      /\ s'.count[l] = s.count[l] + 1 /\ \A e \in Lists \ {l} : s'.count[e] = s.count[e]
      /\ \A t \in Task : t \notin On(s)[l] => s'.cnt[t] = s.cnt[t]
  <2>1. Good(s, at) /\ s.cur \in Task /\ l \in EC BY <1>1, <1>2
  <2>2. LET s2 == Advance(s, l)
        IN  /\ Good(s2, at) /\ s2.cur = s.cur /\ s2.fault = s.fault
            /\ s2.count[l] = s.count[l] + 1 /\ \A e \in Lists \ {l} : s2.count[e] = s.count[e]
            /\ \A t \in Task : t \notin On(s)[l] => s2.cnt[t] = s.cnt[t]
    BY ONLY <2>1, GoodAdvance
  <2> QED BY <2>2
<1>5. /\ Good(s', at') /\ at'[w].k = "run" /\ at' = With(at, w, at'[w])
  <2>1. s'.cur \in Task /\ at' = AsKind(at, s'.cur, "run") BY <1>1, <1>2, <1>4 DEF AsKind
  <2>2. "run" \in Kinds \ Gone BY DEF Kinds, Gone
  <2>2a. Good(s', at) BY <1>4
  <2>3. Good(s', at') /\ at'[s'.cur].k = "run" /\ at' = With(at, s'.cur, at'[s'.cur])
    BY ONLY <2>1, <2>2, <2>2a, GoodRun
  <2> QED BY <2>3, <1>2, <1>4
<1>6. Roles(at')
  <2>1. RoleOf(w, at'[w]) BY <1>5, WorkerPlaces
  <2> QED BY <1>1, <1>3, <1>5, <2>1, RolesOne
<1>7. WakeKept
  <2>1. Wake \notin On(s)[l] BY <1>2, <1>3, WakeOff
  <2>2. at'[Wake] = at[Wake] BY <1>1, <1>3
  <2> QED BY <1>1, <1>4, <2>1, <2>2 DEF WakeKept
<1>8. \A x \in Workers \ {w} : at'[x] = at[x] BY <1>1, <1>3
<1>9. s'.count \in [Lists -> Nat] BY <1>4 DEF Good, Sound, Schedulers
<1>10. \A e \in EC \ {l} : s'.count[e] = s.count[e] BY <1>4 DEF Lists
<1> QED BY <1>2, <1>4, <1>5, <1>6, <1>7, <1>8, <1>9, <1>10 DEF Served1

\* Put after its await.
LEMMA PutServed ==
  ASSUME SchedulingInv, NEW w \in Workers, Running(w), at[w].k # "get", UNCHANGED <<scene, saved, life, alarms>>,
         step' \in [Workers -> Nat], at' = [at EXCEPT ![w].k = "run"], NEW q, SameRing(q), q.g = queue.g,
         PutSlot(q, s), Side(at', "put", q.p, s.count[PutEC], s.count[GetEC] + 1)
  PROVE  /\ Stepped /\ WakeKept /\ queue'.p = q.p /\ queue'.g = queue.g
         /\ Served(at', "get", queue.g) = Served(at, "get", queue.g)
<1>0. /\ PutEC \in EC /\ GetEC \in EC /\ PutEC # GetEC /\ PutEC \in Lists /\ GetEC \in Lists
      /\ Size \in Nat \ {0}
  BY SchedulingAssumption DEF Lists
<1>1. /\ queue' = [q EXCEPT !.putCount = @ + 1, !.put = (@ + 1) % Size]
      /\ slot' = [slot EXCEPT ![q.put] = s.count[GetEC] + 1] /\ s' = Advance(s, GetEC)
  BY DEF PutSlot
<1>2. Served1(w, GetEC) BY <1>0, <1>1, ServedOne
<1>3. /\ s.count \in [Lists -> Nat] /\ s'.count \in [Lists -> Nat]
      /\ s'.count[GetEC] = s.count[GetEC] + 1 /\ s'.count[PutEC] = s.count[PutEC]
      /\ s.count[GetEC] \in Nat /\ s.count[PutEC] \in Nat
  BY <1>0, <1>2 DEF Served1
<1>4. queue \in Queues /\ slot \in Slots /\ q \in Queues /\ q.put = queue.put BY DEF SchedulingInv, TypeOK, SameRing
<1>5. /\ queue'.p = q.p /\ queue'.g = queue.g /\ queue'.get = queue.get
      /\ queue'.put = (queue.put + 1) % Size /\ queue'.putCount = queue.putCount + 1
      /\ queue'.getCount = queue.getCount
  BY <1>1, <1>4 DEF SameRing, Queues
<1>6. Tickets(at, s.count, queue.p, queue.g) /\ Ring(s.count, slot, queue.put, queue.get)
  BY DEF SchedulingInv
<1>7. /\ Side(at, "put", queue.p, s.count[PutEC], s.count[GetEC])
      /\ Side(at, "get", queue.g, s.count[GetEC], s.count[PutEC] - Size)
  BY ONLY <1>3, <1>6, TicketSides
<1>8. /\ Side(at', "get", queue.g, s.count[GetEC] + 1, s.count[PutEC] - Size)
      /\ Served(at', "get", queue.g) = Served(at, "get", queue.g)
  <2>1. Side(at, "get", queue.g, s.count[GetEC], s.count[PutEC] - Size) BY <1>7
  <2>2. \A x \in Workers : /\ at'[x].k = "get" <=> at[x].k = "get"
                           /\ at[x].k = "get" => at'[x].v = at[x].v
    BY <1>2 DEF Served1
  <2>3. \A n \in Nat : n + 1 \in Nat /\ n + 1 >= n BY ONLY <1>3
  <2>4. s.count[GetEC] + 1 \in Nat /\ s.count[GetEC] + 1 >= s.count[GetEC] BY ONLY <1>3, <2>3
  <2> QED BY ONLY <2>1, <2>2, <2>4, SideSame
<1>9. Tickets(at', s'.count, queue'.p, queue'.g)
  <2>1. /\ Side(at', "put", queue'.p, s'.count[PutEC], s'.count[GetEC])
        /\ Side(at', "get", queue'.g, s'.count[GetEC], s'.count[PutEC] - Size)
    BY <1>3, <1>5, <1>8
  <2>2. s'.count \in [Lists -> Nat] BY <1>3
  <2> QED BY ONLY <2>1, <2>2, TicketSides
<1>10. /\ s.count[PutEC] - Size \in Nat /\ s.count[PutEC] - Size <= s.count[GetEC]
       /\ s.count[GetEC] + 1 <= s.count[PutEC]
  <2>1. s.count[PutEC] - Size \in Nat /\ s.count[PutEC] - Size <= s.count[GetEC]
    BY ONLY <1>3, <1>6, TicketBounds
  <2>2. s'.count[GetEC] <= s'.count[PutEC] BY ONLY <1>3, <1>9, TicketBounds
  <2> QED BY <1>3, <2>1, <2>2
<1>11. Ring(s'.count, slot', queue'.put, queue'.get)
  <2>1. slot' = [slot EXCEPT ![queue.put] = s.count[GetEC] + 1] BY <1>1, <1>4
  <2>2. s.count \in [Lists -> Nat] /\ slot \in Slots /\ Ring(s.count, slot, queue.put, queue.get)
    BY <1>3, <1>4, <1>6
  <2>3. s'.count[GetEC] = s.count[GetEC] + 1 /\ s'.count[PutEC] = s.count[PutEC] BY <1>3
  <2>4. Ring(s'.count, [slot EXCEPT ![queue.put] = s.count[GetEC] + 1], (queue.put + 1) % Size, queue.get)
    BY ONLY <2>2, <2>3, <1>10, RingPut
  <2> QED BY <1>5, <2>1, <2>4
<1>12. queue' \in Queues /\ slot' \in Slots
  <2>1. queue.put + 1 \in Int BY <1>0, <1>4 DEF Queues
  <2>2. (queue.put + 1) % Size \in 0..(Size - 1) BY ONLY <1>0, <2>1, ModParts
  <2>3. queue' \in Queues
    <3> DEFINE d == (q.put + 1) % Size
               e == q.putCount + 1
    <3>1. d \in 0..(Size - 1) BY <1>4, <2>2
    <3>2. e \in Nat BY <1>4 DEF Queues
    <3>3. queue' = [q EXCEPT !.putCount = e, !.put = d] BY <1>1
    <3> HIDE DEF d, e
    <3> QED BY <1>4, <3>1, <3>2, <3>3 DEF Queues
  <2>4. slot' \in Slots
    <3> DEFINE e == s.count[GetEC] + 1
    <3>1. e \in Nat /\ slot' = [slot EXCEPT ![q.put] = e] BY <1>1, <1>3
    <3> HIDE DEF e
    <3> QED BY <1>4, <3>1 DEF Slots
  <2> QED BY <2>3, <2>4
<1>13. Counters' BY <1>3, <1>5 DEF SchedulingInv, Counters
<1>14. SchedulingInv' BY <1>2, <1>9, <1>11, <1>12, <1>13, QueueStep DEF Served1
<1> QED BY <1>2, <1>5, <1>8, <1>14 DEF Served1, Stepped

\* Get after its await.
LEMMA GetServed ==
  ASSUME SchedulingInv, NEW w \in Workers, Running(w), at[w].k # "put", UNCHANGED <<scene, saved, life, alarms>>,
         step' \in [Workers -> Nat], at' = [at EXCEPT ![w].k = "run"], NEW q, SameRing(q), q.p = queue.p,
         GetSlot(q, s), Side(at', "get", q.g, s.count[GetEC], s.count[PutEC] - Size + 1)
  PROVE  /\ Stepped /\ WakeKept /\ queue'.p = queue.p /\ queue'.g = q.g
         /\ Served(at', "put", queue.p) = Served(at, "put", queue.p)
<1>0. /\ PutEC \in EC /\ GetEC \in EC /\ PutEC # GetEC /\ PutEC \in Lists /\ GetEC \in Lists
      /\ Size \in Nat \ {0}
  BY SchedulingAssumption DEF Lists
<1>1. /\ queue' = [q EXCEPT !.getCount = @ + 1, !.get = (@ + 1) % Size]
      /\ slot' = [slot EXCEPT ![q.get] = 0] /\ s' = Advance(s, PutEC)
  BY DEF GetSlot
<1>2. Served1(w, PutEC) BY <1>0, <1>1, ServedOne
<1>3. /\ s.count \in [Lists -> Nat] /\ s'.count \in [Lists -> Nat]
      /\ s'.count[PutEC] = s.count[PutEC] + 1 /\ s'.count[GetEC] = s.count[GetEC]
      /\ s.count[GetEC] \in Nat /\ s.count[PutEC] \in Nat
  BY <1>0, <1>2 DEF Served1
<1>3a. s'.count[PutEC] - Size = s.count[PutEC] - Size + 1 BY <1>0, <1>3
<1>4. queue \in Queues /\ slot \in Slots /\ q \in Queues /\ q.get = queue.get BY DEF SchedulingInv, TypeOK, SameRing
<1>5. /\ queue'.g = q.g /\ queue'.p = queue.p /\ queue'.put = queue.put
      /\ queue'.get = (queue.get + 1) % Size /\ queue'.getCount = queue.getCount + 1
      /\ queue'.putCount = queue.putCount
  BY <1>1, <1>4 DEF SameRing, Queues
<1>6. Tickets(at, s.count, queue.p, queue.g) /\ Ring(s.count, slot, queue.put, queue.get)
  BY DEF SchedulingInv
<1>7. /\ Side(at, "put", queue.p, s.count[PutEC], s.count[GetEC])
      /\ Side(at, "get", queue.g, s.count[GetEC], s.count[PutEC] - Size)
  BY ONLY <1>3, <1>6, TicketSides
<1>8. /\ Side(at', "put", queue.p, s.count[PutEC] + 1, s.count[GetEC])
      /\ Served(at', "put", queue.p) = Served(at, "put", queue.p)
  <2>1. Side(at, "put", queue.p, s.count[PutEC], s.count[GetEC]) BY <1>7
  <2>2. \A x \in Workers : /\ at'[x].k = "put" <=> at[x].k = "put"
                           /\ at[x].k = "put" => at'[x].v = at[x].v
    BY <1>2 DEF Served1
  <2>3. \A n \in Nat : n + 1 \in Nat /\ n + 1 >= n BY ONLY <1>3
  <2>4. s.count[PutEC] + 1 \in Nat /\ s.count[PutEC] + 1 >= s.count[PutEC] BY ONLY <1>3, <2>3
  <2> QED BY ONLY <2>1, <2>2, <2>4, SideSame
<1>9. Tickets(at', s'.count, queue'.p, queue'.g)
  <2>1. /\ Side(at', "put", queue'.p, s'.count[PutEC], s'.count[GetEC])
        /\ Side(at', "get", queue'.g, s'.count[GetEC], s'.count[PutEC] - Size)
    BY <1>3, <1>3a, <1>5, <1>8
  <2>2. s'.count \in [Lists -> Nat] BY <1>3
  <2> QED BY ONLY <2>1, <2>2, TicketSides
<1>10. /\ s.count[PutEC] - Size \in Nat /\ s.count[GetEC] <= s.count[PutEC]
       /\ s.count[PutEC] - Size + 1 <= s.count[GetEC]
  <2>1. s.count[PutEC] - Size \in Nat /\ s.count[GetEC] <= s.count[PutEC]
    BY ONLY <1>3, <1>6, TicketBounds
  <2>2. s'.count[PutEC] - Size <= s'.count[GetEC] BY ONLY <1>3, <1>9, TicketBounds
  <2> QED BY <1>3, <1>3a, <2>1, <2>2
<1>11. Ring(s'.count, slot', queue'.put, queue'.get)
  <2>1. slot' = [slot EXCEPT ![queue.get] = 0] BY <1>1, <1>4
  <2>2. s.count \in [Lists -> Nat] /\ slot \in Slots /\ Ring(s.count, slot, queue.put, queue.get)
    BY <1>3, <1>4, <1>6
  <2>3. s'.count[PutEC] = s.count[PutEC] + 1 /\ s'.count[GetEC] = s.count[GetEC] BY <1>3
  <2>4. Ring(s'.count, [slot EXCEPT ![queue.get] = 0], queue.put, (queue.get + 1) % Size)
    BY ONLY <2>2, <2>3, <1>10, RingGet
  <2> QED BY <1>5, <2>1, <2>4
<1>12. queue' \in Queues /\ slot' \in Slots
  <2>1. queue.get + 1 \in Int BY <1>0, <1>4 DEF Queues
  <2>2. (queue.get + 1) % Size \in 0..(Size - 1) BY ONLY <1>0, <2>1, ModParts
  <2>3. queue' \in Queues
    <3> DEFINE d == (q.get + 1) % Size
               e == q.getCount + 1
    <3>1. d \in 0..(Size - 1) BY <1>4, <2>2
    <3>2. e \in Nat BY <1>4 DEF Queues
    <3>3. queue' = [q EXCEPT !.getCount = e, !.get = d] BY <1>1
    <3> HIDE DEF d, e
    <3> QED BY <1>4, <3>1, <3>2, <3>3 DEF Queues
  <2>4. slot' \in Slots BY <1>1, <1>4 DEF Slots
  <2> QED BY <2>3, <2>4
<1>13. Counters' BY <1>3, <1>3a, <1>5 DEF SchedulingInv, Counters
<1>14. SchedulingInv' BY <1>2, <1>9, <1>11, <1>12, <1>13, QueueStep DEF Served1
<1> QED BY <1>2, <1>5, <1>8, <1>14 DEF Served1, Stepped

\* The event counts in terms of the tickets served.
LEMMA TicketCounts ==
  ASSUME SchedulingInv
  PROVE  /\ s.count[PutEC] = Size + Cardinality(GetDone) /\ s.count[GetEC] = Cardinality(PutDone)
         /\ queue.p \in Nat /\ queue.g \in Nat /\ PutDone \subseteq 1..queue.p /\ GetDone \subseteq 1..queue.g
         /\ s.count \in [Lists -> Nat] /\ s.count[PutEC] \in Nat /\ s.count[GetEC] \in Nat
         /\ Side(at, "put", queue.p, s.count[PutEC], s.count[GetEC])
         /\ Side(at, "get", queue.g, s.count[GetEC], s.count[PutEC] - Size)
<1>1. Tickets(at, s.count, queue.p, queue.g) /\ s.count \in [Lists -> Nat] /\ queue \in Queues
  BY DEF SchedulingInv, TypeOK, Schedulers
<1>2. /\ Side(at, "put", queue.p, s.count[PutEC], s.count[GetEC])
      /\ Side(at, "get", queue.g, s.count[GetEC], s.count[PutEC] - Size)
  BY ONLY <1>1, TicketSides
<1>3. PutEC \in Lists /\ GetEC \in Lists BY SchedulingAssumption DEF Lists
<1>4. s.count[PutEC] \in Nat /\ s.count[GetEC] \in Nat BY <1>1, <1>3
<1>5. queue.p \in Nat /\ queue.g \in Nat BY <1>1 DEF Queues
<1>6. PutDone \subseteq 1..queue.p /\ GetDone \subseteq 1..queue.g BY DEF PutDone, GetDone, Served
<1>7. s.count[PutEC] = Size + Cardinality(GetDone) /\ s.count[GetEC] = Cardinality(PutDone)
  BY <1>1 DEF Tickets, PutDone, GetDone
<1> QED BY <1>1, <1>2, <1>4, <1>5, <1>6, <1>7

\* What a caller that waits does to the invariant.
LEMMA CallerWaits ==
  ASSUME SchedulingInv, NEW w \in Workers, Running(w), at[w].k \in {"new", "run"},
         UNCHANGED <<scene, saved, life, alarms, slot>>, step' \in [Workers -> Nat],
         NEW k \in {"put", "get"}, NEW l \in {PutEC, GetEC}, NEW v \in Nat, k = "put" <=> l = PutEC,
         s' = Await(s, l, v), at' = [at EXCEPT ![w] = Where(k, l, v)],
         NEW q \in Queues, queue' = q, SameRing(q),
         Side(at', "put", q.p, s.count[PutEC], s.count[GetEC]),
         Side(at', "get", q.g, s.count[GetEC], s.count[PutEC] - Size)
  PROVE  Stepped /\ WakeKept
<1> DEFINE a == Where(k, l, v)
<1>0. /\ PutEC \in EC /\ GetEC \in EC /\ PutEC # GetEC /\ w \in Task /\ w # Wake /\ Wake \in Task
      /\ EC \subseteq Lists
  BY SchedulingAssumption, WorkerPlaces DEF Lists
<1>1. Good(s, at) /\ s.cur = w /\ s.fault = "" BY <1>0, InvRunning
<1>2. l \in Lists /\ v \in Nat BY <1>0
<1>3. a.k = k /\ a.l = l /\ Suspends(a, l, v) /\ a \in Places BY <1>2, WorkerPlaces
<1>4. RoleOf(w, a) BY <1>0, <1>3, WorkerPlaces
<1>4a. at' = [at EXCEPT ![w] = a] OBVIOUS
<1> HIDE DEF a
<1>5. Switched(s', s, at')
  <2>1. s.cur \in Task /\ at' = [at EXCEPT ![s.cur] = a] BY <1>0, <1>1, <1>4a
  <2>2. Good(s, at) /\ l \in Lists /\ v \in Nat /\ Suspends(a, l, v) BY <1>1, <1>2, <1>3
  <2>3. LET s2 == Await(s, l, v)
        IN  /\ Switched(s2, s, at')
            /\ IF s2.cur = s.cur THEN l = Time => s2.count[Time] >= v ELSE s2.cnt[s.cur] = v
    BY ONLY <2>1, <2>2, GoodAwait
  <2>4. s' = Await(s, l, v) OBVIOUS
  <2> QED BY ONLY <2>3, <2>4
<1>6. /\ Good(s', at') /\ s'.fault = "" /\ s'.count[PutEC] = s.count[PutEC]
      /\ s'.count[GetEC] = s.count[GetEC]
  BY <1>0, <1>1, <1>5 DEF Switched
<1>7. at \in [Task -> Places] /\ Roles(at) BY DEF SchedulingInv, TypeOK
<1>8. Roles(at')
  <2>1. at' = With(at, w, a) BY <1>4a DEF With
  <2> QED BY <1>0, <1>4, <1>7, <2>1, RolesOne
<1>9. s'.count \in [Lists -> Nat] BY <1>6 DEF Good, Sound, Schedulers
<1>10. Tickets(at', s'.count, queue'.p, queue'.g)
  <2>1. /\ Side(at', "put", queue'.p, s'.count[PutEC], s'.count[GetEC])
        /\ Side(at', "get", queue'.g, s'.count[GetEC], s'.count[PutEC] - Size)
    BY <1>6
  <2> QED BY ONLY <1>9, <2>1, TicketSides
<1>11. Ring(s'.count, slot', queue'.put, queue'.get)
  <2>1. Ring(s.count, slot, queue.put, queue.get) BY DEF SchedulingInv
  <2> QED BY <1>6, <2>1 DEF Ring, ItemOf, SameRing
<1>12. Counters' BY <1>6 DEF SchedulingInv, Counters, SameRing
<1>13. slot' \in Slots /\ queue' \in Queues BY DEF SchedulingInv, TypeOK
<1>14. SchedulingInv' BY <1>6, <1>8, <1>10, <1>11, <1>12, <1>13, QueueStep
<1>15. WakeKept BY <1>0, <1>1, <1>4a, <1>5, <1>7 DEF Switched, WakeKept
<1> QED BY <1>5, <1>6, <1>14, <1>15 DEF Stepped, Switched

\* A worker puts: its ticket is served at once, or it waits.
LEMMA PutStep ==
  ASSUME SchedulingInv, NEW w \in Workers, Put(w) PROVE Stepped /\ WakeKept /\ TQ!Next
<1> DEFINE q == [queue EXCEPT !.p = @ + 1]
           n == queue.p
<1>1. PICK c \in Call(w, "put") :
        /\ Begun(w) /\ UNCHANGED alarms
        /\ \/ /\ s.count[PutEC] >= q.p
              /\ PutSlot(q, s)
              /\ at' = [at EXCEPT ![w].k = "run"]
           \/ /\ s.count[PutEC] < q.p
              /\ s' = Await(s, PutEC, q.p)
              /\ queue' = q /\ slot' = slot
              /\ at' = [at EXCEPT ![w] = Where("put", PutEC, q.p)]
  BY DEF Put
<1>2. /\ Running(w) /\ at[w].k \in {"new", "run"} /\ w \in Task
      /\ [step EXCEPT ![w] = @ + 1] \in [Workers -> Nat]
  BY Caller
<1>3. UNCHANGED <<scene, saved, life, alarms>> /\ step' \in [Workers -> Nat] BY <1>1, <1>2 DEF Begun
<1>4. queue \in Queues /\ at \in [Task -> Places] /\ Workers \subseteq Task
  BY WorkerPlaces DEF SchedulingInv, TypeOK
<1>5. q \in Queues /\ q.p = n + 1 /\ q.g = queue.g /\ SameRing(q) /\ n \in Nat BY <1>4 DEF Queues, SameRing
<1>6. /\ Side(at, "put", n, s.count[PutEC], s.count[GetEC])
      /\ Side(at, "get", queue.g, s.count[GetEC], s.count[PutEC] - Size)
      /\ s.count[PutEC] = Size + Cardinality(GetDone) /\ s.count[PutEC] \in Nat /\ s.count[GetEC] \in Nat
  BY TicketCounts
<1>7. at[w].k # "put" /\ at[w].k # "get" BY <1>2
<1>7a. n = queue.p OBVIOUS
<1> HIDE DEF q, n
<1>8. CASE s.count[PutEC] >= q.p /\ PutSlot(q, s) /\ at' = [at EXCEPT ![w].k = "run"]
  <2>1. at'[w].k = "run" /\ \A x \in Workers \ {w} : at'[x] = at[x] BY <1>2, <1>4, <1>8
  <2>2. /\ Side(at', "put", n + 1, s.count[PutEC], s.count[GetEC] + 1)
        /\ Served(at', "put", n + 1) = Served(at, "put", n) \cup {n + 1}
    <3>1. at'[w].k # "put" /\ n + 1 <= s.count[PutEC] BY <1>5, <1>6, <1>8, <2>1
    <3>2. Side(at, "put", n, s.count[PutEC], s.count[GetEC]) /\ at[w].k # "put" BY <1>6, <1>7
    <3>3. w \in Workers /\ \A x \in Workers \ {w} : at'[x] = at[x] BY <2>1
    <3> QED BY ONLY <3>1, <3>2, <3>3, SideAtOnce
  <2>3. /\ Stepped /\ WakeKept /\ queue'.p = n + 1 /\ queue'.g = queue.g
        /\ Served(at', "get", queue.g) = Served(at, "get", queue.g)
    <3>1. Side(at', "put", q.p, s.count[PutEC], s.count[GetEC] + 1) BY <1>5, <2>2
    <3> QED BY <1>2, <1>3, <1>5, <1>7, <1>8, <3>1, PutServed
  <2>4. TQ!PutAtOnce
    <3>1. PutDone' = PutDone \cup {queue.p + 1} /\ GetDone' = GetDone BY <2>2, <2>3, <1>7a DEF PutDone, GetDone
    <3>2. queue.p + 1 <= Size + Cardinality(GetDone) BY <1>5, <1>6, <1>7a, <1>8
    <3>3. queue'.p = queue.p + 1 /\ queue'.g = queue.g BY <2>3, <1>7a
    <3> QED BY ONLY <3>1, <3>2, <3>3, TicketTerms, SameCount DEF TQ!PutAtOnce, TQ!PutAllowed
  <2> QED BY <2>3, <2>4 DEF TQ!Next
<1>9. CASE /\ s.count[PutEC] < q.p /\ s' = Await(s, PutEC, q.p)
           /\ queue' = q /\ slot' = slot
           /\ at' = [at EXCEPT ![w] = Where("put", PutEC, q.p)]
  <2>0. PutEC \in Lists /\ n + 1 \in Nat BY <1>5, SchedulingAssumption DEF Lists
  <2>1. at'[w] = Where("put", PutEC, n + 1) /\ \A x \in Workers \ {w} : at'[x] = at[x] BY <1>2, <1>4, <1>5, <1>9
  <2>2. at'[w].k = "put" /\ at'[w].v = n + 1 BY <2>0, <2>1, WorkerPlaces
  <2>3. Side(at', "put", n + 1, s.count[PutEC], s.count[GetEC]) /\ Served(at', "put", n + 1) = Served(at, "put", n)
    <3>1. Side(at, "put", n, s.count[PutEC], s.count[GetEC]) /\ at[w].k # "put" BY <1>6, <1>7
    <3>2. w \in Workers /\ \A x \in Workers \ {w} : at'[x] = at[x] BY <2>1
    <3> QED BY ONLY <2>2, <3>1, <3>2, SideDraw
  <2>4. /\ Side(at', "get", queue.g, s.count[GetEC], s.count[PutEC] - Size)
        /\ Served(at', "get", queue.g) = Served(at, "get", queue.g)
    <3>1. Side(at, "get", queue.g, s.count[GetEC], s.count[PutEC] - Size) BY <1>6
    <3>2. \A x \in Workers : /\ at'[x].k = "get" <=> at[x].k = "get"
                             /\ at[x].k = "get" => at'[x].v = at[x].v
      BY <1>7, <2>1, <2>2
    <3>3. \A x \in Nat : x >= x BY ONLY <1>5
    <3>4. s.count[GetEC] \in Nat /\ s.count[GetEC] >= s.count[GetEC] BY ONLY <1>6, <3>3
    <3> QED BY ONLY <3>1, <3>2, <3>4, SideSame
  <2>5. Stepped /\ WakeKept
    <3>1. "put" \in {"put", "get"} /\ PutEC \in {PutEC, GetEC} /\ q.p \in Nat /\ q \in Queues /\ SameRing(q)
      BY <1>5
    <3>2. /\ Side(at', "put", q.p, s.count[PutEC], s.count[GetEC])
          /\ Side(at', "get", q.g, s.count[GetEC], s.count[PutEC] - Size)
      BY <1>5, <2>3, <2>4
    <3>3. UNCHANGED <<scene, saved, life, alarms, slot>> BY <1>3, <1>9
    <3> QED BY <1>2, <1>3, <1>9, <3>1, <3>2, <3>3, CallerWaits
  <2>6. TQ!DrawPut
    <3>1. PutDone' = PutDone /\ GetDone' = GetDone BY <2>3, <2>4, <1>5, <1>7a, <1>9 DEF PutDone, GetDone
    <3> QED BY <3>1, <1>5, <1>7a, <1>9, TicketTerms DEF TQ!DrawPut
  <2> QED BY <2>5, <2>6 DEF TQ!Next
<1> QED BY <1>1, <1>8, <1>9

\* Get draws a ticket, and is served at once or waits.
LEMMA GetStep ==
  ASSUME SchedulingInv, NEW w \in Workers, Get(w) PROVE Stepped /\ WakeKept /\ TQ!Next
<1> DEFINE q == [queue EXCEPT !.g = @ + 1]
           n == queue.g
<1>1. PICK c \in Call(w, "get") :
        /\ Begun(w) /\ UNCHANGED alarms
        /\ \/ /\ s.count[GetEC] >= q.g
              /\ GetSlot(q, s)
              /\ at' = [at EXCEPT ![w].k = "run"]
           \/ /\ s.count[GetEC] < q.g
              /\ s' = Await(s, GetEC, q.g)
              /\ queue' = q /\ slot' = slot
              /\ at' = [at EXCEPT ![w] = Where("get", GetEC, q.g)]
  BY DEF Get
<1>2. /\ Running(w) /\ at[w].k \in {"new", "run"} /\ w \in Task
      /\ [step EXCEPT ![w] = @ + 1] \in [Workers -> Nat]
  BY Caller
<1>3. UNCHANGED <<scene, saved, life, alarms>> /\ step' \in [Workers -> Nat] BY <1>1, <1>2 DEF Begun
<1>4. queue \in Queues /\ at \in [Task -> Places] /\ Workers \subseteq Task
  BY WorkerPlaces DEF SchedulingInv, TypeOK
<1>5. q \in Queues /\ q.g = n + 1 /\ q.p = queue.p /\ SameRing(q) /\ n \in Nat BY <1>4 DEF Queues, SameRing
<1>6. /\ Side(at, "get", n, s.count[GetEC], s.count[PutEC] - Size)
      /\ Side(at, "put", queue.p, s.count[PutEC], s.count[GetEC])
      /\ s.count[GetEC] = Cardinality(PutDone) /\ s.count[PutEC] \in Nat /\ s.count[GetEC] \in Nat
  BY TicketCounts
<1>7. at[w].k # "get" /\ at[w].k # "put" BY <1>2
<1>7a. n = queue.g OBVIOUS
<1> HIDE DEF q, n
<1>8. CASE s.count[GetEC] >= q.g /\ GetSlot(q, s) /\ at' = [at EXCEPT ![w].k = "run"]
  <2>1. at'[w].k = "run" /\ \A x \in Workers \ {w} : at'[x] = at[x] BY <1>2, <1>4, <1>8
  <2>2. /\ Side(at', "get", n + 1, s.count[GetEC], s.count[PutEC] - Size + 1)
        /\ Served(at', "get", n + 1) = Served(at, "get", n) \cup {n + 1}
    <3>1. at'[w].k # "get" /\ n + 1 <= s.count[GetEC] BY <1>5, <1>6, <1>8, <2>1
    <3>2. Side(at, "get", n, s.count[GetEC], s.count[PutEC] - Size) /\ at[w].k # "get" BY <1>6, <1>7
    <3>3. w \in Workers /\ \A x \in Workers \ {w} : at'[x] = at[x] BY <2>1
    <3> QED BY ONLY <3>1, <3>2, <3>3, SideAtOnce
  <2>3. /\ Stepped /\ WakeKept /\ queue'.g = n + 1 /\ queue'.p = queue.p
        /\ Served(at', "put", queue.p) = Served(at, "put", queue.p)
    <3>1. Side(at', "get", q.g, s.count[GetEC], s.count[PutEC] - Size + 1) BY <1>5, <2>2
    <3> QED BY <1>2, <1>3, <1>5, <1>7, <1>8, <3>1, GetServed
  <2>4. TQ!GetAtOnce
    <3>1. GetDone' = GetDone \cup {queue.g + 1} /\ PutDone' = PutDone BY <2>2, <2>3, <1>7a DEF PutDone, GetDone
    <3>2. queue.g + 1 <= Cardinality(PutDone) BY <1>5, <1>6, <1>7a, <1>8
    <3>3. queue'.g = queue.g + 1 /\ queue'.p = queue.p BY <2>3, <1>7a
    <3> QED BY ONLY <3>1, <3>2, <3>3, TicketTerms, SameCount DEF TQ!GetAtOnce, TQ!GetAllowed
  <2> QED BY <2>3, <2>4 DEF TQ!Next
<1>9. CASE /\ s.count[GetEC] < q.g /\ s' = Await(s, GetEC, q.g)
           /\ queue' = q /\ slot' = slot
           /\ at' = [at EXCEPT ![w] = Where("get", GetEC, q.g)]
  <2>0. GetEC \in Lists /\ n + 1 \in Nat BY <1>5, SchedulingAssumption DEF Lists
  <2>1. at'[w] = Where("get", GetEC, n + 1) /\ \A x \in Workers \ {w} : at'[x] = at[x] BY <1>2, <1>4, <1>5, <1>9
  <2>2. at'[w].k = "get" /\ at'[w].v = n + 1 BY <2>0, <2>1, WorkerPlaces
  <2>3. Side(at', "get", n + 1, s.count[GetEC], s.count[PutEC] - Size) /\ Served(at', "get", n + 1) = Served(at, "get", n)
    <3>1. Side(at, "get", n, s.count[GetEC], s.count[PutEC] - Size) /\ at[w].k # "get" BY <1>6, <1>7
    <3>2. w \in Workers /\ \A x \in Workers \ {w} : at'[x] = at[x] BY <2>1
    <3> QED BY ONLY <2>2, <3>1, <3>2, SideDraw
  <2>4. /\ Side(at', "put", queue.p, s.count[PutEC], s.count[GetEC])
        /\ Served(at', "put", queue.p) = Served(at, "put", queue.p)
    <3>1. Side(at, "put", queue.p, s.count[PutEC], s.count[GetEC]) BY <1>6
    <3>2. \A x \in Workers : /\ at'[x].k = "put" <=> at[x].k = "put"
                             /\ at[x].k = "put" => at'[x].v = at[x].v
      BY <1>7, <2>1, <2>2
    <3>3. \A x \in Nat : x >= x BY ONLY <1>5
    <3>4. s.count[PutEC] \in Nat /\ s.count[PutEC] >= s.count[PutEC] BY ONLY <1>6, <3>3
    <3> QED BY ONLY <3>1, <3>2, <3>4, SideSame
  <2>5. Stepped /\ WakeKept
    <3>1. "get" \in {"put", "get"} /\ GetEC \in {PutEC, GetEC} /\ q.g \in Nat /\ q \in Queues /\ SameRing(q)
      BY <1>5
    <3>2. /\ Side(at', "get", q.g, s.count[GetEC], s.count[PutEC] - Size)
          /\ Side(at', "put", q.p, s.count[PutEC], s.count[GetEC])
      BY <1>5, <2>3, <2>4
    <3>3. UNCHANGED <<scene, saved, life, alarms, slot>> BY <1>3, <1>9
    <3>4. "get" = "put" <=> GetEC = PutEC BY SchedulingAssumption
    <3> QED BY <1>2, <1>3, <1>9, <3>1, <3>2, <3>3, <3>4, CallerWaits
  <2>6. TQ!DrawGet
    <3>1. PutDone' = PutDone /\ GetDone' = GetDone BY <2>3, <2>4, <1>5, <1>7a, <1>9 DEF PutDone, GetDone
    <3> QED BY <3>1, <1>5, <1>7a, <1>9, TicketTerms DEF TQ!DrawGet
  <2> QED BY <2>5, <2>6 DEF TQ!Next
<1> QED BY <1>1, <1>8, <1>9

\* A caller of Put that waited is served when it runs again.
LEMMA PutResumedStep ==
  ASSUME SchedulingInv, NEW w \in Workers, PutResumed(w) PROVE Stepped /\ WakeKept /\ TQ!Next
<1> DEFINE t == at[w].v
<1>1. /\ Running(w) /\ at[w].k = "put" /\ PutSlot(queue, s) /\ at' = [at EXCEPT ![w].k = "run"]
      /\ UNCHANGED <<scene, step, alarms, saved, life>>
  BY DEF PutResumed
<1>2. /\ w \in Task /\ queue \in Queues /\ at \in [Task -> Places] /\ Roles(at) /\ Workers \subseteq Task
      /\ step \in [Workers -> Nat] /\ PutEC \in EC
  BY WorkerPlaces, SchedulingAssumption DEF SchedulingInv, TypeOK
<1>3. SameRing(queue) /\ UNCHANGED <<scene, saved, life, alarms>> /\ step' \in [Workers -> Nat]
  BY <1>1, <1>2 DEF SameRing
<1>4. /\ Side(at, "put", queue.p, s.count[PutEC], s.count[GetEC])
      /\ s.count[PutEC] = Size + Cardinality(GetDone) /\ queue.p \in Nat
  BY TicketCounts
<1>5. t <= s.count[PutEC] /\ t \in Nat
  <2>1. at[w].l = PutEC BY <1>1, <1>2 DEF Roles
  <2>2. /\ at[w] \in Places /\ s.count \in [Lists -> Nat]
        /\ at[w].l \in EC => s.count[at[w].l] >= at[w].v
    BY <1>1, <1>2, InvRunning
  <2>3. s.count[PutEC] \in Nat /\ at[w].v \in Nat BY <1>2, <2>2 DEF Lists, Places
  <2> QED BY <1>2, <2>1, <2>2, <2>3
<1>6. at'[w].k = "run" /\ \A x \in Workers \ {w} : at'[x] = at[x] BY <1>1, <1>2
<1>7. /\ Side(at', "put", queue.p, s.count[PutEC], s.count[GetEC] + 1)
      /\ at[w].v \in (1..queue.p) \ Served(at, "put", queue.p)
      /\ Served(at', "put", queue.p) = Served(at, "put", queue.p) \cup {at[w].v}
  <2>1. at'[w].k # "put" /\ at[w].k = "put" /\ at[w].v <= s.count[PutEC] BY <1>1, <1>5, <1>6
  <2>2. w \in Workers /\ \A x \in Workers \ {w} : at'[x] = at[x] BY <1>6
  <2>3. Side(at, "put", queue.p, s.count[PutEC], s.count[GetEC]) BY <1>4
  <2> QED BY ONLY <2>1, <2>2, <2>3, SideServe
<1>8. /\ Stepped /\ WakeKept /\ queue'.p = queue.p /\ queue'.g = queue.g
      /\ Served(at', "get", queue.g) = Served(at, "get", queue.g)
  <2>1. at[w].k # "get" BY <1>1
  <2> QED BY <1>1, <1>2, <1>3, <1>7, <2>1, PutServed
<1>9. TQ!ServePut(t) /\ t \in 1..queue.p
  <2>1. PutDone' = PutDone \cup {t} /\ GetDone' = GetDone /\ t \in (1..queue.p) \ PutDone
    BY <1>7, <1>8 DEF PutDone, GetDone
  <2>2. t <= Size + Cardinality(GetDone) BY <1>4, <1>5
  <2>3. queue'.p = queue.p /\ queue'.g = queue.g BY <1>8
  <2> HIDE DEF t
  <2>4. TQ!ServePut(t) BY ONLY <2>1, <2>2, <2>3, TicketTerms, SameCount DEF TQ!ServePut, TQ!PutAllowed
  <2> QED BY <2>1, <2>4
<1> HIDE DEF t
<1> QED BY <1>8, <1>9 DEF TQ!Next

\* A caller of Get that waited is served when it runs again.
LEMMA GetResumedStep ==
  ASSUME SchedulingInv, NEW w \in Workers, GetResumed(w) PROVE Stepped /\ WakeKept /\ TQ!Next
<1> DEFINE t == at[w].v
<1>1. /\ Running(w) /\ at[w].k = "get" /\ GetSlot(queue, s) /\ at' = [at EXCEPT ![w].k = "run"]
      /\ UNCHANGED <<scene, step, alarms, saved, life>>
  BY DEF GetResumed
<1>2. /\ w \in Task /\ queue \in Queues /\ at \in [Task -> Places] /\ Roles(at) /\ Workers \subseteq Task
      /\ step \in [Workers -> Nat] /\ GetEC \in EC
  BY WorkerPlaces, SchedulingAssumption DEF SchedulingInv, TypeOK
<1>3. SameRing(queue) /\ UNCHANGED <<scene, saved, life, alarms>> /\ step' \in [Workers -> Nat]
  BY <1>1, <1>2 DEF SameRing
<1>4. /\ Side(at, "get", queue.g, s.count[GetEC], s.count[PutEC] - Size)
      /\ s.count[GetEC] = Cardinality(PutDone) /\ queue.g \in Nat
  BY TicketCounts
<1>5. t <= s.count[GetEC] /\ t \in Nat
  <2>1. at[w].l = GetEC BY <1>1, <1>2 DEF Roles
  <2>2. /\ at[w] \in Places /\ s.count \in [Lists -> Nat]
        /\ at[w].l \in EC => s.count[at[w].l] >= at[w].v
    BY <1>1, <1>2, InvRunning
  <2>3. s.count[GetEC] \in Nat /\ at[w].v \in Nat BY <1>2, <2>2 DEF Lists, Places
  <2> QED BY <1>2, <2>1, <2>2, <2>3
<1>6. at'[w].k = "run" /\ \A x \in Workers \ {w} : at'[x] = at[x] BY <1>1, <1>2
<1>7. /\ Side(at', "get", queue.g, s.count[GetEC], s.count[PutEC] - Size + 1)
      /\ at[w].v \in (1..queue.g) \ Served(at, "get", queue.g)
      /\ Served(at', "get", queue.g) = Served(at, "get", queue.g) \cup {at[w].v}
  <2>1. at'[w].k # "get" /\ at[w].k = "get" /\ at[w].v <= s.count[GetEC] BY <1>1, <1>5, <1>6
  <2>2. w \in Workers /\ \A x \in Workers \ {w} : at'[x] = at[x] BY <1>6
  <2>3. Side(at, "get", queue.g, s.count[GetEC], s.count[PutEC] - Size) BY <1>4
  <2> QED BY ONLY <2>1, <2>2, <2>3, SideServe
<1>8. /\ Stepped /\ WakeKept /\ queue'.p = queue.p /\ queue'.g = queue.g
      /\ Served(at', "put", queue.p) = Served(at, "put", queue.p)
  <2>1. at[w].k # "put" BY <1>1
  <2> QED BY <1>1, <1>2, <1>3, <1>7, <2>1, GetServed
<1>9. TQ!ServeGet(t) /\ t \in 1..queue.g
  <2>1. GetDone' = GetDone \cup {t} /\ PutDone' = PutDone /\ t \in (1..queue.g) \ GetDone
    BY <1>7, <1>8 DEF GetDone, PutDone
  <2>2. t <= Cardinality(PutDone) BY <1>4, <1>5
  <2>3. queue'.p = queue.p /\ queue'.g = queue.g BY <1>8
  <2> HIDE DEF t
  <2>4. TQ!ServeGet(t) BY ONLY <2>1, <2>2, <2>3, TicketTerms, SameCount DEF TQ!ServeGet, TQ!GetAllowed
  <2> QED BY <2>1, <2>4
<1> HIDE DEF t
<1> QED BY <1>8, <1>9 DEF TQ!Next

----------------------------------------------------------------------------
(* Alarms.                                                                 *)

\* What an alarm consists of.
Alarm == [ec : Shared, time : Nat]

\* The loop of future_advance: the alarms in front of the new one are those
\* sooner than it, up to the first that is not.
LEMMA SoonerIs ==
  ASSUME NEW q \in Seq(Alarm), NEW a \in Alarm
  PROVE  /\ Sooner(a, q) \in 0..Len(q) /\ \A j \in 1..Sooner(a, q) : q[j].time < a.time
         /\ Sooner(a, q) < Len(q) => a.time <= q[Sooner(a, q) + 1].time
<1> DEFINE n == Len(q)
           D == {i \in 1..n : \A j \in 1..i : q[j].time < a.time}
           B == {i \in 1..(n + 1) : i = n + 1 \/ ~(q[i].time < a.time)}
<1>0. n \in Nat /\ a.time \in Nat /\ \A i \in 1..n : q[i].time \in Nat
  <2>1. \A x \in Alarm : x.time \in Nat BY DEF Alarm
  <2>2. n \in Nat /\ \A i \in 1..n : q[i] \in Alarm OBVIOUS
  <2> QED BY <2>1, <2>2
<1>1. PICK m \in B : \A i \in B : m <= i
  <2>1. B \in SUBSET Nat /\ n + 1 \in B BY <1>0
  <2> HIDE DEF B
  <2> QED BY <2>1, LeastExists
<1>2. m \in 1..(n + 1) /\ (m = n + 1 \/ ~(q[m].time < a.time)) BY <1>1
<1>3. \A j \in 1..(m - 1) : q[j].time < a.time
  <2> SUFFICES ASSUME NEW j \in 1..(m - 1) PROVE q[j].time < a.time OBVIOUS
  <2>1. j \in 1..(n + 1) /\ j # n + 1 /\ ~(m <= j) BY <1>0, <1>2
  <2> QED BY <1>1, <2>1
<1>4. D = 1..(m - 1)
  <2>1. ASSUME NEW i \in 1..(m - 1) PROVE i \in D BY <1>0, <1>2, <1>3
  <2>2. ASSUME NEW i \in D PROVE i \in 1..(m - 1)
    <3>1. CASE m = n + 1 BY <3>1, <1>0
    <3>2. CASE m # n + 1
      <4>1. i \in 1..n /\ ~(m \in 1..i) BY <1>2, <3>2
      <4> QED BY <4>1, <1>0, <1>2
    <3> QED BY <3>1, <3>2
  <2> QED BY <2>1, <2>2
<1>5. Cardinality(1..(m - 1)) = m - 1
  <2>1. 1 \in Int /\ m - 1 \in Int /\ m - 1 >= 0 BY <1>0, <1>2
  <2>2. Cardinality(1..(m - 1)) = IF 1 > m - 1 THEN 0 ELSE (m - 1) - 1 + 1 BY <2>1, FS_Interval
  <2> QED BY <2>1, <2>2
<1>6. Sooner(a, q) = m - 1 BY <1>4, <1>5 DEF Sooner
<1>7. m - 1 \in 0..n /\ (m - 1 < n => a.time <= q[m].time /\ m - 1 + 1 = m) BY <1>0, <1>2
<1> QED BY <1>3, <1>6, <1>7

\* q2 is as with a put in behind the first k.
PutIn(q2, q, a, k) ==
  /\ q2 \in Seq(Alarm) /\ Len(q2) = Len(q) + 1
  /\ \A i \in 1..Len(q2) : q2[i] = IF i <= k THEN q[i] ELSE IF i = k + 1 THEN a ELSE q[i - 1]

\* InsertAt puts the alarm behind place k.
LEMMA InsertedAt ==
  ASSUME NEW q \in Seq(Alarm), NEW a \in Alarm, NEW k \in 0..Len(q)
  PROVE  PutIn(InsertAt(q, k + 1, a), q, a, k)
<1> DEFINE b == SubSeq(q, 1, k)
           d == SubSeq(q, k + 1, Len(q))
           e == (b \o <<a>>) \o d
<1>0. Len(q) \in Nat /\ k \in Nat /\ (k + 1) - 1 = k OBVIOUS
<1>1. InsertAt(q, k + 1, a) = e BY <1>0 DEF InsertAt
<1>2. b \in Seq(Alarm) /\ Len(b) = k /\ \A i \in 1..k : b[i] = q[i] BY <1>0
<1>3. d \in Seq(Alarm) /\ Len(d) = Len(q) - k /\ \A i \in 1..(Len(q) - k) : d[i] = q[k + i] BY <1>0
<1>4. <<a>> \in Seq(Alarm) /\ Len(<<a>>) = 1 /\ <<a>>[1] = a OBVIOUS
<1> HIDE DEF b, d
<1>5. /\ b \o <<a>> \in Seq(Alarm) /\ Len(b \o <<a>>) = k + 1
      /\ \A i \in 1..(k + 1) : (b \o <<a>>)[i] = IF i <= k THEN q[i] ELSE a
  BY <1>0, <1>2, <1>4
<1> DEFINE f == b \o <<a>>
<1>5a. f \in Seq(Alarm) /\ Len(f) = k + 1 /\ \A i \in 1..(k + 1) : f[i] = IF i <= k THEN q[i] ELSE a
  BY <1>5
<1>5b. e = f \o d OBVIOUS
<1> HIDE DEF f, e
<1>6. e \in Seq(Alarm) /\ Len(e) = Len(q) + 1 BY <1>0, <1>3, <1>5a, <1>5b
<1>7. ASSUME NEW i \in 1..(Len(q) + 1)
      PROVE  e[i] = IF i <= k THEN q[i] ELSE IF i = k + 1 THEN a ELSE q[i - 1]
  <2>1. CASE i <= k + 1
    <3>1. e[i] = f[i] BY <2>1, <1>0, <1>3, <1>5a, <1>5b
    <3> QED BY <3>1, <2>1, <1>0, <1>5a
  <2>2. CASE ~(i <= k + 1)
    <3>2. i - (k + 1) \in 1..(Len(q) - k) /\ k + (i - (k + 1)) = i - 1 BY <2>2, <1>0
    <3>1. e[i] = d[i - (k + 1)]
      <4>1. i \in 1..(Len(f) + Len(d)) /\ ~(i <= Len(f)) BY <2>2, <1>0, <1>3, <1>5a
      <4>2. (f \o d)[i] = d[i - Len(f)] BY ONLY <4>1, <1>3, <1>5a
      <4> QED BY <4>2, <1>5a, <1>5b
    <3>3. d[i - (k + 1)] = q[k + (i - (k + 1))] BY <3>2, <1>3
    <3> QED BY <3>1, <3>2, <3>3, <2>2, <1>0
  <2> QED BY <2>1, <2>2
<1> QED BY <1>1, <1>6, <1>7 DEF PutIn

\* remove_cell does not find a wake-up task that is not there.
LEMMA WakeAbsent ==
  ASSUME Sound(s), NEW v \in Nat, v >= s.count[Time], \A l \in Lists : Wake \notin On(s)[l]
  PROVE  WakeAt(v) \in Schedulers /\ WakeAt(v).fault # "" /\ WakeAt(v).cur = s.cur /\ WakeAt(v).count = s.count
<1> DEFINE f == "pointer missing from list???"
           u == [s EXCEPT !.fault = f, !.cnt = With(s.cnt, Wake, v)]
<1>0. /\ s \in Schedulers /\ Time \in Lists /\ Wake \in Task /\ s.cnt \in [Task -> Nat]
      /\ s.count \in [Lists -> Nat] /\ \A l \in Lists : On(s)[l] \subseteq Task
  <2>1. s \in Schedulers /\ Time \in Lists /\ Wake \in Task BY SchedulingAssumption DEF Sound, Lists
  <2>2. s.cnt \in [Task -> Nat] /\ s.count \in [Lists -> Nat] BY <2>1 DEF Schedulers
  <2>3. On(s) \in [Lists -> SUBSET Task] BY <2>1, SoundLists
  <2> QED BY <2>1, <2>2, <2>3
<1>1. RemoveTask(s, Wake) = [s EXCEPT !.fault = f]
  <2>1. Wake \notin Range(Waiting(s, Time)) BY <1>0 DEF On, OnLists
  <2> QED BY <2>1 DEF RemoveTask
<1>2. WakeAt(v) = SortedInsertTask(u, Wake)
  <2>1. [RemoveTask(s, Wake) EXCEPT !.cnt[Wake] = v] = u BY <1>0, <1>1 DEF With, Schedulers
  <2> QED BY <2>1 DEF WakeAt
<1>3. With(s.cnt, Wake, v) \in [Task -> Nat] /\ f \in Faults BY <1>0 DEF With, Faults
<1>4. /\ u \in Schedulers /\ u.head = s.head /\ u.next = s.next /\ u.hint = s.hint /\ u.count = s.count
      /\ u.cur = s.cur /\ u.fault = f /\ u.cnt = With(s.cnt, Wake, v)
  BY <1>0, <1>3 DEF Schedulers
<1>4a. f # "" OBVIOUS
<1> HIDE DEF u, f
<1>5. \A t \in Task : u.cnt[t] = IF t = Wake THEN v ELSE s.cnt[t] BY <1>0, <1>4 DEF With
<1>6. Sound(u) /\ On(u) = On(s)
  <2>1. \A l \in Lists : \A t \in On(s)[l] :
           /\ u.next[t] = s.next[t] /\ u.cnt[t] = s.cnt[t]
           /\ IF l = Time THEN s.cnt[t] >= u.count[Time] ELSE s.cnt[t] > u.count[l]
    <3> SUFFICES ASSUME NEW l \in Lists, NEW t \in On(s)[l]
                 PROVE  /\ u.next[t] = s.next[t] /\ u.cnt[t] = s.cnt[t]
                        /\ IF l = Time THEN s.cnt[t] >= u.count[Time] ELSE s.cnt[t] > u.count[l]
      OBVIOUS
    <3>1. t # Wake /\ t \in Task BY <1>0
    <3>2. IF l = Time THEN s.cnt[t] >= s.count[Time] ELSE s.cnt[t] > s.count[l] BY SoundLists
    <3> QED BY <1>4, <1>5, <3>1, <3>2
  <2>2. Sound(s) /\ u \in Schedulers /\ u.head = s.head /\ u.hint \in {s.hint, NULL} BY <1>4
  <2> QED BY ONLY <2>1, <2>2, SameSound
<1>7. PICK q : Fit(u, q) /\ \A l \in Lists : On(u)[l] = Range(q[l]) BY <1>6, SoundFit
<1>8. \A l \in Lists : Wake \notin Range(q[l]) BY <1>6, <1>7
<1>9. u.cnt[Wake] >= u.count[Time] BY <1>0, <1>4, <1>5
<1>10. LET s2 == SortedInsertTask(u, Wake)
       IN  /\ s2.cnt = u.cnt /\ s2.count = u.count /\ s2.cur = u.cur /\ s2.fault = u.fault
           /\ s2.hint = u.hint
           /\ \E q2 \in [Lists -> Seq(Task)] :
                Fit(s2, q2) /\ OnLists(q2) = [OnLists(q) EXCEPT ![Time] = @ \cup {Wake}]
  <2>1. Fit(u, q) /\ Wake \in Task BY <1>0, <1>7
  <2> QED BY ONLY <1>8, <1>9, <2>1, SortedInsertFit
<1>11. WakeAt(v) \in Schedulers BY <1>2, <1>10 DEF Fit, Has
<1> QED BY <1>2, <1>4, <1>4a, <1>10, <1>11

\* What future_advance leaves for wakeupcall: alarm a behind the k sooner ones.
AlarmSet(a, k) ==
  /\ PutIn(alarms', alarms, a, k) /\ a.time >= s.count[Time] /\ a.time \in Nat
  /\ \A j \in 1..k : alarms[j].time < a.time
  /\ k < Len(alarms) => a.time <= alarms[k + 1].time
  /\ Wake \in On(s)[Time] => s'.cnt[Wake] = IF k = 0 THEN a.time ELSE s.cnt[Wake]

\* The alarm is put in its place, and the wake-up task, if it is there, in its.
LEMMA FutureStep ==
  ASSUME SchedulingInv, NEW w \in Workers, FutureAdvance(w)
  PROVE  /\ SchedulingInv' /\ UNCHANGED TQ!tvars /\ s'.cur = s.cur /\ at'[Wake] = at[Wake] /\ s'.count = s.count
         /\ Wake \in On(s)[Time] => s'.fault = ""
         /\ \E a \in Alarm : \E k \in 0..Len(alarms) : AlarmSet(a, k)
<1>1. PICK c \in Call(w, "alarm") :
        LET alarm == [ec |-> c[2], time |-> s.count[Time] + c[3]]
            n     == Sooner(alarm, alarms)
        IN  /\ Begun(w) /\ UNCHANGED <<queue, slot>>
            /\ alarms' = InsertAt(alarms, n + 1, alarm)
            /\ s'  = IF n = 0 THEN WakeAt(alarm.time) ELSE s
            /\ at' = [at EXCEPT ![w].k = "run"]
  BY DEF FutureAdvance
<1>2. /\ Running(w) /\ at[w].k \in {"new", "run"} /\ c \in Calls /\ c[1] = "alarm" /\ w \in Task
      /\ [step EXCEPT ![w] = @ + 1] \in [Workers -> Nat]
  BY Caller
<1>3. c[2] \in Shared /\ c[3] \in Nat BY <1>2, CallArgs
<1>4. Good(s, at) /\ s.cur = w /\ s.fault = "" /\ s.count \in [Lists -> Nat] /\ s \in Schedulers
  BY <1>2, InvRunning
<1>5. w # Wake /\ Wake \in Task /\ Time \in Lists BY WorkerPlaces DEF Lists
<1> DEFINE a == [ec |-> c[2], time |-> s.count[Time] + c[3]]
           n == Sooner(a, alarms)
<1>6. a \in Alarm /\ a.time \in Nat /\ a.time >= s.count[Time]
  <2>1. s.count[Time] \in Nat BY <1>4, <1>5
  <2> DEFINE e == c[2]
             v == s.count[Time] + c[3]
  <2>2. v \in Nat /\ v >= s.count[Time] /\ e \in Shared BY <1>3, <2>1
  <2>3. a = [ec |-> e, time |-> v] OBVIOUS
  <2> HIDE DEF e, v
  <2>4. a.time = v /\ a \in Alarm BY <2>2, <2>3 DEF Alarm
  <2> QED BY <2>2, <2>4
<1>7. /\ Begun(w) /\ UNCHANGED <<queue, slot>> /\ alarms' = InsertAt(alarms, n + 1, a)
      /\ s'  = IF n = 0 THEN WakeAt(a.time) ELSE s
      /\ at' = [at EXCEPT ![w].k = "run"]
  BY <1>1
<1>8. alarms \in Seq(Alarm) /\ at \in [Task -> Places] /\ Roles(at) BY DEF SchedulingInv, TypeOK, Alarm
<1> HIDE DEF a
<1>9. /\ n \in 0..Len(alarms) /\ \A j \in 1..n : alarms[j].time < a.time
      /\ n < Len(alarms) => a.time <= alarms[n + 1].time
  BY <1>6, <1>8, SoonerIs
<1> HIDE DEF n
<1>10. PutIn(alarms', alarms, a, n) BY <1>6, <1>7, <1>8, <1>9, InsertedAt
<1>11. /\ at'[w].k = "run" /\ at' = With(at, w, at'[w]) /\ at'[w].l = at[w].l /\ at'[w].v = at[w].v
       /\ at' \in [Task -> Places] /\ Good(s, at')
  <2>1. Good(s, at) /\ s.cur \in Task /\ at' = AsKind(at, s.cur, "run") BY <1>2, <1>4, <1>7 DEF AsKind
  <2>2. "run" \in Kinds \ Gone BY DEF Kinds, Gone
  <2>3. /\ Good(s, at') /\ at'[s.cur].k = "run" /\ at'[s.cur].l = at[s.cur].l
        /\ at'[s.cur].v = at[s.cur].v /\ at' = With(at, s.cur, at'[s.cur])
    BY ONLY <2>1, <2>2, GoodRun
  <2> QED BY <2>3, <1>4 DEF Good
<1>12. at'[Wake] = at[Wake] /\ \A x \in Workers \ {w} : at'[x] = at[x]
  BY <1>5, <1>7, <1>8, WorkerPlaces
<1>13. Roles(at')
  <2>1. RoleOf(w, at'[w]) BY <1>11, WorkerPlaces
  <2> QED BY <1>2, <1>8, <1>11, <2>1, RolesOne
<1>14. \A x \in Workers : \A k \in {"put", "get"} : /\ at'[x].k = k <=> at[x].k = k
                                                    /\ at[x].k = k => at'[x].v = at[x].v
  BY <1>2, <1>11, <1>12
<1>15. alarms' \in Alarms /\ step' \in [Workers -> Nat] /\ UNCHANGED <<scene, saved, queue, slot, life>>
  BY <1>2, <1>7, <1>10 DEF Begun, PutIn, Alarms, Alarm
<1>16. Wake \in On(s)[Time] \/ \A l \in Lists : Wake \notin On(s)[l]
  <2>1. \A l \in EC : Wake \notin On(s)[l] BY <1>4, <1>8, WakeOff
  <2> QED BY <2>1 DEF Lists
<1>17. /\ s'.cur = s.cur /\ s'.count = s.count /\ s' \in Schedulers /\ (s'.fault = "" => Good(s', at'))
       /\ Wake \in On(s)[Time] => s'.fault = "" /\ s'.cnt[Wake] = IF n = 0 THEN a.time ELSE s.cnt[Wake]
  <2>1. CASE n # 0
    <3>1. s' = s BY <1>7, <2>1
    <3> QED BY <3>1, <2>1, <1>4, <1>11
  <2>2. CASE n = 0 /\ Wake \in On(s)[Time]
    <3>1. /\ Good(s, at') /\ s.cur \in Task /\ Wake \in On(s)[Time] /\ a.time \in Nat
          /\ a.time >= s.count[Time] /\ at'[Wake].k # "run"
      BY <1>2, <1>4, <1>6, <1>8, <1>11, <1>12, <2>2 DEF Roles
    <3>2. LET s2 == WakeAt(a.time)
          IN  /\ Good(s2, at') /\ s2.cur = s.cur /\ s2.fault = s.fault /\ s2.count = s.count
              /\ s2.cnt[Wake] = a.time /\ \A u \in Task \ {Wake} : s2.cnt[u] = s.cnt[u]
      BY ONLY <3>1, GoodWakeAt
    <3>3. s' = WakeAt(a.time) BY <1>7, <2>2
    <3>4. /\ Good(s', at') /\ s'.cur = s.cur /\ s'.fault = s.fault /\ s'.count = s.count
          /\ s'.cnt[Wake] = a.time
      BY ONLY <3>2, <3>3
    <3> QED BY <3>4, <2>2, <1>4 DEF Good, Sound
  <2>3. CASE n = 0 /\ Wake \notin On(s)[Time]
    <3>1. s' = WakeAt(a.time) BY <1>7, <2>3
    <3>2. Sound(s) /\ \A l \in Lists : Wake \notin On(s)[l] BY <1>4, <1>16, <2>3 DEF Good
    <3>3. s' \in Schedulers /\ s'.fault # "" /\ s'.cur = s.cur /\ s'.count = s.count
      BY <1>6, <3>1, <3>2, WakeAbsent
    <3> QED BY <3>3, <2>3
  <2> QED BY <2>1, <2>2, <2>3
<1>18. SchedulingInv' /\ UNCHANGED TQ!tvars
  <2>1. s'.count[PutEC] = s.count[PutEC] /\ s'.count[GetEC] = s.count[GetEC] BY <1>17
  <2>2. /\ UNCHANGED <<scene, saved, queue, slot, life>> /\ s' \in Schedulers /\ at' \in [Task -> Places]
        /\ s'.fault = "" => Good(s', at')
    BY <1>11, <1>15, <1>17
  <2>3. step' \in [Workers -> Nat] /\ alarms' \in Alarms BY <1>15
  <2>4. SchedulingInv OBVIOUS
  <2> QED BY ONLY <1>13, <1>14, <2>1, <2>2, <2>3, <2>4, QuietStep
<1>19. AlarmSet(a, n) BY <1>6, <1>9, <1>10, <1>17 DEF AlarmSet
<1> QED BY <1>6, <1>9, <1>12, <1>17, <1>18, <1>19

----------------------------------------------------------------------------
(* The wake-up task.                                                       *)

\* A place of the wake-up task or of the checkpoint task.
LEMMA SystemPlaces ==
  /\ \A v \in Nat : /\ Where("woken", Time, v) \in Places /\ Where("saved", Time, v) \in Places
                    /\ Suspends(Where("woken", Time, v), Time, v) /\ RoleOf(Wake, Where("woken", Time, v))
                    /\ RoleOf(Chk, Where("saved", Time, v)) /\ Where("woken", Time, v).k = "woken"
                    /\ Where("saved", Time, v).k = "saved" /\ Where("saved", Time, v).l = Time
  /\ RoleOf(Chk, Finished) /\ Finished \in Places /\ Finished.k = "finished" /\ Finished.l = Time
  /\ Time \in Lists /\ Time \notin EC /\ PutEC \in EC /\ GetEC \in EC /\ EC \subseteq Lists
<1>1. /\ Wake \notin Workers /\ Chk \notin Workers /\ Wake # Chk /\ Time \in Lists /\ Time \notin EC
      /\ PutEC \in EC /\ GetEC \in EC /\ EC \subseteq Lists
  BY WorkerPlaces, SchedulingAssumption, TaskingAssumption DEF Lists
<1>2. ASSUME NEW v \in Nat
      PROVE  /\ Where("woken", Time, v) \in Places /\ Where("saved", Time, v) \in Places
             /\ Suspends(Where("woken", Time, v), Time, v) /\ RoleOf(Wake, Where("woken", Time, v))
             /\ RoleOf(Chk, Where("saved", Time, v)) /\ Where("woken", Time, v).k = "woken"
             /\ Where("saved", Time, v).k = "saved" /\ Where("saved", Time, v).l = Time
  BY <1>1 DEF Where, Places, Kinds, Gone, Suspends, RoleOf
<1>3. RoleOf(Chk, Finished) /\ Finished \in Places /\ Finished.k = "finished" /\ Finished.l = Time
  BY <1>1 DEF Finished, Where, Places, Kinds, Gone, RoleOf
<1> QED BY <1>1, <1>2, <1>3

\* How the wake-up task goes to sleep until v.
Asleep(v) == /\ at'[Wake].k = "woken"
             /\ IF s'.cur = Wake THEN s'.count[Time] >= v ELSE s'.cnt[Wake] = v

\* The wake-up task begins.
LEMMA WakeStartStep ==
  ASSUME SchedulingInv, WakeStart PROVE Stepped /\ UNCHANGED TQ!tvars /\ Asleep(Never)
<1> DEFINE a == Where("woken", Time, Never)
<1>1. /\ Running(Wake) /\ s' = Await(s, Time, Never) /\ at' = [at EXCEPT ![Wake] = a]
      /\ UNCHANGED <<scene, step, queue, slot, alarms, saved, life>>
  BY DEF WakeStart
<1>2. Wake \in Task /\ Wake \notin Workers /\ Never \in Nat BY WorkerPlaces, SchedulingAssumption
<1>3. Good(s, at) /\ s.cur = Wake BY <1>1, <1>2, InvRunning
<1>4. Suspends(a, Time, Never) /\ RoleOf(Wake, a) /\ a.k = "woken" /\ Time \in Lists BY <1>2, SystemPlaces
<1> HIDE DEF a
<1>5. /\ Switched(s', s, at')
      /\ IF s'.cur = s.cur THEN s'.count[Time] >= Never ELSE s'.cnt[s.cur] = Never
  <2>1. /\ Good(s, at) /\ s.cur \in Task /\ at' = [at EXCEPT ![s.cur] = a] /\ Suspends(a, Time, Never)
        /\ Time \in Lists /\ Never \in Nat
    BY <1>1, <1>2, <1>3, <1>4
  <2>2. LET s2 == Await(s, Time, Never)
        IN  /\ Switched(s2, s, at')
            /\ IF s2.cur = s.cur THEN Time = Time => s2.count[Time] >= Never ELSE s2.cnt[s.cur] = Never
    BY ONLY <2>1, GoodAwait
  <2>3. s' = Await(s, Time, Never) BY <1>1
  <2> QED BY ONLY <2>2, <2>3
<1>6. step' \in [Workers -> Nat] /\ alarms' \in Alarms BY <1>1 DEF SchedulingInv, TypeOK, Alarms
<1>7. Stepped /\ UNCHANGED TQ!tvars BY <1>1, <1>2, <1>4, <1>5, <1>6, SwitchStep
<1>8. at \in [Task -> Places] BY DEF SchedulingInv, TypeOK
<1>9. Asleep(Never) BY <1>1, <1>2, <1>3, <1>4, <1>5, <1>8 DEF Asleep
<1> QED BY <1>7, <1>9

\* The wake-up task fires an alarm and sleeps until the next one.
LEMMA WakeTurnStep ==
  ASSUME SchedulingInv, WakeTurn
  PROVE  Stepped /\ UNCHANGED TQ!tvars /\ Asleep(NextWake(Tail(alarms))) /\ alarms' = Tail(alarms) /\ alarms # <<>>
<1> DEFINE rest == Tail(alarms)
           v    == NextWake(rest)
           a    == Where("woken", Time, v)
           l    == alarms[1].ec
           sc   == Advance(s, l)
<1>1. /\ Running(Wake) /\ WakeFault = "" /\ alarms' = rest /\ s' = Await(sc, Time, v)
      /\ at' = [at EXCEPT ![Wake] = a] /\ UNCHANGED <<scene, step, queue, slot, saved, life>>
  BY DEF WakeTurn
<1>2. Wake \in Task /\ Wake \notin Workers /\ Never \in Nat BY WorkerPlaces, SchedulingAssumption
<1>3. Good(s, at) /\ s.cur = Wake /\ s.fault = "" BY <1>1, <1>2, InvRunning
<1>4. alarms # <<>> BY <1>1 DEF WakeFault
<1>4a. alarms \in Seq(Alarm) BY DEF SchedulingInv, TypeOK, Alarm
<1>5. rest \in Seq(Alarm) /\ Len(alarms) \in Nat /\ Len(alarms) # 0 BY <1>4, <1>4a
<1>6. alarms[1] \in Alarm /\ l \in Shared /\ l \in EC /\ l # PutEC /\ l # GetEC
  <2>1. alarms[1] \in Alarm BY <1>4a, <1>5
  <2> QED BY <2>1 DEF Alarm, Shared
<1>7. v \in Nat
  <2>1. CASE rest = <<>> BY <2>1, <1>2 DEF NextWake
  <2>2. CASE rest # <<>>
    <3>1. rest[1] \in Alarm BY <2>2, <1>5
    <3>2. v = rest[1].time BY <2>2 DEF NextWake
    <3> HIDE DEF rest, v
    <3> QED BY <3>1, <3>2 DEF Alarm
  <2> QED BY <2>1, <2>2
<1>8. /\ Suspends(a, Time, v) /\ RoleOf(Wake, a) /\ a.k = "woken" /\ Time \in Lists /\ PutEC \in Lists
      /\ GetEC \in Lists /\ PutEC \in EC /\ GetEC \in EC
  BY <1>7, SystemPlaces
<1> HIDE DEF a, v, l, rest
<1>9. /\ Good(sc, at) /\ sc.cur = s.cur /\ sc.fault = s.fault
      /\ \A e \in Lists \ {l} : sc.count[e] = s.count[e]
  <2>1. Good(s, at) /\ s.cur \in Task /\ l \in EC BY <1>2, <1>3, <1>6
  <2>2. LET s2 == Advance(s, l)
        IN  /\ Good(s2, at) /\ s2.cur = s.cur /\ s2.fault = s.fault
            /\ \A e \in Lists \ {l} : s2.count[e] = s.count[e]
    BY ONLY <2>1, GoodAdvance
  <2> QED BY ONLY <2>2 DEF sc
<1> HIDE DEF sc
<1>10. /\ Switched(s', sc, at')
       /\ IF s'.cur = sc.cur THEN s'.count[Time] >= v ELSE s'.cnt[sc.cur] = v
  <2>1. /\ Good(sc, at) /\ sc.cur \in Task /\ at' = [at EXCEPT ![sc.cur] = a] /\ Suspends(a, Time, v)
        /\ Time \in Lists /\ v \in Nat
    BY <1>1, <1>2, <1>3, <1>7, <1>8, <1>9
  <2>2. LET s2 == Await(sc, Time, v)
        IN  /\ Switched(s2, sc, at')
            /\ IF s2.cur = sc.cur THEN Time = Time => s2.count[Time] >= v ELSE s2.cnt[sc.cur] = v
    BY ONLY <2>1, GoodAwait
  <2>3. s' = Await(sc, Time, v) BY <1>1
  <2> QED BY ONLY <2>2, <2>3
<1>11. s'.count[PutEC] = s.count[PutEC] /\ s'.count[GetEC] = s.count[GetEC]
  BY <1>6, <1>8, <1>9, <1>10 DEF Switched
<1>12. step' \in [Workers -> Nat] /\ alarms' \in Alarms BY <1>1, <1>5 DEF SchedulingInv, TypeOK, Alarms, Alarm
<1>13. at' = With(at, Wake, a) BY <1>1 DEF With
<1>14. Good(s', at') /\ s'.fault = "" /\ (s'.cur # s.cur => DueRun(s', at'))
  BY <1>3, <1>9, <1>10 DEF Switched
<1>15. SchedulingInv' /\ UNCHANGED TQ!tvars
  <2>1. UNCHANGED <<scene, saved, queue, slot, life>> BY <1>1
  <2> QED BY <1>2, <1>8, <1>11, <1>12, <1>13, <1>14, <2>1, QuietOne
<1>16. at \in [Task -> Places] BY DEF SchedulingInv, TypeOK
<1>17. Asleep(v)
  <2>1. at'[Wake].k = "woken" BY <1>2, <1>8, <1>13, <1>16 DEF With
  <2> QED BY <2>1, <1>3, <1>9, <1>10 DEF Asleep
<1> QED BY <1>1, <1>4, <1>14, <1>15, <1>17 DEF Stepped, v, rest

\* The wake-up task meets an assertion: nothing moves any more.
LEMMA WakeFailsStep ==
  ASSUME SchedulingInv, WakeFails
  PROVE  /\ SchedulingInv' /\ UNCHANGED TQ!tvars /\ s'.cur = s.cur /\ at' = at /\ alarms' = alarms
         /\ s'.count = s.count /\ s'.cnt = s.cnt /\ s'.head = s.head /\ s'.fault = WakeFault /\ WakeFault # ""
<1>1. /\ Running(Wake) /\ WakeFault # "" /\ s' = [s EXCEPT !.fault = WakeFault]
      /\ UNCHANGED <<scene, at, step, queue, slot, alarms, saved, life>>
  BY DEF WakeFails
<1> DEFINE f == WakeFault
<1>2. f \in Faults BY DEF WakeFault, Faults
<1>3. s \in Schedulers BY DEF SchedulingInv, TypeOK
<1>4. s' = [s EXCEPT !.fault = f] BY <1>1
<1>4a. f = WakeFault OBVIOUS
<1> HIDE DEF f
<1>5. /\ s' \in Schedulers /\ s'.cur = s.cur /\ s'.count = s.count /\ s'.cnt = s.cnt /\ s'.head = s.head
      /\ s'.fault = f
  BY <1>2, <1>3, <1>4 DEF Schedulers
<1>6. SchedulingInv' /\ UNCHANGED TQ!tvars
  <2>1. /\ at' \in [Task -> Places] /\ step' \in [Workers -> Nat] /\ alarms' \in Alarms /\ Roles(at')
    BY <1>1 DEF SchedulingInv, TypeOK, Alarms, Roles
  <2>2. s'.fault # "" BY <1>1, <1>4a, <1>5
  <2>3. s'.fault = "" => Good(s', at') BY <2>2
  <2>4. s'.count[PutEC] = s.count[PutEC] /\ s'.count[GetEC] = s.count[GetEC] BY <1>5
  <2>5. \A w \in Workers : \A k \in {"put", "get"} : /\ at'[w].k = k <=> at[w].k = k
                                                     /\ at[w].k = k => at'[w].v = at[w].v
    BY <1>1
  <2>6. SchedulingInv /\ UNCHANGED <<scene, saved, queue, slot, life>> /\ s' \in Schedulers BY <1>1, <1>5
  <2> QED BY ONLY <2>1, <2>3, <2>4, <2>5, <2>6, QuietStep
<1> QED BY <1>1, <1>4a, <1>5, <1>6

----------------------------------------------------------------------------
(* Checkpoint and restart.                                                 *)

\* The checkpoint task pauses.
LEMMA ChkPauseStep ==
  ASSUME SchedulingInv, ChkPause PROVE Stepped /\ WakeKept /\ UNCHANGED TQ!tvars
<1> DEFINE n == IF life = 1 THEN 2 * ChkTime ELSE 2
<1>1. /\ Running(Chk) /\ at[Chk].k \in {"new", "saved"} /\ s' = Epause(s, n) /\ at' = [at EXCEPT ![Chk].k = "chk"]
      /\ UNCHANGED <<scene, step, queue, slot, alarms, saved, life>>
  BY DEF ChkPause
<1>2. Chk \in Task /\ Chk \notin Workers /\ Wake # Chk /\ n \in Nat /\ Time \in Lists
  BY WorkerPlaces, SchedulingAssumption DEF Lists
<1>3. Good(s, at) /\ s.cur = Chk /\ at \in [Task -> Places] /\ Roles(at) /\ s.count \in [Lists -> Nat]
  BY <1>1, <1>2, InvRunning DEF SchedulingInv, TypeOK
<1> DEFINE a == [at[Chk] EXCEPT !.k = "chk"]
<1>4. at' = [at EXCEPT ![Chk] = a] BY <1>1, <1>2, <1>3
<1>5. a \in Places /\ a.k = "chk" /\ a.l = Time
  <2>1. at[Chk] \in Places /\ at[Chk].l = Time BY <1>2, <1>3 DEF Roles
  <2> QED BY <2>1 DEF Places, Kinds
<1> HIDE DEF a, n
<1>6. Suspends(a, Time, s.count[Time] + n) /\ RoleOf(Chk, a)
  <2>1. Time \notin EC BY TaskingAssumption
  <2> QED BY <1>2, <1>5, <2>1, WorkerPlaces DEF Suspends, RoleOf, Gone
<1>7. Switched(s', s, at')
  <2>1. /\ Good(s, at) /\ s.cur \in Task /\ n \in Nat /\ at' = [at EXCEPT ![s.cur] = a]
        /\ Suspends(a, Time, s.count[Time] + n)
    BY <1>2, <1>3, <1>4, <1>6
  <2>2. Switched(Epause(s, n), s, at') BY ONLY <2>1, GoodEpause
  <2> QED BY <1>1, <2>2
<1>8. step' \in [Workers -> Nat] /\ alarms' \in Alarms BY <1>1 DEF SchedulingInv, TypeOK, Alarms
<1>9. UNCHANGED <<scene, saved, queue, slot, life>> /\ Chk # Wake BY <1>1, <1>2
<1> QED BY <1>1, <1>2, <1>4, <1>6, <1>7, <1>8, <1>9, SwitchStep

\* The checkpoint task is done.
LEMMA ChkFinishStep ==
  ASSUME SchedulingInv, ChkFinish PROVE Stepped /\ WakeKept /\ UNCHANGED TQ!tvars
<1>1. /\ Running(Chk) /\ s' = Dispatch(s) /\ at' = [at EXCEPT ![Chk] = Finished]
      /\ UNCHANGED <<scene, step, queue, slot, alarms, saved, life>>
  BY DEF ChkFinish
<1>2. Chk \in Task /\ Chk \notin Workers /\ Chk # Wake BY WorkerPlaces
<1>3. Good(s, at) /\ s.cur = Chk BY <1>1, <1>2, InvRunning
<1>4. Finished \in Places /\ Finished.k \in Gone /\ RoleOf(Chk, Finished) BY SystemPlaces DEF Gone
<1>5. Switched(s', s, at')
  <2>1. s.cur \in Task /\ at' = [at EXCEPT ![s.cur] = Finished] BY <1>1, <1>2, <1>3
  <2>2. Switched(Dispatch(s), s, at') BY <1>3, <1>4, <2>1, GoodFinish
  <2> QED BY <1>1, <2>2
<1>6. step' \in [Workers -> Nat] /\ alarms' \in Alarms BY <1>1 DEF SchedulingInv, TypeOK, Alarms
<1> QED BY <1>1, <1>2, <1>4, <1>5, <1>6, SwitchStep

\* A checkpoint is the state at which it is taken.
LEMMA SaveStateStep ==
  ASSUME SchedulingInv, SaveState PROVE Stepped /\ WakeKept /\ UNCHANGED TQ!tvars /\ s' = s
<1> DEFINE v == at[Chk].v + 1
           a == Where("saved", Time, v)
           f == [cnt |-> s.cnt, at |-> at, step |-> step, slot |-> slot,
                 p |-> queue.p, g |-> queue.g, put |-> queue.put, get |-> queue.get,
                 lists |-> [l \in Lists |-> SaveQueueState(s, l)]]
<1>1. /\ Running(Chk) /\ life = 1 /\ saved' = <<f>> /\ at' = [at EXCEPT ![Chk] = a]
      /\ UNCHANGED <<scene, s, step, queue, slot, alarms, life>>
  BY DEF SaveState
<1>2. Chk \in Task /\ Chk \notin Workers /\ Wake # Chk /\ Wake \in Task /\ Workers \subseteq Task BY WorkerPlaces
<1>3. Good(s, at) /\ s.cur = Chk /\ s.fault = "" /\ at \in [Task -> Places] /\ Roles(at)
  BY <1>1, <1>2, InvRunning DEF SchedulingInv, TypeOK
<1>4. v \in Nat
  <2>1. at[Chk] \in Places BY <1>2, <1>3
  <2> QED BY <2>1 DEF Places
<1>5. a \in Places /\ a.k = "saved" /\ a.l = Time /\ RoleOf(Chk, a) /\ Time \notin EC BY <1>4, SystemPlaces
<1> HIDE DEF a, v
<1>6. Good(s', at')
  <2>1. /\ Good(s, at) /\ s.cur \in Task /\ a \in Places /\ a.k \notin Gone
        /\ a.l \in EC => s.count[a.l] >= a.v
    BY <1>2, <1>3, <1>5 DEF Gone
  <2>2. at' = [at EXCEPT ![s.cur] = a] BY <1>1, <1>3
  <2>3. Good(s, at') BY ONLY <2>1, <2>2, GoodSame
  <2>4. s' = s BY <1>1
  <2> QED BY <2>3, <2>4
<1>7. File' = f /\ saved' = <<File'>> BY <1>1 DEF File
<1>8. /\ f.cnt = s.cnt /\ f.at = at /\ f.step = step /\ f.slot = slot /\ f.p = queue.p /\ f.g = queue.g
      /\ f.put = queue.put /\ f.get = queue.get
      /\ \A l \in Lists : f.lists[l].tasks = Waiting(s, l) /\ f.lists[l].count = s.count[l]
  BY DEF SaveQueueState
<1> HIDE DEF f
<1>9. FileSound'
  <2> DEFINE q == [l \in Lists |-> f.lists[l].tasks]
             count == [l \in Lists |-> f.lists[l].count]
             z == [l \in Lists |-> Waiting(s, l)]
  <2>1. q = z BY <1>8
  <2>2. s.count \in [Lists -> Nat] /\ s.cnt \in [Task -> Nat] BY <1>1, <1>2, InvRunning
  <2>3. count = s.count BY <1>8, <2>2
  <2> HIDE DEF q, count
  <2>4. step \in [Workers -> Nat] /\ slot \in Slots /\ queue \in Queues BY DEF SchedulingInv, TypeOK
  <2>5. Arranged(q, s.cnt, count) /\ On(s) = OnLists(q)
    <3>1. ListsSound(s) BY <1>3 DEF Good, Sound
    <3>2. Arranged(z, s.cnt, s.count) BY <3>1 DEF ListsSound
    <3>3. On(s) = OnLists(z) BY DEF On
    <3> QED BY <2>1, <2>3, <3>2, <3>3
  <2>6. Placed(OnLists(q), s.cnt, count, Chk, at) BY <1>3, <2>3, <2>5 DEF Good
  <2>7. Tickets(at, count, queue.p, queue.g) /\ Ring(count, slot, queue.put, queue.get)
    BY <2>3 DEF SchedulingInv
  <2>8. {queue.put, queue.get} \subseteq 0..(Size - 1) BY <2>4 DEF Queues
  <2>9. /\ f.cnt \in [Task -> Nat] /\ count \in [Lists -> Nat]
        /\ f.at \in [Task -> Places] /\ f.step \in [Workers -> Nat] /\ f.slot \in Slots
        /\ {f.put, f.get} \subseteq 0..(Size - 1)
        /\ Arranged(q, f.cnt, count)
        /\ Placed(OnLists(q), f.cnt, count, Chk, f.at) /\ Roles(f.at)
        /\ Tickets(f.at, count, f.p, f.g)
        /\ Ring(count, f.slot, f.put, f.get)
    BY <1>3, <1>8, <2>2, <2>3, <2>4, <2>5, <2>6, <2>7, <2>8
  <2> QED BY <1>7, <2>9 DEF FileSound, q, count
<1>10. at' = With(at, Chk, a) BY <1>1 DEF With
<1>11. Roles(at') BY <1>2, <1>3, <1>5, <1>10, RolesOne
<1>12. \A x \in Task : x # Chk => at'[x] = at[x] BY <1>1, <1>3
<1>13. SchedulingInv' /\ UNCHANGED TQ!tvars
  <2>1. /\ UNCHANGED <<scene, queue, slot, life>> /\ saved' # <<>> /\ s' = s
        /\ step' \in [Workers -> Nat] /\ alarms' \in Alarms
    BY <1>1 DEF SchedulingInv, TypeOK, Alarms
  <2>2. s' \in Schedulers /\ at' \in [Task -> Places] /\ (s'.fault = "" => Good(s', at'))
    BY <1>6 DEF Good, Sound
  <2>3. s'.count[PutEC] = s.count[PutEC] /\ s'.count[GetEC] = s.count[GetEC] BY <2>1
  <2>4. \A w \in Workers : \A k \in {"put", "get"} : /\ at'[w].k = k <=> at[w].k = k
                                                     /\ at[w].k = k => at'[w].v = at[w].v
    BY <1>2, <1>12
  <2>5. /\ saved' = <<>> \/ saved' = <<File'>>
        /\ saved' # <<>> => FileSound'
        /\ life' = 2 => saved' # <<>>
    BY <1>7, <1>9, <2>1
  <2>6. SchedulingInv OBVIOUS
  <2> QED BY ONLY <1>11, <2>1, <2>2, <2>3, <2>4, <2>5, <2>6, QuietParts
<1>14. WakeKept BY <1>1, <1>2, <1>12 DEF WakeKept
<1> QED BY <1>1, <1>3, <1>13, <1>14 DEF Stepped

\* Nobody is inside a call of the queue when a process begins.
LEMMA BeginFacts ==
  ASSUME scene \in Scenarios
  PROVE  /\ Roles(Begin) /\ Tickets(Begin, Fresh.count, 0, 0)
         /\ Ring(Fresh.count, [i \in 0..(Size - 1) |-> 0], 0, 0)
         /\ [i \in 0..(Size - 1) |-> 0] \in Slots /\ NewQueue \in Queues
<1>0. /\ Size \in Nat \ {0} /\ Workers \subseteq Task /\ Wake \in Task /\ Chk \in Task
      /\ PutEC # GetEC
  BY SchedulingAssumption
<1>1. /\ Good(Fresh, Begin) /\ Fresh.count[PutEC] = Size /\ Fresh.count[GetEC] = 0 BY GoodFresh
<1>2. Fresh.count \in [Lists -> Nat] BY <1>1, SoundTypes DEF Good
<1>3. /\ \A t \in Task : Begin[t] = Created \/ Begin[t] = Absent
      /\ Created.k = "new" /\ Created.l = Time /\ Created.v = 0 /\ Absent.k = "absent" /\ Absent.l = Time
  BY DEF Begin, Created, Absent, Where
<1>4. Roles(Begin) BY <1>0, <1>3 DEF Roles, Gone
<1>5. InCall(Begin, "put") = {} /\ InCall(Begin, "get") = {} BY <1>0, <1>3 DEF InCall
<1>6. /\ Served(Begin, "put", 0) = {} /\ Served(Begin, "get", 0) = {} BY DEF Served
<1>7. Cardinality({}) = 0 BY FS_EmptySet
<1>8. Tickets(Begin, Fresh.count, 0, 0) BY <1>0, <1>1, <1>5, <1>6, <1>7 DEF Tickets
<1>9. Ring(Fresh.count, [i \in 0..(Size - 1) |-> 0], 0, 0)
  <2>1. \A i \in 0..(Size - 1) : ItemOf(Fresh.count, i) = {}
    <3> SUFFICES ASSUME NEW i \in 0..(Size - 1) PROVE ItemOf(Fresh.count, i) = {} OBVIOUS
    <3>1. Fresh.count[PutEC] - Size + 1 = 1 BY <1>0, <1>1
    <3>2. (Fresh.count[PutEC] - Size + 1)..Fresh.count[GetEC] = {} BY <1>1, <3>1
    <3> QED BY <3>2 DEF ItemOf
  <2>2. Fresh.count[PutEC] - Size = 0 BY <1>0, <1>1
  <2>3. 0 % Size = 0
    <3>1. 0 \in Int /\ 0 \in 0..(Size - 1) /\ 0 = Size * 0 + 0 BY <1>0
    <3> QED BY ONLY <1>0, <3>1, ModIs
  <2> QED BY <1>1, <2>1, <2>2, <2>3 DEF Ring
<1>10. [i \in 0..(Size - 1) |-> 0] \in Slots BY DEF Slots
<1>11. NewQueue \in Queues
  <2>1. 0 \in 0..(Size - 1) BY <1>0
  <2> QED BY <2>1 DEF NewQueue, Queues
<1> QED BY <1>4, <1>8, <1>9, <1>10, <1>11

\* The process starts again from the beginning.
LEMMA RestartStep ==
  ASSUME SchedulingInv, Restart
  PROVE  SchedulingInv' /\ s'.fault = "" /\ s'.cur = Boot[1] /\ at' = Begin /\ alarms' = <<>> /\ SetBack
<1>1. /\ life = 1 /\ saved # <<>> /\ s' = Fresh /\ at' = Begin /\ step' = [w \in Workers |-> 0]
      /\ queue' = NewQueue /\ slot' = [i \in 0..(Size - 1) |-> 0] /\ alarms' = <<>>
      /\ life' = 2 /\ UNCHANGED <<scene, saved>>
  BY DEF Restart
<1>2. scene \in Scenarios /\ saved = <<File>> /\ FileSound BY <1>1 DEF SchedulingInv, TypeOK
<1>3. /\ Good(Fresh, Begin) /\ Fresh.fault = "" /\ Fresh.cur = Boot[1] BY <1>2, GoodFresh
<1>4. /\ Roles(Begin) /\ Tickets(Begin, Fresh.count, 0, 0)
      /\ Ring(Fresh.count, [i \in 0..(Size - 1) |-> 0], 0, 0)
      /\ [i \in 0..(Size - 1) |-> 0] \in Slots /\ NewQueue \in Queues
  BY <1>2, BeginFacts
<1>5. /\ Fresh \in Schedulers /\ Begin \in [Task -> Places] /\ ListsSound(Fresh)
      /\ Placed(On(Fresh), Fresh.cnt, Fresh.count, Fresh.cur, Begin)
  BY <1>3 DEF Good, Sound
<1>6. File' = File BY <1>1 DEF File
<1>7. FileSound' BY <1>2, <1>6 DEF FileSound
<1>8. TypeOK'
  <2>1. alarms' \in Seq([ec : Shared, time : Nat]) BY <1>1
  <2>2. step' \in [Workers -> Nat] BY <1>1
  <2> QED BY <1>1, <1>2, <1>4, <1>5, <1>6, <2>1, <2>2 DEF TypeOK
<1>9. NewQueue.p = 0 /\ NewQueue.g = 0 /\ NewQueue.put = 0 /\ NewQueue.get = 0 BY DEF NewQueue
<1>10. Tickets(at', s'.count, queue'.p, queue'.g) /\ Ring(s'.count, slot', queue'.put, queue'.get)
  BY <1>1, <1>4, <1>9
<1>11. Counters' BY <1>1 DEF Counters
<1>12. ListsSound(s') /\ Placed(On(s'), s'.cnt, s'.count, s'.cur, at') /\ Roles(at')
  BY <1>1, <1>4, <1>5
<1>13. SchedulingInv' BY <1>1, <1>7, <1>8, <1>10, <1>11, <1>12 DEF SchedulingInv
<1>14. SetBack
  <2>1. life' # life BY <1>1
  <2> QED BY <2>1 DEF SetBack
<1>15. s'.fault = "" /\ s'.cur = Boot[1] /\ at' = Begin /\ alarms' = <<>> BY <1>1, <1>3
<1> QED BY <1>13, <1>14, <1>15

\* The invariant holds when the program starts.
LEMMA InvInit ==
  ASSUME Init
  PROVE  SchedulingInv /\ s.fault = "" /\ s.cur = Boot[1] /\ at = Begin /\ alarms = <<>> /\ TQ!Init
<1>1. /\ scene \in Scenarios /\ s = Fresh /\ at = Begin /\ step = [w \in Workers |-> 0]
      /\ queue = NewQueue /\ slot = [i \in 0..(Size - 1) |-> 0] /\ alarms = <<>>
      /\ saved = <<>> /\ life = 1
  BY DEF Init, Start
<1>2. /\ Good(Fresh, Begin) /\ Fresh.fault = "" /\ Fresh.cur = Boot[1] /\ Fresh.count[PutEC] = Size
      /\ Fresh.count[GetEC] = 0
  BY <1>1, GoodFresh
<1>3. /\ Roles(Begin) /\ Tickets(Begin, Fresh.count, 0, 0)
      /\ Ring(Fresh.count, [i \in 0..(Size - 1) |-> 0], 0, 0)
      /\ [i \in 0..(Size - 1) |-> 0] \in Slots /\ NewQueue \in Queues
  BY <1>1, BeginFacts
<1>4. /\ Fresh \in Schedulers /\ Begin \in [Task -> Places] /\ ListsSound(Fresh)
      /\ Placed(On(Fresh), Fresh.cnt, Fresh.count, Fresh.cur, Begin)
  BY <1>2 DEF Good, Sound
<1>5. TypeOK
  <2>1. alarms \in Seq([ec : Shared, time : Nat]) BY <1>1
  <2>2. step \in [Workers -> Nat] BY <1>1
  <2> QED BY <1>1, <1>3, <1>4, <2>1, <2>2 DEF TypeOK
<1>6. /\ NewQueue.p = 0 /\ NewQueue.g = 0 /\ NewQueue.put = 0 /\ NewQueue.get = 0
      /\ NewQueue.putCount = 0 /\ NewQueue.getCount = 0
  BY DEF NewQueue
<1>7. Tickets(at, s.count, queue.p, queue.g) /\ Ring(s.count, slot, queue.put, queue.get)
  BY <1>1, <1>3, <1>6
<1>8. Counters
  <2>1. Size - Size = 0 BY SchedulingAssumption
  <2> QED BY <1>1, <1>2, <1>6, <2>1 DEF Counters
<1>9. ListsSound(s) /\ Placed(On(s), s.cnt, s.count, s.cur, at) /\ Roles(at) BY <1>1, <1>3, <1>4
<1>10. SchedulingInv BY <1>1, <1>5, <1>7, <1>8, <1>9 DEF SchedulingInv
<1>11. TQ!Init
  <2>1. PutDone = {} /\ GetDone = {} BY <1>1, <1>6 DEF PutDone, GetDone, Served
  <2> QED BY <1>1, <1>6, <2>1, TicketTerms DEF TQ!Init
<1> QED BY <1>1, <1>2, <1>10, <1>11

\* The checkpoint comes back, if the hint is a task of its time list.
LEMMA RestoreStep ==
  ASSUME SchedulingInv, RestoreState, HintFits
  PROVE  Stepped /\ SetBack /\ at'[Chk].k = "finished" /\ at[Chk].k # "finished"
<1>1. /\ Running(Chk) /\ at[Chk].k = "chk" /\ life = 2 /\ s' = Dispatch(Restored(s))
      /\ at' = [File.at EXCEPT ![Chk] = Finished] /\ step' = File.step /\ slot' = File.slot
      /\ queue' = [queue EXCEPT !.p = File.p, !.g = File.g, !.put = File.put, !.get = File.get]
      /\ UNCHANGED <<scene, alarms, saved, life>>
  BY DEF RestoreState
<1>2. Chk \in Task /\ Workers \subseteq Task /\ Chk \notin Workers /\ Wake # Chk BY WorkerPlaces
<1>3. s \in Schedulers /\ s.fault = "" BY <1>1, <1>2, InvRunning
<1>4. saved # <<>> /\ FileSound BY <1>1 DEF SchedulingInv
<1>5. /\ Good(s', at') /\ DueRun(s', at') /\ s'.fault = "" /\ \A e \in EC : s'.count[e] = FileCounts[e]
  <2>1. s \in Schedulers /\ FileSound /\ s.hint \in Range(File.lists[Time].tasks) \cup {NULL}
    BY <1>1, <1>3, <1>4 DEF HintFits
  <2>2. at' = [File.at EXCEPT ![Chk] = Finished] BY <1>1
  <2>3. LET s2 == Dispatch(Restored(s))
        IN  /\ Good(s2, at') /\ DueRun(s2, at') /\ s2.fault = s.fault
            /\ \A e \in EC : s2.count[e] = FileCounts[e]
    BY ONLY <2>1, <2>2, GoodRestored
  <2>4. s' = Dispatch(Restored(s)) BY <1>1
  <2>5. /\ Good(s', at') /\ DueRun(s', at') /\ s'.fault = s.fault
        /\ \A e \in EC : s'.count[e] = FileCounts[e]
    BY ONLY <2>3, <2>4
  <2> QED BY <1>3, <2>5
<1>6. /\ File.at \in [Task -> Places] /\ File.step \in [Workers -> Nat] /\ File.slot \in Slots
      /\ {File.put, File.get} \subseteq 0..(Size - 1) /\ Roles(File.at)
      /\ Tickets(File.at, FileCounts, File.p, File.g) /\ Ring(FileCounts, File.slot, File.put, File.get)
      /\ FileCounts \in [Lists -> Nat]
  BY <1>4 DEF FileSound, FileCounts
<1>7. at' = With(File.at, Chk, Finished) BY <1>1 DEF With
<1>8. Roles(at')
  <2>1. RoleOf(Chk, Finished) BY SystemPlaces
  <2> QED BY <1>2, <1>6, <1>7, <2>1, RolesOne
<1>9. \A w \in Workers : at'[w] = File.at[w] BY <1>1, <1>2, <1>6
<1>10. /\ PutEC \in EC /\ GetEC \in EC BY SystemPlaces
<1>11. s'.count[PutEC] = FileCounts[PutEC] /\ s'.count[GetEC] = FileCounts[GetEC] BY <1>5, <1>10
<1>12. /\ s'.count \in [Lists -> Nat] /\ s' \in Schedulers /\ at' \in [Task -> Places]
  BY <1>5, SoundTypes DEF Good, Sound
<1>13. File.p \in Nat /\ File.g \in Nat BY <1>6 DEF Tickets
<1>14. /\ queue' \in Queues /\ queue'.p = File.p /\ queue'.g = File.g /\ queue'.put = File.put
       /\ queue'.get = File.get
  <2>1. queue \in Queues BY DEF SchedulingInv, TypeOK
  <2> DEFINE p == File.p
             g == File.g
             put == File.put
             get == File.get
  <2>2. queue' = [queue EXCEPT !.p = p, !.g = g, !.put = put, !.get = get] BY <1>1
  <2>3. p \in Nat /\ g \in Nat /\ put \in 0..(Size - 1) /\ get \in 0..(Size - 1) BY <1>6, <1>13
  <2> HIDE DEF p, g, put, get
  <2>4. /\ queue' \in Queues /\ queue'.p = p /\ queue'.g = g /\ queue'.put = put /\ queue'.get = get
    BY <2>1, <2>2, <2>3 DEF Queues
  <2> QED BY <2>4 DEF p, g, put, get
<1>15. Tickets(at', s'.count, queue'.p, queue'.g)
  <2>1. InCall(at', "put") = InCall(File.at, "put") /\ InCall(at', "get") = InCall(File.at, "get")
    BY <1>9 DEF InCall
  <2>2. /\ \A w \in InCall(File.at, "put") : at'[w].v = File.at[w].v
        /\ \A w \in InCall(File.at, "get") : at'[w].v = File.at[w].v
    BY <1>9 DEF InCall
  <2>3. /\ Served(at', "put", File.p) = Served(File.at, "put", File.p)
        /\ Served(at', "get", File.g) = Served(File.at, "get", File.g)
    BY <2>1, <2>2 DEF Served
  <2>4. Tickets(at', s'.count, File.p, File.g) BY <1>6, <1>11, <2>1, <2>2, <2>3 DEF Tickets
  <2> QED BY <2>4, <1>14
<1>16. Ring(s'.count, slot', queue'.put, queue'.get) BY <1>1, <1>6, <1>11, <1>14 DEF Ring, ItemOf
<1>17. Counters' BY <1>1 DEF Counters
<1>18. /\ saved' = <<>> \/ saved' = <<File'>>
       /\ saved' # <<>> => FileSound'
       /\ life' = 2 => saved' # <<>>
  BY <1>1, FileStays
<1>19. TypeOK'
  <2>1. alarms' \in Seq([ec : Shared, time : Nat]) /\ scene' \in Scenarios /\ life' \in {1, 2}
    BY <1>1 DEF SchedulingInv, TypeOK
  <2>2. step' \in [Workers -> Nat] /\ slot' \in Slots BY <1>1, <1>6
  <2> QED BY <1>12, <1>14, <1>18, <2>1, <2>2 DEF TypeOK
<1>20. SchedulingInv'
  <2>1. ListsSound(s') /\ Placed(On(s'), s'.cnt, s'.count, s'.cur, at') BY <1>5 DEF Good, Sound
  <2> QED BY <1>8, <1>15, <1>16, <1>17, <1>18, <1>19, <2>1 DEF SchedulingInv
<1>21. at'[Chk].k = "finished" BY <1>1, <1>2, <1>6, SystemPlaces
<1> QED BY <1>1, <1>5, <1>20, <1>21 DEF Stepped, SetBack

----------------------------------------------------------------------------
(* The invariant as a whole.                                               *)

\* What a step that is none of a restart does: a task is dispatched when it is
\* due, and the queue follows the ticket queue unless it is set back.
Sane == /\ SchedulingInv'
        /\ (life' = life /\ s'.cur # s.cur) => s'.fault = "" /\ DueRun(s', at')
        /\ SetBack \/ TQ!Next \/ UNCHANGED TQ!tvars

\* Each call of a worker.
LEMMA WorkerStep ==
  ASSUME SchedulingInv, NEW w \in Workers, Worker(w)
  PROVE  Sane /\ life' = life
<1>1. life' = life
  BY DEF Worker, Pause, AwaitEvent, AdvanceEvent, Create, FutureAdvance, Put, Get, PutResumed, GetResumed, Finish,
         Begun
<1>2. CASE Pause(w) BY <1>1, <1>2, PauseStep DEF Sane, Stepped
<1>3. CASE AwaitEvent(w) BY <1>1, <1>3, AwaitStep DEF Sane, Stepped
<1>4. CASE AdvanceEvent(w) BY <1>1, <1>4, AdvanceStep DEF Sane, Stepped
<1>5. CASE Create(w) BY <1>1, <1>5, CreateStep DEF Sane, Stepped
<1>6. CASE FutureAdvance(w) BY <1>1, <1>6, FutureStep DEF Sane
<1>7. CASE Put(w) BY <1>1, <1>7, PutStep DEF Sane, Stepped
<1>8. CASE Get(w) BY <1>1, <1>8, GetStep DEF Sane, Stepped
<1>9. CASE PutResumed(w) BY <1>1, <1>9, PutResumedStep DEF Sane, Stepped
<1>10. CASE GetResumed(w) BY <1>1, <1>10, GetResumedStep DEF Sane, Stepped
<1>11. CASE Finish(w) BY <1>1, <1>11, FinishStep DEF Sane, Stepped
<1> QED BY <1>2, <1>3, <1>4, <1>5, <1>6, <1>7, <1>8, <1>9, <1>10, <1>11 DEF Worker

\* Every step of the program.
LEMMA InvStep ==
  ASSUME SchedulingInv, Next, RestoreState => HintFits PROVE Sane
<1>1. CASE \E w \in Workers : Worker(w) BY <1>1, WorkerStep
<1>2. CASE WakeStart BY <1>2, WakeStartStep DEF Sane, Stepped
<1>3. CASE WakeTurn BY <1>3, WakeTurnStep DEF Sane, Stepped
<1>4. CASE WakeFails BY <1>4, WakeFailsStep DEF Sane
<1>5. CASE ChkPause BY <1>5, ChkPauseStep DEF Sane, Stepped
<1>6. CASE SaveState BY <1>6, SaveStateStep DEF Sane, Stepped
<1>7. CASE ChkFinish BY <1>7, ChkFinishStep DEF Sane, Stepped
<1>8. CASE Restart
  <2>1. life' # life BY <1>8 DEF Restart
  <2> QED BY <1>8, <2>1, RestartStep DEF Sane
<1>9. CASE RestoreState BY <1>9, RestoreStep DEF Sane, Stepped
<1> QED BY <1>1, <1>2, <1>3, <1>4, <1>5, <1>6, <1>7, <1>8, <1>9 DEF Next

\* A step that changes nothing.
LEMMA InvStutter == ASSUME SchedulingInv, UNCHANGED vars PROVE SchedulingInv'
<1>1. /\ scene' = scene /\ s' = s /\ at' = at /\ step' = step /\ queue' = queue /\ slot' = slot
      /\ alarms' = alarms /\ saved' = saved /\ life' = life
  BY DEF vars
<1>2. TypeOK' BY <1>1 DEF SchedulingInv, TypeOK, File
<1>3. saved' # <<>> => FileSound' BY <1>1 DEF SchedulingInv, FileSound, File
<1>4. Counters' BY <1>1 DEF SchedulingInv, Counters
<1> QED BY <1>1, <1>2, <1>3, <1>4 DEF SchedulingInv

----------------------------------------------------------------------------
(* What the invariant says of the tasks, the lists and the queue.          *)

\* The elements of a list.
LEMMA Elements ==
  ASSUME NEW S, NEW q \in Seq(S)
  PROVE  /\ Range(q) = {q[i] : i \in 1..Len(q)} /\ Range(q) \subseteq S
         /\ Range(q) # {} => Len(q) \in 1..Len(q)
<1>1. DOMAIN q = 1..Len(q) /\ Len(q) \in Nat /\ \A i \in 1..Len(q) : q[i] \in S OBVIOUS
<1>2. Range(q) = {q[i] : i \in 1..Len(q)} BY <1>1 DEF Range
<1> QED BY <1>1, <1>2

\* A list that is not empty has a first element.
LEMMA NotEmpty == ASSUME NEW S, NEW q \in Seq(S), q # <<>> PROVE Len(q) \in Nat /\ 1 \in 1..Len(q)
OBVIOUS

\* No task is lost, and every task on a list waits for what its list is for.
LEMMA InvNoTaskLost == ASSUME SchedulingInv PROVE NoTaskLost
<1> SUFFICES ASSUME s.fault = "" PROVE NoTaskLost BY DEF NoTaskLost
<1> DEFINE on(l) == Range(Waiting(s, l))
<1>1. s \in Schedulers /\ at \in [Task -> Places] BY DEF SchedulingInv, TypeOK
<1>2. ListsSound(s) /\ Placed(On(s), s.cnt, s.count, s.cur, at) BY DEF SchedulingInv
<1>3. \A l \in Lists : On(s)[l] = on(l) BY DEF On, OnLists
<1>4. /\ \A l \in Lists : Waiting(s, l) \in Seq(Task) /\ on(l) \subseteq Task
      /\ \A l \in Lists : Chained(s.next, s.head[l], Waiting(s, l))
  <2>1. \A l \in Lists : Waiting(s, l) \in Seq(Task) BY <1>2 DEF ListsSound, Arranged
  <2>2. \A l \in Lists : Chained(s.next, s.head[l], Waiting(s, l)) BY <1>2 DEF ListsSound
  <2>3. \A l \in Lists : Range(Waiting(s, l)) \subseteq Task BY <2>1, Elements
  <2> QED BY <2>1, <2>2, <2>3
<1>5. s.cur \in Task \cup {NULL} /\ NULL \notin Task BY <1>1, TaskingAssumption DEF Schedulers, Pointers
<1>6. EC \subseteq Lists BY DEF Lists
<1>7. \A l, m \in Lists : l # m => on(l) \cap on(m) = {}
  <2>1. Sound(s) BY <1>1, <1>2 DEF Sound
  <2> SUFFICES ASSUME NEW l \in Lists, NEW m \in Lists, l # m PROVE on(l) \cap on(m) = {} OBVIOUS
  <2>2. On(s)[l] \cap On(s)[m] = {} BY <2>1, SoundLists
  <2> QED BY <2>2, <1>3
<1>8. \A l \in Lists : on(l) # {} => s.next[Last(Waiting(s, l))] = NULL
  <2> SUFFICES ASSUME NEW l \in Lists, on(l) # {} PROVE s.next[Last(Waiting(s, l))] = NULL OBVIOUS
  <2> DEFINE q == Waiting(s, l)
  <2>1. q \in Seq(Task) /\ Chained(s.next, s.head[l], q) BY <1>4
  <2>2. Range(q) # {} OBVIOUS
  <2> HIDE DEF q
  <2>3. Len(q) \in 1..Len(q) BY <2>1, <2>2, Elements
  <2>4. s.next[q[Len(q)]] = NULL BY <2>1, <2>3 DEF Chained
  <2>5. Last(q) = q[Len(q)] BY DEF Last
  <2> QED BY <2>4, <2>5 DEF q
<1> HIDE DEF on
<1>9. ((UNION {on(l) : l \in Lists}) \cup {s.cur}) \ {NULL} = {t \in Task : Alive(t)}
  <2>1. \A t \in Task : at[t].k \notin Gone <=> t = s.cur \/ \E l \in Lists : t \in On(s)[l]
    BY <1>2 DEF Placed
  <2>2. \A t \in Task : Alive(t) <=> t = s.cur \/ \E l \in Lists : t \in on(l)
    BY ONLY <2>1, <1>3 DEF Alive
  <2>3. \A l \in Lists : on(l) \subseteq Task BY <1>4
  <2> DEFINE U == UNION {on(l) : l \in Lists}
             A == {t \in Task : Alive(t)}
  <2>4. \A t : t \in U <=> \E l \in Lists : t \in on(l) OBVIOUS
  <2>5. \A t : t \in A <=> t \in Task /\ Alive(t) OBVIOUS
  <2> HIDE DEF U, A
  <2>6. ASSUME NEW t \in (U \cup {s.cur}) \ {NULL} PROVE t \in A
    <3>1. t \in Task BY <1>5, <2>3, <2>4, <2>6
    <3> QED BY <2>2, <2>4, <2>5, <2>6, <3>1
  <2>7. ASSUME NEW t \in A PROVE t \in (U \cup {s.cur}) \ {NULL}
    <3>1. t # NULL /\ t \in Task BY <1>5, <2>5
    <3> QED BY <2>2, <2>4, <2>5, <3>1
  <2>8. (U \cup {s.cur}) \ {NULL} = A BY ONLY <2>6, <2>7
  <2> QED BY ONLY <2>8 DEF U, A
<1>10. \A l \in Lists : s.cur \notin on(l) BY <1>2, <1>3 DEF Placed
<1>11. \A l \in EC : \A t \in on(l) : at[t].l = l BY <1>2, <1>3, <1>6 DEF Placed
<1> QED BY <1>7, <1>8, <1>9, <1>10, <1>11 DEF NoTaskLost, on

\* Lists are in order and nobody on them is overdue.
LEMMA InvListsOrdered == ASSUME SchedulingInv PROVE ListsOrdered
<1> SUFFICES ASSUME s.fault = "" PROVE ListsOrdered BY DEF ListsOrdered
<1> DEFINE q == [l \in Lists |-> Waiting(s, l)]
<1>1. ListsSound(s) BY DEF SchedulingInv
<1>2. /\ InOrder(q, s.cnt) /\ Ahead(q, s.cnt, s.count) /\ s.hint \in Range(q[Time]) \cup {NULL}
      /\ \A l \in Lists : q[l] = Waiting(s, l)
  BY <1>1 DEF ListsSound, Arranged
<1>3. Time \in Lists /\ q[Time] \in Seq(Task) BY <1>1 DEF Lists, ListsSound, Arranged
<1> HIDE DEF q
<1>4. \A l \in Lists : Sorted(Waiting(s, l)) BY <1>2 DEF InOrder, Sorted
<1>5. \A l \in Lists : \A i \in 1..Len(Waiting(s, l)) :
        LET c == s.cnt[Waiting(s, l)[i]]
        IN  IF l = Time THEN c >= s.count[Time] ELSE c > s.count[l]
  BY <1>2 DEF Ahead
<1>6. s.hint # NULL => \E i \in 1..Len(Waiting(s, Time)) : Waiting(s, Time)[i] = s.hint
  <2>1. Range(q[Time]) = {q[Time][i] : i \in 1..Len(q[Time])} BY ONLY <1>3, Elements
  <2> QED BY <1>2, <1>3, <2>1
<1> QED BY <1>4, <1>5, <1>6 DEF ListsOrdered

\* The buffer holds what was put and not taken.
LEMMA InvSlotsInOrder == ASSUME SchedulingInv PROVE SlotsInOrder
<1> DEFINE puts == s.count[GetEC]
           gets == s.count[PutEC] - Size
           itemOf(i) == {k \in (gets + 1)..puts : (k - 1) % Size = i}
<1>1. s.count \in [Lists -> Nat] /\ Tickets(at, s.count, queue.p, queue.g) /\ Counters
      /\ Ring(s.count, slot, queue.put, queue.get)
  BY DEF SchedulingInv, TypeOK, Schedulers
<1>2. gets \in Nat /\ puts \in Nat /\ gets <= puts /\ puts <= s.count[PutEC] /\ s.count[PutEC] \in Nat
  BY <1>1, TicketBounds
<1>3. puts - gets <= Size BY <1>2, SchedulingAssumption
<1>4. \A i : itemOf(i) = ItemOf(s.count, i) BY DEF ItemOf
<1>5. \A i \in 0..(Size - 1) : slot[i] = IF itemOf(i) = {} THEN 0 ELSE CHOOSE k \in itemOf(i) : TRUE
  <2> SUFFICES ASSUME NEW i \in 0..(Size - 1)
               PROVE slot[i] = IF itemOf(i) = {} THEN 0 ELSE CHOOSE k \in itemOf(i) : TRUE
    OBVIOUS
  <2>1. IF itemOf(i) = {} THEN slot[i] = 0 ELSE itemOf(i) = {slot[i]} BY <1>1, <1>4 DEF Ring
  <2> HIDE DEF itemOf
  <2>2. CASE itemOf(i) = {} BY <2>1, <2>2
  <2>3. CASE itemOf(i) # {}
    <3>1. itemOf(i) = {slot[i]} BY <2>1, <2>3
    <3>2. (CHOOSE k \in itemOf(i) : TRUE) = slot[i] BY <3>1
    <3> QED BY <3>2, <2>3
  <2> QED BY <2>2, <2>3
<1>6. queue.put = puts % Size /\ queue.get = gets % Size BY <1>1 DEF Ring
<1>7. life = 1 => queue.putCount = puts /\ queue.getCount = gets BY <1>1 DEF Counters
<1> HIDE DEF itemOf, puts, gets
<1> QED BY <1>2, <1>3, <1>5, <1>6, <1>7 DEF SlotsInOrder, itemOf, puts, gets

\* A worker that is dispatched has what it waited for.
LEMMA DueStep ==
  ASSUME Sane,
         s'.cur # s.cur, s'.cur \notin {NULL, Wake, Chk}, life' = life, at'[s'.cur] = at[s'.cur]
  PROVE  LET a == at[s'.cur]
         IN  IF a.l = Time /\ a.k = "run" THEN s'.count[Time] = a.v ELSE s'.count[a.l] >= a.v
<1> DEFINE c == s'.cur
           a == at[c]
<1>1. SchedulingInv' /\ s'.fault = "" /\ DueRun(s', at') BY DEF Sane
<1>2. s' \in Schedulers /\ at' \in [Task -> Places] /\ Roles(at') BY <1>1 DEF SchedulingInv, TypeOK
<1>3. Placed(On(s'), s'.cnt, s'.count, s'.cur, at') BY <1>1 DEF SchedulingInv
<1>4. c \in Workers /\ c \in Task BY <1>2, SchedulingAssumption DEF Schedulers, Pointers
<1>5. a = at'[c] /\ a \in Places BY <1>2, <1>4
<1>6. s'.count \in [Lists -> Nat] BY <1>2 DEF Schedulers
<1>7. a.k \notin Gone /\ (a.l \in EC => s'.count[a.l] >= a.v) BY <1>3, <1>4, <1>5 DEF Placed
<1>8. /\ a.k \in Gone \cup {"new", "run", "put", "get"} /\ (a.k = "new" => a.v = 0)
      /\ (a.k = "put" => a.l = PutEC) /\ (a.k = "get" => a.l = GetEC)
  BY <1>2, <1>4, <1>5 DEF Roles
<1>9. a.l = Time \/ a.l \in EC BY <1>5 DEF Places, Lists
<1>10. PutEC \in EC /\ GetEC \in EC /\ Time \in Lists BY SystemPlaces
<1>11. s'.count[Time] \in Nat BY <1>6, <1>10
<1>12. (a.l = Time /\ a.k = "run") => s'.count[Time] = a.v BY <1>1, <1>4, <1>5 DEF DueRun
<1> HIDE DEF a, c
<1>13. IF a.l = Time /\ a.k = "run" THEN s'.count[Time] = a.v ELSE s'.count[a.l] >= a.v
  BY <1>7, <1>8, <1>9, <1>10, <1>11, <1>12
<1> QED BY <1>13 DEF a, c

----------------------------------------------------------------------------
(* The theorems.                                                           *)

\* The invariant holds as long as no checkpoint with a stale hint is restored.
THEOREM SchedulingHolds == Spec /\ []HintFits => []SchedulingInv
<1>1. Init => SchedulingInv BY InvInit
<1>2. SchedulingInv /\ HintFits /\ [Next]_vars => SchedulingInv' BY InvStep, InvStutter DEF Sane
<1> QED BY <1>1, <1>2, PTL DEF Spec

\* No task is lost, in any program, unless the hint of find_next_task outlives
\* the restoring of a checkpoint (tasking.cc:89-142, 251-277; wakeupcall.cc:149).
THEOREM TasksKept == Spec /\ []HintFits => []NoTaskLost
<1>1. SchedulingInv => NoTaskLost BY InvNoTaskLost
<1> QED BY <1>1, SchedulingHolds, PTL

\* The lists are in order and nobody is overdue (tasking.cc:89-142, 251-277).
THEOREM OrderKept == Spec /\ []HintFits => []ListsOrdered
<1>1. SchedulingInv => ListsOrdered BY InvListsOrdered
<1> QED BY <1>1, SchedulingHolds, PTL

\* The ring of the queue holds the items put and not taken (queue.cc:58-89).
THEOREM SlotsKept == Spec /\ []HintFits => []SlotsInOrder
<1>1. SchedulingInv => SlotsInOrder BY InvSlotsInOrder
<1> QED BY <1>1, SchedulingHolds, PTL

\* A task goes on only when what it waited for has come (tasking.cc:218-239).
THEOREM DueKept == Spec /\ []HintFits => ResumedWhenDue
<1> DEFINE A == (s'.cur # s.cur /\ s'.cur \notin {NULL, Wake, Chk} /\ life' = life /\ at'[s'.cur] = at[s'.cur]) =>
                  LET a == at[s'.cur]
                  IN  IF a.l = Time /\ a.k = "run" THEN s'.count[Time] = a.v ELSE s'.count[a.l] >= a.v
<1>1. SchedulingInv /\ HintFits /\ [Next]_vars => [A]_vars
  <2>1. ASSUME SchedulingInv, HintFits, Next PROVE A
    <3>1. Sane BY <2>1, InvStep
    <3> QED BY <3>1, DueStep
  <2> HIDE DEF A
  <2> QED BY <2>1
<1>2. ResumedWhenDue <=> [][A]_vars BY DEF ResumedWhenDue
<1> HIDE DEF A
<1> QED BY <1>1, <1>2, SchedulingHolds, PTL DEF Spec

\* The queue implements the ticket queue, except where a restart or the
\* restoring of a checkpoint sets it back (queue.cc:58-79).
THEOREM QueueImplements == Spec /\ []HintFits => QueuePromise
<1>1. Init => TQ!Init BY InvInit
<1>2. SchedulingInv /\ HintFits /\ [Next]_vars => [SetBack \/ TQ!Next \/ UNCHANGED TQ!tvars]_vars
  BY InvStep DEF Sane
<1> QED BY <1>1, <1>2, SchedulingHolds, PTL DEF Spec, QueuePromise

----------------------------------------------------------------------------
(* Without a hypothesis on the hint: as long as no state was restored.     *)

\* What holds of every process: the invariant, until a state is restored.
UntilRestored == /\ Unrestored => SchedulingInv
                 /\ DOMAIN at = Task

\* The restored process has no checkpoint task any more, so it stays restored.
LEMMA RestoredStays ==
  ASSUME ~Unrestored, DOMAIN at = Task, Next PROVE ~Unrestored' /\ DOMAIN at' = Task
<1> USE DEF Running
<1>1. life # 1 /\ at[Chk].k = "finished" BY DEF Unrestored
<1>2. Chk \in Task /\ Wake \in Task /\ Wake # Chk /\ Workers \subseteq Task /\ Chk \notin Workers
  BY SchedulingAssumption
<1>3. life' = life /\ at'[Chk] = at[Chk] /\ DOMAIN at' = Task
  <2>1. ASSUME NEW w \in Workers, Worker(w) PROVE life' = life /\ at'[Chk] = at[Chk] /\ DOMAIN at' = Task
    <3> DEFINE Same == life' = life /\ at'[Chk] = at[Chk] /\ DOMAIN at' = Task
    <3>1. w # Chk BY <1>2
    <3>2. CASE Pause(w) BY <1>2, <3>1, <3>2 DEF Pause, Begun
    <3>3. CASE AwaitEvent(w) BY <1>2, <3>1, <3>3 DEF AwaitEvent, Begun
    <3>4. CASE AdvanceEvent(w) BY <1>2, <3>1, <3>4 DEF AdvanceEvent, Begun
    <3>5. CASE Create(w)
      <4>1. PICK c \in Call(w, "create") :
              /\ at[c[2]] = Absent /\ life' = life
              /\ at' = [at EXCEPT ![w].k = "run", ![c[2]] = IF c[3] THEN Created ELSE @]
        BY <3>5 DEF Create, Begun
      <4>2. Absent.k # "finished" BY DEF Absent, Where
      <4>3. c[2] # Chk BY <1>1, <4>1, <4>2
      <4> QED BY <1>2, <3>1, <4>1, <4>3
    <3>6. CASE FutureAdvance(w) BY <1>2, <3>1, <3>6 DEF FutureAdvance, Begun
    <3>7. CASE Put(w) BY <1>2, <3>1, <3>7 DEF Put, Begun
    <3>8. CASE Get(w) BY <1>2, <3>1, <3>8 DEF Get, Begun
    <3>9. CASE PutResumed(w) BY <1>2, <3>1, <3>9 DEF PutResumed
    <3>10. CASE GetResumed(w) BY <1>2, <3>1, <3>10 DEF GetResumed
    <3>11. CASE Finish(w) BY <1>2, <3>1, <3>11 DEF Finish
    <3> QED BY <2>1, <3>2, <3>3, <3>4, <3>5, <3>6, <3>7, <3>8, <3>9, <3>10, <3>11 DEF Worker
  <2>2. CASE WakeStart BY <1>2, <2>2 DEF WakeStart
  <2>3. CASE WakeTurn BY <1>2, <2>3 DEF WakeTurn
  <2>4. CASE WakeFails BY <2>4 DEF WakeFails
  <2>5. ~ChkPause /\ ~SaveState /\ ~ChkFinish /\ ~Restart /\ ~RestoreState
    BY <1>1 DEF ChkPause, SaveState, ChkFinish, Restart, RestoreState
  <2> QED BY <2>1, <2>2, <2>3, <2>4, <2>5 DEF Next
<1> QED BY <1>1, <1>3 DEF Unrestored

\* Restoring a state ends the time the invariant speaks of.
LEMMA RestoringEnds ==
  ASSUME SchedulingInv, RestoreState PROVE ~Unrestored' /\ DOMAIN at' = Task
<1>1. life = 2 /\ life' = life /\ at' = [File.at EXCEPT ![Chk] = Finished] BY DEF RestoreState
<1>2. File.at \in [Task -> Places] BY <1>1 DEF SchedulingInv, FileSound
<1>3. Chk \in Task /\ Finished.k = "finished" BY SchedulingAssumption, SystemPlaces
<1>4. DOMAIN at' = Task /\ at'[Chk] = Finished BY <1>1, <1>2, <1>3
<1> QED BY <1>1, <1>3, <1>4 DEF Unrestored

\* The invariant holds at first ...
LEMMA UntilInit == Init => UntilRestored
<1> SUFFICES ASSUME Init PROVE UntilRestored OBVIOUS
<1>1. SchedulingInv BY InvInit
<1>2. DOMAIN at = Task BY <1>1 DEF SchedulingInv, TypeOK
<1> QED BY <1>1, <1>2 DEF UntilRestored

\* ... and every step keeps it as long as nothing was restored.
LEMMA UntilStep == UntilRestored /\ [Next]_vars => UntilRestored'
<1> SUFFICES ASSUME UntilRestored, [Next]_vars PROVE UntilRestored' OBVIOUS
<1>1. CASE UNCHANGED vars
  <2>1. at' = at /\ life' = life BY <1>1 DEF vars
  <2>2. Unrestored' <=> Unrestored BY <2>1 DEF Unrestored
  <2>3. Unrestored => SchedulingInv' BY <1>1, InvStutter DEF UntilRestored
  <2> QED BY <2>1, <2>2, <2>3 DEF UntilRestored
<1>2. CASE Next /\ ~Unrestored BY <1>2, RestoredStays DEF UntilRestored
<1>3. CASE Next /\ Unrestored /\ RestoreState BY <1>3, RestoringEnds DEF UntilRestored
<1>4. CASE Next /\ Unrestored /\ ~RestoreState
  <2>1. SchedulingInv' BY <1>4, InvStep DEF Sane, UntilRestored
  <2>2. at' \in [Task -> Places] BY <2>1 DEF SchedulingInv, TypeOK
  <2> QED BY <2>1, <2>2 DEF UntilRestored
<1> QED BY <1>1, <1>2, <1>3, <1>4

\* In the first process, and in the second one until it has read the
\* checkpoint, tasks, lists and the queue are sound whatever the program does:
\* only the restoring of a state can break them.
THEOREM SoundUntilRestored ==
  Spec => [](Unrestored => SchedulingInv /\ NoTaskLost /\ ListsOrdered /\ SlotsInOrder)
<1>1. UntilRestored => (Unrestored => SchedulingInv /\ NoTaskLost /\ ListsOrdered /\ SlotsInOrder)
  BY InvNoTaskLost, InvListsOrdered, InvSlotsInOrder DEF UntilRestored
<1> QED BY <1>1, UntilInit, UntilStep, PTL DEF Spec

----------------------------------------------------------------------------
(* The alarms, in programs whose wake-up task runs first.                  *)

\* The wake-up task sleeps until the first alarm, or has not begun; a program
\* without it sets no alarms.
WakeWell == IF Boot[1] = Wake
            THEN AlarmInv /\ (at[Wake].k = "woken" \/ (at[Wake].k = "new" /\ s.cur = Wake))
            ELSE alarms = <<>> /\ at[Wake].k = "absent" /\ s.fault = ""

\* The wake-up task begins first or not at all.
LEMMA WakeBegins ==
  ASSUME scene \in Scenarios, WakeFirst
  PROVE  Begin[Wake].k = IF Boot[1] = Wake THEN "new" ELSE "absent"
<1>1. Boot \in Seq(Task) /\ Boot # <<>> BY ScenarioAssumption DEF Boot
<1>2. Len(Boot) \in Nat /\ 1 \in 1..Len(Boot) BY <1>1, NotEmpty
<1>3. Range(Boot) = Booted BY <1>1, Elements DEF Booted
<1>4. Wake \in Booted => Boot[1] = Wake BY <1>3 DEF WakeFirst, Boot
<1>5. Boot[1] = Wake => Wake \in Booted BY <1>2 DEF Booted
<1>6. Wake \in Task BY SchedulingAssumption
<1>7. Begin[Wake] = IF Wake \in Booted THEN Created ELSE Absent BY <1>6 DEF Begin
<1>8. Created.k = "new" /\ Absent.k = "absent" BY DEF Created, Absent, Where
<1> QED BY <1>4, <1>5, <1>7, <1>8

\* The wake-up task begins well: it runs first, or no alarm is ever set.
LEMMA WakeWellInit == ASSUME Init, WakeFirst PROVE WakeWell
<1>1. s.fault = "" /\ s.cur = Boot[1] /\ at = Begin /\ alarms = <<>> BY InvInit
<1>2. scene \in Scenarios BY DEF Init
<1>3. at[Wake].k = IF Boot[1] = Wake THEN "new" ELSE "absent" BY <1>1, <1>2, WakeBegins
<1>4. CASE Boot[1] = Wake
  <2>1. at[Wake].k = "new" /\ at[Wake].k # "woken" BY <1>3, <1>4
  <2>2. Len(alarms) = 0 BY <1>1
  <2>3. \A i, j \in 1..Len(alarms) : i < j => alarms[i].time <= alarms[j].time BY ONLY <2>2
  <2>4. AlarmInv BY <1>1, <2>1, <2>3 DEF AlarmInv
  <2> QED BY <1>1, <1>4, <2>1, <2>4 DEF WakeWell
<1>5. CASE Boot[1] # Wake BY <1>1, <1>3, <1>5 DEF WakeWell
<1> QED BY <1>4, <1>5

\* The process starts again, without alarms.
LEMMA WakeWellRestart == ASSUME SchedulingInv, Restart, WakeFirst PROVE WakeWell' /\ s'.fault = ""
<1>1. s'.fault = "" /\ s'.cur = Boot[1] /\ at' = Begin /\ alarms' = <<>> BY RestartStep
<1>2. scene' = scene /\ scene \in Scenarios BY DEF Restart, SchedulingInv, TypeOK
<1>3. at'[Wake].k = IF Boot[1] = Wake THEN "new" ELSE "absent" BY <1>1, <1>2, WakeBegins
<1>4. Boot' = Boot BY <1>2 DEF Boot
<1>5. CASE Boot[1] = Wake
  <2>1. at'[Wake].k = "new" /\ at'[Wake].k # "woken" BY <1>3, <1>5
  <2>2. Len(alarms') = 0 BY <1>1
  <2>3. \A i, j \in 1..Len(alarms') : i < j => alarms'[i].time <= alarms'[j].time BY ONLY <2>2
  <2>4. AlarmInv' BY <1>1, <2>1, <2>3 DEF AlarmInv
  <2> QED BY <1>1, <1>4, <1>5, <2>1, <2>4 DEF WakeWell
<1>6. CASE Boot[1] # Wake BY <1>1, <1>3, <1>4, <1>6 DEF WakeWell
<1> QED BY <1>1, <1>5, <1>6

\* A step of another task that leaves the alarms and the wake-up task alone.
LEMMA WakeWellKept ==
  ASSUME SchedulingInv, WakeWell, scene' = scene, alarms' = alarms, s.fault = "", s.cur # Wake, Stepped, WakeKept
  PROVE  WakeWell'
<1>1. Boot' = Boot /\ s'.fault = "" /\ Wake \in Task BY SchedulingAssumption DEF Boot, Stepped
<1>2. CASE Boot[1] # Wake BY <1>1, <1>2 DEF WakeWell, WakeKept
<1>3. CASE Boot[1] = Wake
  <2>1. AlarmInv /\ at[Wake].k = "woken" BY <1>3 DEF WakeWell
  <2>2. at'[Wake].k = "woken" /\ s'.cnt[Wake] = s.cnt[Wake] BY <2>1 DEF WakeKept
  <2>3. s.cnt[Wake] = NextWake(alarms) BY <2>1 DEF AlarmInv
  <2>4. s' \in Schedulers BY DEF Stepped, SchedulingInv, TypeOK
  <2>5. s'.cnt[Wake] \in Nat BY <1>1, <2>4 DEF Schedulers
  <2>6. s'.cur = Wake => s'.count[Time] = s'.cnt[Wake] BY <1>1 DEF Stepped, DueRun
  <2>7. NextWake(alarms)' = NextWake(alarms) BY DEF NextWake
  <2>8. IF s'.cur = Wake THEN s'.count[Time] >= NextWake(alarms)' ELSE s'.cnt[Wake] = NextWake(alarms)'
    <3>1. \A x \in Nat : x >= x BY ONLY <2>5
    <3> QED BY <2>2, <2>3, <2>5, <2>6, <2>7, <3>1
  <2>9. \A i, j \in 1..Len(alarms') : i < j => alarms'[i].time <= alarms'[j].time BY <2>1 DEF AlarmInv
  <2>10. AlarmInv' BY <1>1, <2>2, <2>8, <2>9 DEF AlarmInv
  <2> QED BY <1>1, <1>3, <2>2, <2>10 DEF WakeWell
<1> QED BY <1>2, <1>3

\* The wake-up task goes to sleep again, after the alarms that are left.
LEMMA WakeWellAsleep ==
  ASSUME WakeWell, scene' = scene, Boot[1] = Wake, Stepped, NEW q \in Seq(Alarm), alarms' = q,
         \A i, j \in 1..Len(q) : i < j => q[i].time <= q[j].time,
         Asleep(NextWake(q))
  PROVE  WakeWell'
<1>1. Boot' = Boot /\ s'.fault = "" BY DEF Boot, Stepped
<1>2. NextWake(alarms)' = NextWake(q) BY DEF NextWake
<1>3. at'[Wake].k = "woken" BY DEF Asleep
<1>4. IF s'.cur = Wake THEN s'.count[Time] >= NextWake(alarms)' ELSE s'.cnt[Wake] = NextWake(alarms)'
  BY <1>2 DEF Asleep
<1>5. AlarmInv' BY <1>1, <1>3, <1>4 DEF AlarmInv
<1> QED BY <1>1, <1>3, <1>5 DEF WakeWell

\* The wake-up task that has begun and does not run is on the time list.
LEMMA WakeSleeps ==
  ASSUME SchedulingInv, s.fault = "", s.cur # Wake, at[Wake].k = "woken" PROVE Wake \in On(s)[Time]
<1>1. s \in Schedulers /\ at \in [Task -> Places] /\ Roles(at) BY DEF SchedulingInv, TypeOK
<1>2. ListsSound(s) /\ Placed(On(s), s.cnt, s.count, s.cur, at) BY DEF SchedulingInv
<1>3. Good(s, at) BY <1>1, <1>2 DEF Good, Sound
<1>4. Wake \in Task BY SchedulingAssumption
<1>5. at[Wake].k \notin Gone BY DEF Gone
<1>6. \E l \in Lists : Wake \in On(s)[l] BY <1>2, <1>4, <1>5 DEF Placed
<1>7. \A l \in EC : Wake \notin On(s)[l] BY <1>1, <1>3, WakeOff
<1> QED BY <1>6, <1>7 DEF Lists

\* A new alarm.
LEMMA WakeWellFuture ==
  ASSUME SchedulingInv, WakeWell, WakeFirst, NEW w \in Workers, FutureAdvance(w)
  PROVE  WakeWell' /\ s'.fault = ""
<1>1. PICK c \in Call(w, "alarm") : Begun(w) BY DEF FutureAdvance
<1>2. scene' = scene BY <1>1 DEF Begun
<1>3. Running(w) /\ w # Wake /\ s.cur = w /\ s.fault = ""
  BY <1>1, Caller, SchedulingAssumption DEF Running
<1>4. Boot[1] = Wake
  <2>1. step[w] < Len(Program(w)) /\ c \in Program(w)[step[w] + 1] /\ c[1] = "alarm" BY <1>1 DEF Call
  <2>2. scene \in Scenarios /\ step \in [Workers -> Nat] BY DEF SchedulingInv, TypeOK
  <2>3. Program(w) \in Seq(SUBSET Calls) BY <2>2, ScenarioAssumption DEF Program
  <2>4. step[w] + 1 \in 1..Len(Program(w)) BY <2>1, <2>2, <2>3
  <2>5. \E i \in 1..Len(scene.program[w]) : \E d \in scene.program[w][i] : d[1] = "alarm"
    BY <2>1, <2>4 DEF Program
  <2> QED BY <2>2, <2>5 DEF WakeFirst, Boot
<1>5. AlarmInv /\ at[Wake].k = "woken" BY <1>3, <1>4 DEF WakeWell
<1>6. Wake \in On(s)[Time] BY <1>3, <1>5, WakeSleeps
<1>7. s'.fault = "" /\ s'.cur = s.cur /\ at'[Wake] = at[Wake] BY <1>6, FutureStep
<1>8. PICK a \in Alarm, k \in 0..Len(alarms) : AlarmSet(a, k) BY FutureStep
<1>9. alarms \in Seq(Alarm) BY DEF SchedulingInv, TypeOK, Alarm
<1> DEFINE n == Len(alarms)
<1>10. /\ n \in Nat /\ k \in Nat /\ k <= n /\ a.time \in Nat
       /\ \A i \in 1..n : alarms[i].time \in Nat
  <2>1. n \in Nat /\ k \in Nat /\ k <= n BY <1>8, <1>9
  <2>2. a.time \in Nat BY <1>8 DEF AlarmSet
  <2>3. \A i \in 1..n : alarms[i] \in Alarm BY ONLY <1>9
  <2>4. \A i \in 1..n : alarms[i].time \in Nat BY ONLY <2>3 DEF Alarm
  <2> QED BY <2>1, <2>2, <2>4
<1>11. /\ Len(alarms') = n + 1
       /\ \A i \in 1..(n + 1) : alarms'[i] = IF i <= k THEN alarms[i] ELSE IF i = k + 1 THEN a ELSE alarms[i - 1]
       /\ \A j \in 1..k : alarms[j].time < a.time
       /\ k < n => a.time <= alarms[k + 1].time
       /\ s'.cnt[Wake] = IF k = 0 THEN a.time ELSE s.cnt[Wake]
  <2>1. PutIn(alarms', alarms, a, k) BY <1>8 DEF AlarmSet
  <2>2. Len(alarms') = n + 1 BY ONLY <2>1 DEF PutIn
  <2>3. \A i \in 1..Len(alarms') : alarms'[i] = IF i <= k THEN alarms[i] ELSE IF i = k + 1 THEN a ELSE alarms[i - 1]
    BY ONLY <2>1 DEF PutIn
  <2>4. /\ \A j \in 1..k : alarms[j].time < a.time
        /\ k < n => a.time <= alarms[k + 1].time
        /\ s'.cnt[Wake] = IF k = 0 THEN a.time ELSE s.cnt[Wake]
    BY <1>6, <1>8 DEF AlarmSet
  <2> QED BY ONLY <2>2, <2>3, <2>4
<1>12. /\ \A i, j \in 1..n : i < j => alarms[i].time <= alarms[j].time
       /\ s.cnt[Wake] = NextWake(alarms)
  BY <1>3, <1>5 DEF AlarmInv
<1>13. \A i, j \in 1..(n + 1) : i < j => alarms'[i].time <= alarms'[j].time
  <2> HIDE DEF n
  <2> SUFFICES ASSUME NEW i \in 1..(n + 1), NEW j \in 1..(n + 1), i < j
               PROVE  alarms'[i].time <= alarms'[j].time
    OBVIOUS
  <2>1. \A m \in (k + 1)..n : a.time <= alarms[m].time
    <3> SUFFICES ASSUME NEW m \in (k + 1)..n PROVE a.time <= alarms[m].time OBVIOUS
    <3>1. k + 1 \in 1..n /\ m \in 1..n /\ k < n BY <1>10
    <3>2. alarms[k + 1].time <= alarms[m].time
      <4>1. CASE m = k + 1 BY <1>10, <3>1, <4>1
      <4>2. CASE m # k + 1
        <5>1. k + 1 < m BY <1>10, <4>2
        <5> QED BY <1>12, <3>1, <5>1
      <4> QED BY <4>1, <4>2
    <3> QED BY <1>10, <1>11, <3>1, <3>2
  <2>2. alarms'[i] = IF i <= k THEN alarms[i] ELSE IF i = k + 1 THEN a ELSE alarms[i - 1] BY <1>11
  <2>3. alarms'[j] = IF j <= k THEN alarms[j] ELSE IF j = k + 1 THEN a ELSE alarms[j - 1] BY <1>11
  <2>4. CASE j <= k
    <3>1. i \in 1..n /\ j \in 1..n /\ i <= k BY <1>10, <2>4
    <3> QED BY <1>12, <2>2, <2>3, <2>4, <3>1
  <2>5. CASE j = k + 1
    <3>1. i \in 1..n /\ i \in 1..k /\ i <= k /\ ~(j <= k) BY <1>10, <2>5
    <3>2. alarms[i].time < a.time BY <1>11, <3>1
    <3> QED BY <1>10, <2>2, <2>3, <2>5, <3>1, <3>2
  <2>6. CASE j > k + 1 /\ i <= k
    <3>1. i \in 1..n /\ j - 1 \in 1..n /\ i < j - 1 /\ ~(j <= k) /\ j # k + 1 BY <1>10, <2>6
    <3>2. alarms[i].time <= alarms[j - 1].time BY <1>12, <3>1
    <3> QED BY <2>2, <2>3, <2>6, <3>1, <3>2
  <2>7. CASE j > k + 1 /\ i = k + 1
    <3>1. j - 1 \in (k + 1)..n /\ ~(j <= k) /\ j # k + 1 /\ ~(i <= k) BY <1>10, <2>7
    <3> QED BY <2>1, <2>2, <2>3, <2>7, <3>1
  <2>8. CASE j > k + 1 /\ i > k + 1
    <3>1. i - 1 \in 1..n /\ j - 1 \in 1..n /\ i - 1 < j - 1 BY <1>10, <2>8
    <3>2. ~(j <= k) /\ j # k + 1 /\ ~(i <= k) /\ i # k + 1 BY <1>10, <2>8
    <3>3. alarms[i - 1].time <= alarms[j - 1].time BY <1>12, <3>1
    <3> QED BY <2>2, <2>3, <3>2, <3>3
  <2>9. \/ j <= k \/ j = k + 1 \/ (j > k + 1 /\ i <= k) \/ (j > k + 1 /\ i = k + 1)
        \/ (j > k + 1 /\ i > k + 1)
    BY <1>10
  <2> QED BY <2>4, <2>5, <2>6, <2>7, <2>8, <2>9
<1>14. s'.cnt[Wake] = NextWake(alarms)'
  <2>1. alarms' # <<>>
    <3>1. alarms' \in Seq(Alarm) BY <1>8 DEF AlarmSet, PutIn
    <3> QED BY <1>10, <1>11, <3>1
  <2>2. NextWake(alarms)' = alarms'[1].time BY <2>1 DEF NextWake
  <2>3. alarms'[1] = IF k = 0 THEN a ELSE alarms[1]
    <3>1. 1 \in 1..(n + 1) /\ (k = 0 => ~(1 <= k) /\ 1 = k + 1) /\ (k # 0 => 1 <= k) BY <1>10
    <3> QED BY <1>11, <3>1
  <2>4. k # 0 => NextWake(alarms) = alarms[1].time
    <3>1. k # 0 => alarms # <<>> BY <1>9, <1>10
    <3> QED BY <3>1 DEF NextWake
  <2> QED BY <1>11, <1>12, <2>2, <2>3, <2>4
<1>15. AlarmInv'
  <2>1. at'[Wake].k = "woken" /\ s'.cur # Wake BY <1>3, <1>5, <1>7
  <2> QED BY <1>7, <1>11, <1>13, <1>14, <2>1 DEF AlarmInv
<1>16. Boot' = Boot BY <1>2 DEF Boot
<1> QED BY <1>4, <1>5, <1>7, <1>15, <1>16 DEF WakeWell

\* Every step but the restoring of a state keeps the alarms well, and only the
\* wake-up task fails.
LEMMA WakeWellStep ==
  ASSUME SchedulingInv, WakeWell, WakeFirst, Next, ~RestoreState
  PROVE  WakeWell' /\ (s'.fault # "" => WakeFails)
<1>1. Wake \in Task /\ Wake # Chk /\ Wake \notin Workers /\ Wake # NULL
  BY SchedulingAssumption, TaskingAssumption
<1>2. ASSUME NEW w \in Workers, Worker(w) PROVE WakeWell' /\ s'.fault = ""
  <2>1. CASE FutureAdvance(w) BY <2>1, WakeWellFuture
  <2>2. CASE ~FutureAdvance(w)
    <3>1. scene' = scene /\ alarms' = alarms /\ s.fault = "" /\ s.cur = w
      <4>1. CASE PutResumed(w) \/ GetResumed(w) \/ Finish(w)
        BY <4>1 DEF PutResumed, GetResumed, Finish, Running
      <4>2. ASSUME NEW k, NEW c \in Call(w, k), Begun(w), alarms' = alarms
            PROVE  scene' = scene /\ alarms' = alarms /\ s.fault = "" /\ s.cur = w
        BY <4>2, Caller DEF Begun, Running
      <4>3. CASE Pause(w) BY <4>2, <4>3 DEF Pause
      <4>4. CASE AwaitEvent(w) BY <4>2, <4>4 DEF AwaitEvent
      <4>5. CASE AdvanceEvent(w) BY <4>2, <4>5 DEF AdvanceEvent
      <4>6. CASE Create(w) BY <4>2, <4>6 DEF Create
      <4>7. CASE Put(w) BY <4>2, <4>7 DEF Put
      <4>8. CASE Get(w) BY <4>2, <4>8 DEF Get
      <4> QED BY <1>2, <2>2, <4>1, <4>3, <4>4, <4>5, <4>6, <4>7, <4>8 DEF Worker
    <3>2. Stepped /\ WakeKept
      BY <1>2, <2>2, PauseStep, AwaitStep, AdvanceStep, CreateStep, PutStep, GetStep, PutResumedStep,
         GetResumedStep, FinishStep
      DEF Worker
    <3>3. s.cur # Wake BY <1>1, <3>1
    <3>4. s'.fault = "" BY <3>2 DEF Stepped
    <3> QED BY <3>1, <3>2, <3>3, <3>4, WakeWellKept
  <2> QED BY <2>1, <2>2
<1>3. CASE WakeStart
  <2>1. /\ Running(Wake) /\ at[Wake].k = "new" /\ scene' = scene /\ alarms' = alarms
    BY <1>3 DEF WakeStart
  <2>2. Boot[1] = Wake /\ AlarmInv BY <2>1 DEF WakeWell
  <2>3. alarms = <<>> BY <2>1, <2>2 DEF AlarmInv
  <2>4. Stepped /\ Asleep(Never) BY <1>3, WakeStartStep
  <2>5. NextWake(<<>>) = Never /\ alarms' = <<>> BY <2>1, <2>3 DEF NextWake
  <2>6. <<>> \in Seq(Alarm) /\ Len(<<>>) = 0 OBVIOUS
  <2>7. \A i, j \in 1..Len(<<>>) : i < j => <<>>[i].time <= <<>>[j].time BY ONLY <2>6
  <2>8. Asleep(NextWake(<<>>)) BY <2>4, <2>5
  <2>9. WakeWell' BY <2>1, <2>2, <2>4, <2>5, <2>6, <2>7, <2>8, WakeWellAsleep
  <2> QED BY <2>4, <2>9 DEF Stepped
<1>4. CASE WakeTurn
  <2> DEFINE q == Tail(alarms)
  <2>1. Running(Wake) /\ at[Wake].k = "woken" /\ scene' = scene BY <1>4 DEF WakeTurn
  <2>2. Boot[1] = Wake /\ AlarmInv BY <2>1 DEF WakeWell
  <2>3. Stepped /\ Asleep(NextWake(q)) /\ alarms' = q /\ alarms # <<>> BY <1>4, WakeTurnStep
  <2>4. alarms \in Seq(Alarm) BY DEF SchedulingInv, TypeOK, Alarm
  <2>5. q \in Seq(Alarm) /\ Len(q) = Len(alarms) - 1 /\ \A i \in 1..Len(q) : q[i] = alarms[i + 1] BY <2>3, <2>4
  <2>6. Len(alarms) \in Nat BY <2>4
  <2>7. \A i, j \in 1..Len(alarms) : i < j => alarms[i].time <= alarms[j].time BY <2>2 DEF AlarmInv
  <2> HIDE DEF q
  <2>8. \A i, j \in 1..Len(q) : i < j => q[i].time <= q[j].time
    <3> SUFFICES ASSUME NEW i \in 1..Len(q), NEW j \in 1..Len(q), i < j PROVE q[i].time <= q[j].time OBVIOUS
    <3>1. i + 1 \in 1..Len(alarms) /\ j + 1 \in 1..Len(alarms) /\ i + 1 < j + 1 BY <2>5, <2>6
    <3>2. alarms[i + 1].time <= alarms[j + 1].time BY <2>7, <3>1
    <3> QED BY <2>5, <3>2
  <2>9. WakeWell' BY <2>1, <2>2, <2>3, <2>5, <2>8, WakeWellAsleep
  <2> QED BY <2>3, <2>9 DEF Stepped
<1>5. CASE WakeFails
  <2>1. Running(Wake) /\ at[Wake].k = "woken" /\ scene' = scene BY <1>5 DEF WakeFails
  <2>2. Boot[1] = Wake /\ AlarmInv BY <2>1 DEF WakeWell
  <2>3. /\ s'.cur = s.cur /\ at' = at /\ alarms' = alarms /\ s'.fault = WakeFault /\ WakeFault # ""
    BY <1>5, WakeFailsStep
  <2>4. s.count[Time] >= NextWake(alarms) BY <2>1, <2>2 DEF AlarmInv, Running
  <2>5. WakeFault = "Wakeupcall without an alarm??"
    <3>1. alarms # <<>> => s.count[Time] >= alarms[1].time BY <2>4 DEF NextWake
    <3>2. alarms # <<>> => alarms[1].time \in Nat
      <4>1. alarms \in Seq(Alarm) BY DEF SchedulingInv, TypeOK, Alarm
      <4>2. alarms # <<>> => alarms[1] \in Alarm BY <4>1, NotEmpty
      <4> QED BY <4>2 DEF Alarm
    <3>3. s.count[Time] \in Nat
      <4>1. s \in Schedulers BY DEF SchedulingInv, TypeOK
      <4> QED BY <4>1 DEF Schedulers, Lists
    <3>4. alarms # <<>> => ~(s.count[Time] < alarms[1].time) BY <3>1, <3>2, <3>3
    <3> QED BY <2>3, <3>4 DEF WakeFault
  <2>6. AlarmInv' BY <2>2, <2>3, <2>5 DEF AlarmInv
  <2>7. Boot' = Boot BY <2>1 DEF Boot
  <2> QED BY <1>5, <2>1, <2>2, <2>3, <2>6, <2>7 DEF WakeWell
<1>6. ASSUME ChkPause \/ SaveState \/ ChkFinish PROVE WakeWell' /\ s'.fault = ""
  <2>1. scene' = scene /\ alarms' = alarms /\ s.fault = "" /\ s.cur = Chk
    BY <1>6 DEF ChkPause, SaveState, ChkFinish, Running
  <2>2. Stepped /\ WakeKept BY <1>6, ChkPauseStep, SaveStateStep, ChkFinishStep
  <2>3. s.cur # Wake BY <1>1, <2>1
  <2>4. s'.fault = "" BY <2>2 DEF Stepped
  <2> QED BY <2>1, <2>2, <2>3, <2>4, WakeWellKept
<1>7. CASE Restart BY <1>7, WakeWellRestart
<1> QED BY <1>2, <1>3, <1>4, <1>5, <1>6, <1>7 DEF Next

\* The alarms stay well until a state is restored.
AlarmsWell == UntilRestored /\ (Unrestored => WakeWell)

\* Every step keeps the alarms and the wake-up task in order until a checkpoint is
\* restored.
LEMMA AlarmsStep == WakeFirst /\ AlarmsWell /\ [Next]_vars => AlarmsWell'
<1> SUFFICES ASSUME WakeFirst, AlarmsWell, [Next]_vars PROVE AlarmsWell' OBVIOUS
<1>1. UntilRestored' BY UntilStep DEF AlarmsWell
<1>2. CASE UNCHANGED vars
  <2>1. scene' = scene /\ s' = s /\ at' = at /\ alarms' = alarms /\ life' = life BY <1>2 DEF vars
  <2>2. Unrestored' <=> Unrestored BY <2>1 DEF Unrestored
  <2>3. AlarmInv' <=> AlarmInv BY <2>1 DEF AlarmInv, NextWake
  <2>4. WakeWell' <=> WakeWell BY <2>1, <2>3 DEF WakeWell, Boot
  <2> QED BY <1>1, <2>2, <2>4 DEF AlarmsWell
<1>3. CASE Next /\ ~Unrestored BY <1>1, <1>3, RestoredStays DEF AlarmsWell, UntilRestored
<1>4. CASE Next /\ Unrestored /\ RestoreState
  BY <1>1, <1>4, RestoringEnds DEF AlarmsWell, UntilRestored
<1>5. CASE Next /\ Unrestored /\ ~RestoreState
  BY <1>1, <1>5, WakeWellStep DEF AlarmsWell, UntilRestored
<1> QED BY <1>2, <1>3, <1>4, <1>5

\* While alarms are pending the wake-up task is due at the first of them.
LEMMA InvAlarmArmed == ASSUME SchedulingInv, WakeWell PROVE AlarmArmed
<1> SUFFICES ASSUME alarms # <<>>, s.fault = "", s.cur # Wake
             PROVE  /\ s.cnt[Wake] = alarms[1].time
                    /\ \A i \in 1..Len(alarms) : alarms[i].time >= s.count[Time]
  BY DEF AlarmArmed
<1>1. AlarmInv /\ at[Wake].k = "woken" BY DEF WakeWell, AlarmInv
<1>2. s.cnt[Wake] = alarms[1].time BY <1>1 DEF AlarmInv, NextWake
<1>3. Wake \in On(s)[Time] BY <1>1, WakeSleeps
<1>4. s \in Schedulers /\ Time \in Lists /\ alarms \in Seq(Alarm)
  BY DEF SchedulingInv, TypeOK, Lists, Alarm
<1>5. ListsSound(s) BY DEF SchedulingInv
<1>6. Sound(s) BY <1>4, <1>5 DEF Sound
<1>7. s.cnt[Wake] >= s.count[Time] BY <1>3, <1>4, <1>6, SoundLists
<1>8. s.count[Time] \in Nat BY <1>4 DEF Schedulers
<1>9. Len(alarms) \in Nat /\ 1 \in 1..Len(alarms) BY <1>4, NotEmpty
<1>9a. alarms \in Seq(Alarm) BY <1>4
<1>10. \A i \in 1..Len(alarms) : alarms[i] \in Alarm BY ONLY <1>9a
<1>11. \A i \in 1..Len(alarms) : alarms[i].time \in Nat BY <1>10 DEF Alarm
<1>12. ASSUME NEW i \in 1..Len(alarms) PROVE alarms[i].time >= s.count[Time]
  <2>1. CASE i = 1 BY <1>2, <1>7, <2>1
  <2>2. CASE i # 1
    <3>1. 1 < i BY ONLY <1>9, <2>2, i \in 1..Len(alarms)
    <3>2. alarms[1].time <= alarms[i].time BY <1>1, <1>9, <3>1 DEF AlarmInv
    <3>3. alarms[1].time \in Nat /\ alarms[i].time \in Nat BY <1>9, <1>11
    <3>4. alarms[1].time >= s.count[Time] BY <1>2, <1>7
    <3> QED BY ONLY <1>8, <3>2, <3>3, <3>4
  <2> QED BY <2>1, <2>2
<1> QED BY <1>2, <1>12

\* In programs whose wake-up task runs first, no alarm is late or lost until a
\* state is restored, which has none (wakeupcall.cc:138-155, 164-199).
THEOREM AlarmsArmed == ASSUME WakeFirst PROVE Spec => [](Unrestored => AlarmArmed)
<1>1. Init => AlarmsWell BY UntilInit, WakeWellInit DEF AlarmsWell
<1>2. AlarmsWell /\ [Next]_vars => AlarmsWell' BY AlarmsStep
<1>3. AlarmsWell => (Unrestored => AlarmArmed) BY InvAlarmArmed DEF AlarmsWell, UntilRestored
<1> QED BY <1>1, <1>2, <1>3, PTL DEF Spec

\* The process has stopped where nothing is left to run.
Ended == s.fault # "" => s.count[Time] = Never /\ s.head[Time] = NULL

\* The wake-up task fails only at the end of time, with nobody else waiting.
LEMMA FailsAtEnd == ASSUME SchedulingInv, WakeWell, TimeLeft, WakeFails PROVE Ended'
<1>1. Running(Wake) /\ at[Wake].k = "woken" BY DEF WakeFails
<1>2. AlarmInv /\ s.cur = Wake /\ s.fault = "" BY <1>1 DEF WakeWell, Running
<1>3. WakeFault # "" /\ s'.count = s.count /\ s'.head = s.head BY WakeFailsStep
<1>4. s \in Schedulers /\ Time \in Lists /\ alarms \in Seq(Alarm)
  BY DEF SchedulingInv, TypeOK, Lists, Alarm
<1>5. s.count[Time] \in Nat /\ s.cnt \in [Task -> Nat] /\ Never \in Nat BY <1>4, SchedulingAssumption DEF Schedulers
<1>6. s.count[Time] >= NextWake(alarms) BY <1>1, <1>2 DEF AlarmInv
<1>7. alarms = <<>>
  <2> SUFFICES ASSUME alarms # <<>> PROVE FALSE OBVIOUS
  <2>1. alarms[1] \in Alarm BY <1>4, NotEmpty
  <2>2. alarms[1].time \in Nat BY <2>1 DEF Alarm
  <2>3. s.count[Time] < alarms[1].time BY <1>3 DEF WakeFault
  <2>4. s.count[Time] >= alarms[1].time BY <1>6 DEF NextWake
  <2> QED BY <1>5, <2>2, <2>3, <2>4
<1>8. s.count[Time] = Never
  <2>1. s.count[Time] >= Never BY <1>6, <1>7 DEF NextWake
  <2>2. s.count[Time] <= Never BY DEF TimeLeft
  <2> QED BY <1>5, <2>1, <2>2
<1>9. ListsSound(s) /\ Placed(On(s), s.cnt, s.count, s.cur, at) BY <1>2 DEF SchedulingInv
<1>10. Sound(s) BY <1>4, <1>9 DEF Sound
<1>11. On(s)[Time] = {}
  <2> SUFFICES ASSUME NEW t \in On(s)[Time] PROVE FALSE OBVIOUS
  <2>1. t # Wake BY <1>2, <1>4, <1>9 DEF Placed
  <2>2. t \in Task BY <1>4, <1>10, SoundLists
  <2>3. s.cnt[t] >= s.count[Time] BY <1>4, <1>10, SoundLists
  <2>4. s.cnt[t] < Never BY <2>1, <2>2 DEF TimeLeft
  <2>5. s.cnt[t] \in Nat BY <1>5, <2>2
  <2> QED BY <1>5, <1>8, <2>3, <2>4, <2>5
<1>12. s.head[Time] = NULL BY <1>4, <1>10, <1>11, SoundLists
<1> QED BY <1>3, <1>8, <1>12 DEF Ended

\* In programs whose wake-up task runs first and whose tasks are due before
\* the end of time, no assertion fails until a state is restored, except that
\* of the wake-up task when only it is left (tasking.cc:117, 192;
\* wakeupcall.cc:92, 184, 189).
THEOREM AssertionsKept ==
  ASSUME WakeFirst PROVE Spec /\ []TimeLeft => [](Unrestored => AssertionsHold)
<1> DEFINE I == AlarmsWell /\ (Unrestored => Ended)
<1>1. Init => I
  <2> SUFFICES ASSUME Init PROVE I OBVIOUS
  <2>1. s.fault = "" BY InvInit
  <2> QED BY <2>1, UntilInit, WakeWellInit DEF AlarmsWell, Ended
<1>2. I /\ TimeLeft /\ [Next]_vars => I'
  <2> SUFFICES ASSUME I, TimeLeft, [Next]_vars PROVE I' OBVIOUS
  <2>1. AlarmsWell' BY AlarmsStep
  <2>2. CASE UNCHANGED vars
    <3>1. s' = s /\ at' = at /\ life' = life BY <2>2 DEF vars
    <3>2. (Unrestored' <=> Unrestored) /\ (Ended' <=> Ended) BY <3>1 DEF Unrestored, Ended
    <3> QED BY <2>1, <3>2
  <2>3. CASE Next /\ ~Unrestored
    BY <2>1, <2>3, RestoredStays DEF AlarmsWell, UntilRestored
  <2>4. CASE Next /\ Unrestored /\ RestoreState
    BY <2>1, <2>4, RestoringEnds DEF AlarmsWell, UntilRestored
  <2>5. CASE Next /\ Unrestored /\ ~RestoreState
    <3>1. SchedulingInv /\ WakeWell BY <2>5 DEF AlarmsWell, UntilRestored
    <3>2. s'.fault # "" => WakeFails BY <2>5, <3>1, WakeWellStep
    <3>3. WakeFails => Ended' BY <3>1, FailsAtEnd
    <3>4. Ended' BY <3>2, <3>3 DEF Ended
    <3> QED BY <2>1, <3>4
  <2> QED BY <2>2, <2>3, <2>4, <2>5
<1>3. I => (Unrestored => AssertionsHold)
  BY DEF AlarmsWell, WakeWell, AlarmInv, Ended, AssertionsHold
<1> HIDE DEF I
<1> QED BY <1>1, <1>2, <1>3, PTL DEF Spec
=============================================================================
