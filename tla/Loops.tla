------------------------------- MODULE Loops -------------------------------
(***************************************************************************)
(* Induction without induction theorems: the least number at which         *)
(* something goes wrong.  With it, what a loop computes can be said of the *)
(* recursive functions that model loops.                                   *)
(***************************************************************************)
EXTENDS Integers, WellFoundedInduction, TLAPS

\* Every set of natural numbers that is not empty has a least member.
LEMMA LeastExists == ASSUME NEW T \in SUBSET Nat, T # {}
                     PROVE  \E m \in T : \A n \in T : m <= n
<1> DEFINE Less == {ss \in Nat \X Nat : ss[1] < ss[2]}
<1>1. IsWellFoundedOn(Less, Nat) BY NatLessThanWellFounded DEF OpToRel
<1>2. PICK m \in T : \A n \in T : ~ (<<n, m>> \in Less)
  <2>1. T \subseteq Nat OBVIOUS
  <2> HIDE DEF Less
  <2> QED BY <1>1, <2>1, WFMin
<1>3. \A n \in T : ~ (n < m) BY <1>2
<1> QED BY <1>3

\* Induction up to N, over the set of numbers for which something holds.
LEMMA UpTo == ASSUME NEW N \in Nat, NEW T, 0 \in T, \A n \in 0..(N - 1) : n \in T => n + 1 \in T
              PROVE  0..N \subseteq T
<1> DEFINE Wrong == {n \in 0..N : n \notin T}
<1> SUFFICES Wrong = {} OBVIOUS
<1> SUFFICES ASSUME Wrong # {} PROVE FALSE OBVIOUS
<1>1. PICK n \in Wrong : \A k \in Wrong : n <= k
  <2>1. Wrong \in SUBSET Nat OBVIOUS
  <2> HIDE DEF Wrong
  <2> QED BY <2>1, LeastExists
<1>2. n \in 1..N /\ n \notin T OBVIOUS
<1>3. n - 1 \in 0..(N - 1) /\ n - 1 \notin Wrong BY <1>1, <1>2
<1>4. n - 1 \in T BY <1>3
<1> QED BY <1>2, <1>3, <1>4

\* f is a run of a loop of N passes: what next makes of its state in pass n.
IsRun(f, N, first, next) == f = [n \in 0..N |-> IF n = 0 THEN first ELSE next[<<f[n - 1], n>>]]

\* A loop over a set of states, whose passes stay in the set, has a run.
LEMMA RunExists ==
  ASSUME NEW N \in Nat, NEW S, NEW first \in S, NEW next \in [S \X (1..N) -> S]
  PROVE  \E f \in [0..N -> S] : IsRun(f, N, first, next)
<1> DEFINE Run(f, k) == f = [n \in 0..k |-> IF n = 0 THEN first ELSE next[<<f[n - 1], n>>]]
           T == {k \in 0..N : \E f \in [0..k -> S] : Run(f, k)}
<1>1. 0 \in T
  <2> DEFINE f == [n \in 0..0 |-> first]
  <2>1. f = [n \in 0..0 |-> IF n = 0 THEN first ELSE next[<<f[n - 1], n>>]] OBVIOUS
  <2>2. f \in [0..0 -> S] /\ Run(f, 0) BY <2>1
  <2> HIDE DEF Run, f
  <2> QED BY <2>2
<1>2. ASSUME NEW k \in 0..(N - 1), k \in T PROVE k + 1 \in T
  <2>1. PICK f \in [0..k -> S] : Run(f, k) BY <1>2
  <2> DEFINE last == next[<<f[k], k + 1>>]
             g == [n \in 0..(k + 1) |-> IF n = k + 1 THEN last ELSE f[n]]
             h == [n \in 0..(k + 1) |-> IF n = 0 THEN first ELSE next[<<g[n - 1], n>>]]
  <2>2. last \in S
    <3>1. <<f[k], k + 1>> \in S \X (1..N) OBVIOUS
    <3> QED BY <3>1
  <2>3. g \in [0..(k + 1) -> S]
    <3> HIDE DEF last
    <3> QED BY <2>2
  <2>4. ASSUME NEW n \in 0..(k + 1) PROVE g[n] = h[n]
    <3>1. CASE n = k + 1
      <4>1. n # 0 /\ n - 1 = k /\ k \in 0..(k + 1) /\ k # k + 1 BY <3>1
      <4>2. g[k] = f[k] BY <4>1
      <4> HIDE DEF g
      <4>3. h[n] = next[<<g[n - 1], n>>] BY <4>1
      <4>4. h[n] = last BY <3>1, <4>1, <4>2, <4>3
      <4> QED BY <3>1, <4>4 DEF g
    <3>2. CASE n # k + 1
      <4>1. n \in 0..k BY <3>2
      <4>2. g[n] = f[n] BY <3>2
      <4>3. CASE n = 0
        <5>1. f[0] = first BY <2>1
        <5> QED BY <4>2, <4>3, <5>1
      <4>4. CASE n # 0
        <5>1. n - 1 \in 0..(k + 1) /\ n - 1 # k + 1 BY <4>1, <4>4
        <5>2. g[n - 1] = f[n - 1] BY <5>1
        <5>3. f[n] = next[<<f[n - 1], n>>] BY <2>1, <4>1, <4>4
        <5> HIDE DEF g
        <5>4. h[n] = next[<<g[n - 1], n>>] BY <4>4
        <5> QED BY <4>2, <5>2, <5>3, <5>4
      <4> QED BY <4>3, <4>4
    <3> QED BY <3>1, <3>2
  <2>5. g = h
    <3>1. DOMAIN g = 0..(k + 1) /\ DOMAIN h = 0..(k + 1) OBVIOUS
    <3>2. g = [n \in 0..(k + 1) |-> g[n]] OBVIOUS
    <3>3. h = [n \in 0..(k + 1) |-> h[n]] OBVIOUS
    <3> HIDE DEF g, h
    <3> QED BY <2>4, <3>2, <3>3
  <2>6. Run(g, k + 1) BY <2>5
  <2> HIDE DEF Run, g
  <2> QED BY <2>3, <2>6
<1>3. 0..N \subseteq T
  <2> HIDE DEF T
  <2> QED BY <1>1, <1>2, UpTo
<1>4. N \in T BY <1>3
<1>5. PICK f \in [0..N -> S] : Run(f, N) BY <1>4
<1> QED BY <1>5 DEF IsRun
=============================================================================
