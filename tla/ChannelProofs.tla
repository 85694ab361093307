--------------------------- MODULE ChannelProofs ---------------------------
(***************************************************************************)
(* No thread is lost: ThreadsPlaced, for every set of programs that use    *)
(* the library as ProgramsUse says.                                        *)
(***************************************************************************)
EXTENDS ThreadProps, Loops

----------------------------------------------------------------------------
(* Sequences.                                                              *)

LEMMA AppendFacts ==
  ASSUME NEW T, NEW q \in Seq(T), NEW e \in T
  PROVE  /\ Append(q, e) \in Seq(T) /\ Range(Append(q, e)) = Range(q) \cup {e} /\ Append(q, e) # <<>>
         /\ IsInjective(q) /\ e \notin Range(q) => IsInjective(Append(q, e))
<1>1. /\ Append(q, e) \in Seq(T) /\ Len(q) \in Nat /\ DOMAIN q = 1..Len(q)
      /\ DOMAIN Append(q, e) = 1..(Len(q) + 1) /\ Append(q, e)[Len(q) + 1] = e
      /\ \A i \in 1..Len(q) : Append(q, e)[i] = q[i]
  OBVIOUS
<1> DEFINE r == Append(q, e)
<1>2. r # <<>> BY <1>1
<1> HIDE DEF r
<1>3. Range(r) = Range(q) \cup {e}
  <2>1. ASSUME NEW v \in Range(r) PROVE v \in Range(q) \cup {e}
    BY <1>1 DEF Range, r
  <2>2. ASSUME NEW v \in Range(q) PROVE v \in Range(r)
    <3>1. PICK i \in 1..Len(q) : q[i] = v BY <1>1 DEF Range
    <3>2. i \in DOMAIN r /\ r[i] = v BY <1>1, <3>1 DEF r
    <3> QED BY <3>2 DEF Range
  <2>3. e \in Range(r)
    <3>1. Len(q) + 1 \in DOMAIN r /\ r[Len(q) + 1] = e BY <1>1 DEF r
    <3> QED BY <3>1 DEF Range
  <2> QED BY <2>1, <2>2, <2>3
<1>4. ASSUME IsInjective(q), e \notin Range(q) PROVE IsInjective(r)
  <2>1. SUFFICES ASSUME NEW i \in DOMAIN r, NEW j \in DOMAIN r, r[i] = r[j] PROVE i = j BY DEF IsInjective
  <2>2. \A n \in 1..Len(q) : q[n] # e BY <1>1, <1>4 DEF Range
  <2>3. \A n, m \in 1..Len(q) : q[n] = q[m] => n = m BY <1>1, <1>4 DEF IsInjective
  <2> QED BY <1>1, <2>1, <2>2, <2>3 DEF r
<1> QED BY <1>1, <1>2, <1>3, <1>4 DEF r

LEMMA TailFacts ==
  ASSUME NEW T, NEW q \in Seq(T), q # <<>>, IsInjective(q)
  PROVE  /\ Head(q) \in T /\ Head(q) \in Range(q) /\ Tail(q) \in Seq(T)
         /\ Range(Tail(q)) = Range(q) \ {Head(q)} /\ IsInjective(Tail(q))
<1>1. /\ Len(q) \in Nat \ {0} /\ DOMAIN q = 1..Len(q) /\ Head(q) = q[1] /\ Head(q) \in T
      /\ Tail(q) \in Seq(T) /\ DOMAIN Tail(q) = 1..(Len(q) - 1)
      /\ \A i \in 1..(Len(q) - 1) : Tail(q)[i] = q[i + 1]
  OBVIOUS
<1> DEFINE r == Tail(q)
<1> HIDE DEF r
<1>2. Head(q) \in Range(q) BY <1>1 DEF Range
<1>3. \A n, m \in 1..Len(q) : q[n] = q[m] => n = m BY <1>1 DEF IsInjective
<1>4. Range(r) = Range(q) \ {Head(q)}
  <2>1. ASSUME NEW v \in Range(r) PROVE v \in Range(q) \ {Head(q)}
    <3>1. PICK i \in 1..(Len(q) - 1) : r[i] = v BY <1>1 DEF Range, r
    <3>2. v = q[i + 1] /\ i + 1 \in 1..Len(q) /\ i + 1 # 1 BY <1>1, <3>1 DEF r
    <3>3. v # Head(q) BY <1>1, <1>3, <3>2
    <3> QED BY <1>1, <3>2, <3>3 DEF Range
  <2>2. ASSUME NEW v \in Range(q), v # Head(q) PROVE v \in Range(r)
    <3>1. PICK i \in 1..Len(q) : q[i] = v BY <1>1 DEF Range
    <3>2. i # 1 BY <1>1, <2>2, <3>1
    <3>3. i - 1 \in DOMAIN r /\ r[i - 1] = v BY <1>1, <3>1, <3>2 DEF r
    <3> QED BY <3>3 DEF Range
  <2> QED BY <2>1, <2>2
<1>5. IsInjective(r)
  <2> SUFFICES ASSUME NEW i \in DOMAIN r, NEW j \in DOMAIN r, r[i] = r[j] PROVE i = j BY DEF IsInjective
  <2>1. i \in 1..(Len(q) - 1) /\ j \in 1..(Len(q) - 1) BY <1>1 DEF r
  <2>2. q[i + 1] = q[j + 1] BY <1>1, <2>1 DEF r
  <2>3. i + 1 = j + 1 BY <1>1, <1>3, <2>1, <2>2
  <2> QED BY <2>1, <2>3
<1> QED BY <1>1, <1>2, <1>4, <1>5 DEF r

\* A queue in which only one thread may be is empty or has just that one.
LEMMA OneFacts ==
  ASSUME NEW T, NEW q \in Seq(T), IsInjective(q), NEW u, \A v \in Range(q) : v = u
  PROVE  q = <<>> \/ q = <<u>>
<1>1. Len(q) \in Nat /\ DOMAIN q = 1..Len(q) /\ \A i \in 1..Len(q) : q[i] = u
  BY DEF Range
<1>2. Len(q) <= 1
  <2> SUFFICES ASSUME Len(q) > 1 PROVE FALSE BY <1>1
  <2>1. 1 \in DOMAIN q /\ 2 \in DOMAIN q /\ q[1] = q[2] BY <1>1
  <2> QED BY <2>1 DEF IsInjective
<1> QED BY <1>1, <1>2

LEMMA EmptyFacts ==
  /\ \A T : <<>> \in Seq(T)
  /\ Range(<<>>) = {} /\ IsInjective(<<>>)
BY DEF Range, IsInjective

LEMMA SingleFacts ==
  ASSUME NEW T, NEW u \in T
  PROVE  <<u>> \in Seq(T) /\ Range(<<u>>) = {u} /\ IsInjective(<<u>>) /\ Head(<<u>>) = u /\ <<u>> # <<>>
BY DEF Range, IsInjective

LEMMA ConcatFacts ==
  ASSUME NEW T, NEW p \in Seq(T), NEW q \in Seq(T)
  PROVE  /\ p \o q \in Seq(T) /\ Range(p \o q) = Range(p) \cup Range(q)
         /\ IsInjective(p) /\ IsInjective(q) /\ Range(p) \cap Range(q) = {} => IsInjective(p \o q)
<1> DEFINE r == p \o q
<1>1. /\ r \in Seq(T) /\ Len(p) \in Nat /\ Len(q) \in Nat /\ DOMAIN p = 1..Len(p) /\ DOMAIN q = 1..Len(q)
      /\ DOMAIN r = 1..(Len(p) + Len(q))
      /\ \A i \in 1..(Len(p) + Len(q)) : r[i] = IF i <= Len(p) THEN p[i] ELSE q[i - Len(p)]
  OBVIOUS
<1> HIDE DEF r
<1>2. ASSUME NEW v \in Range(r) PROVE v \in Range(p) \cup Range(q)
  <2>1. PICK i \in 1..(Len(p) + Len(q)) : r[i] = v BY <1>1, <1>2 DEF Range
  <2>2. CASE i <= Len(p)
    <3>1. i \in DOMAIN p /\ p[i] = v BY <1>1, <2>1, <2>2
    <3> QED BY <3>1 DEF Range
  <2>3. CASE ~ (i <= Len(p))
    <3>1. i - Len(p) \in DOMAIN q /\ q[i - Len(p)] = v BY <1>1, <2>1, <2>3
    <3> QED BY <3>1 DEF Range
  <2> QED BY <2>2, <2>3
<1>3. ASSUME NEW v \in Range(p) PROVE v \in Range(r)
  <2>1. PICK i \in 1..Len(p) : p[i] = v BY <1>1 DEF Range
  <2>2. i \in DOMAIN r /\ r[i] = v BY <1>1, <2>1
  <2> QED BY <2>2 DEF Range
<1>4. ASSUME NEW v \in Range(q) PROVE v \in Range(r)
  <2>1. PICK i \in 1..Len(q) : q[i] = v BY <1>1 DEF Range
  <2>2. i + Len(p) \in DOMAIN r /\ r[i + Len(p)] = v BY <1>1, <2>1
  <2> QED BY <2>2 DEF Range
<1>5. ASSUME IsInjective(p), IsInjective(q), Range(p) \cap Range(q) = {} PROVE IsInjective(r)
  <2> SUFFICES ASSUME NEW i \in DOMAIN r, NEW j \in DOMAIN r, r[i] = r[j] PROVE i = j BY DEF IsInjective
  <2>1. \A n, m \in 1..Len(p) : p[n] = p[m] => n = m BY <1>1, <1>5 DEF IsInjective
  <2>2. \A n, m \in 1..Len(q) : q[n] = q[m] => n = m BY <1>1, <1>5 DEF IsInjective
  <2>3. \A n \in 1..Len(p), m \in 1..Len(q) : p[n] # q[m]
    <3> SUFFICES ASSUME NEW n \in 1..Len(p), NEW m \in 1..Len(q), p[n] = q[m] PROVE FALSE OBVIOUS
    <3>1. p[n] \in Range(p) /\ q[m] \in Range(q) BY <1>1 DEF Range
    <3> QED BY <1>5, <3>1
  <2> QED BY <1>1, <2>1, <2>2, <2>3
<1> QED BY <1>1, <1>2, <1>3, <1>4, <1>5 DEF r

----------------------------------------------------------------------------
(* What is where.  q has the queues by name, loc the place of each thread; *)
(* a thread on none of them is at Run, whether it is running or on its way *)
(* from one queue to another within a call.                                *)

Run    == <<"run", "">>
Ready  == <<"ready", "">>
Mutex  == <<"mutex", "">>
Cond   == <<"cond", "">>
Counts == <<"count", "">>
Freed  == <<"freed", "">>
Chosen == <<"select", "">>
QS(k)  == <<"qs", k>>
QR(k)  == <<"qr", k>>
Names  == {Ready, Mutex, Cond, Counts} \cup {QS(k) : k \in Channel} \cup {QR(k) : k \in Channel}
Places == Names \cup {Run, Freed, Chosen}

LEMMA NamesDiffer ==
  /\ \A n \in {Run, Freed, Chosen} : n \notin Names
  /\ Run # Freed /\ Run # Chosen /\ Freed # Chosen
  /\ Ready # Mutex /\ Ready # Cond /\ Ready # Counts /\ Mutex # Cond /\ Mutex # Counts /\ Cond # Counts
  /\ \A k \in Channel : /\ QS(k) \notin {Ready, Mutex, Cond, Counts} /\ QR(k) \notin {Ready, Mutex, Cond, Counts}
                        /\ \A c \in Channel : QS(k) # QR(c) /\ (QS(k) = QS(c) => k = c) /\ (QR(k) = QR(c) => k = c)
  /\ Ready \in Names /\ Mutex \in Names /\ Cond \in Names /\ Counts \in Names
  /\ \A k \in Channel : QS(k) \in Names /\ QR(k) \in Names
BY DEF Run, Ready, Mutex, Cond, Counts, Freed, Chosen, QS, QR, Names

\* Who may be in a queue.
May(t, n) == /\ \A k \in Channel : n = QS(k) => Sends(job.prog, t, k)
             /\ \A k \in Channel : n = QR(k) => Receives(job.prog, t, k)
             /\ n = Counts => Awaits(job.prog, t)

\* The queues hold the threads that are there, once each.
Fits(q, loc) == /\ q \in [Names -> Seq(Thread)] /\ loc \in [Thread -> Places]
                /\ \A n \in Names : IsInjective(q[n]) /\ \A t \in Thread : t \in Range(q[n]) <=> loc[t] = n
                /\ \A t \in Thread : May(t, loc[t])

\* A thread joins a queue at its end.
LEMMA Enters ==
  ASSUME NEW q, NEW loc, Fits(q, loc), NEW t \in Thread, loc[t] \notin Names, NEW n \in Names, May(t, n)
  PROVE  /\ t \notin Range(q[n])
         /\ Fits([q EXCEPT ![n] = Append(@, t)], [loc EXCEPT ![t] = n])
<1> DEFINE p == [q EXCEPT ![n] = Append(@, t)]
           l == [loc EXCEPT ![t] = n]
<1>1. q[n] \in Seq(Thread) /\ IsInjective(q[n]) /\ t \notin Range(q[n]) BY DEF Fits
<1>2. /\ Append(q[n], t) \in Seq(Thread) /\ Range(Append(q[n], t)) = Range(q[n]) \cup {t}
      /\ IsInjective(Append(q[n], t))
  BY <1>1, AppendFacts
<1>3. p \in [Names -> Seq(Thread)] /\ p[n] = Append(q[n], t) /\ \A m \in Names : m # n => p[m] = q[m]
  BY <1>2 DEF Fits
<1>4. /\ l \in [Thread -> Places] /\ l[t] = n /\ \A u \in Thread : u # t => l[u] = loc[u]
  BY DEF Fits, Places
<1> HIDE DEF p, l
<1>5. ASSUME NEW m \in Names PROVE IsInjective(p[m]) /\ \A u \in Thread : u \in Range(p[m]) <=> l[u] = m
  <2>1. CASE m = n BY <1>2, <1>3, <1>4, <2>1 DEF Fits
  <2>2. CASE m # n BY <1>3, <1>4, <2>2 DEF Fits
  <2> QED BY <2>1, <2>2
<1>6. \A u \in Thread : May(u, l[u]) BY <1>4 DEF Fits
<1>7. Fits(p, l) BY <1>3, <1>4, <1>5, <1>6 DEF Fits
<1> QED BY <1>1, <1>7 DEF p, l

\* The first thread leaves a queue.
LEMMA Leaves ==
  ASSUME NEW q, NEW loc, Fits(q, loc), NEW n \in Names, q[n] # <<>>
  PROVE  /\ Head(q[n]) \in Thread /\ loc[Head(q[n])] = n
         /\ Fits([q EXCEPT ![n] = Tail(@)], [loc EXCEPT ![Head(q[n])] = Run])
<1> DEFINE t == Head(q[n])
           p == [q EXCEPT ![n] = Tail(@)]
           l == [loc EXCEPT ![t] = Run]
<1>1. q[n] \in Seq(Thread) /\ IsInjective(q[n]) BY DEF Fits
<1>2. /\ t \in Thread /\ t \in Range(q[n]) /\ Tail(q[n]) \in Seq(Thread)
      /\ Range(Tail(q[n])) = Range(q[n]) \ {t} /\ IsInjective(Tail(q[n]))
  BY <1>1, TailFacts
<1>3. p \in [Names -> Seq(Thread)] /\ p[n] = Tail(q[n]) /\ \A m \in Names : m # n => p[m] = q[m]
  BY <1>2 DEF Fits
<1>4. /\ l \in [Thread -> Places] /\ l[t] = Run /\ \A u \in Thread : u # t => l[u] = loc[u]
  BY <1>2 DEF Fits, Places
<1>0. loc[t] = n BY <1>2 DEF Fits
<1> HIDE DEF l, p, t
<1>5. ASSUME NEW m \in Names PROVE IsInjective(p[m]) /\ \A u \in Thread : u \in Range(p[m]) <=> l[u] = m
  <2>0. Run # m BY NamesDiffer
  <2>1. CASE m = n
    <3>1. IsInjective(p[m]) /\ Range(p[m]) = Range(q[n]) \ {t} BY <1>2, <1>3, <2>1
    <3>2. \A u \in Thread : u \in Range(q[n]) <=> loc[u] = n BY DEF Fits
    <3> QED BY ONLY <1>4, <2>0, <2>1, <3>1, <3>2
  <2>2. CASE m # n BY <1>0, <1>3, <1>4, <2>0, <2>2 DEF Fits
  <2> QED BY <2>1, <2>2
<1>6. \A u \in Thread : May(u, l[u])
  <2>1. May(t, Run) BY NamesDiffer DEF May
  <2> QED BY <1>4, <2>1 DEF Fits
<1>7. Fits(p, l) BY <1>3, <1>4, <1>5, <1>6 DEF Fits
<1> QED BY <1>0, <1>2, <1>7 DEF l, p, t

\* A thread that is in no queue moves between the places that are none.
LEMMA Elsewhere ==
  ASSUME NEW q, NEW loc, Fits(q, loc), NEW t \in Thread, loc[t] \notin Names, NEW n \in {Run, Freed, Chosen}
  PROVE  Fits(q, [loc EXCEPT ![t] = n])
<1> DEFINE l == [loc EXCEPT ![t] = n]
<1>1. l \in [Thread -> Places] /\ l[t] = n /\ \A u \in Thread : u # t => l[u] = loc[u]
  BY DEF Fits, Places
<1> HIDE DEF l
<1>2. ASSUME NEW m \in Names, NEW u \in Thread PROVE u \in Range(q[m]) <=> l[u] = m
  <2>1. n # m BY NamesDiffer
  <2> QED BY <1>1, <2>1 DEF Fits
<1>3. \A u \in Thread : May(u, l[u])
  <2>1. May(t, n) BY NamesDiffer DEF May
  <2> QED BY <1>1, <2>1 DEF Fits
<1>4. Fits(q, l) BY <1>1, <1>2, <1>3 DEF Fits
<1> QED BY <1>4 DEF l

----------------------------------------------------------------------------
(* States.                                                                 *)

Fields == {"ready", "cur", "inq", "time", "at", "phase", "ch", "susp", "pick", "mutex", "cond", "count",
           "terminated", "freed", "over", "put", "got"}
ChFields == {"sendid", "recvid", "qs", "qr", "ss", "tm", "msgbuf"}

Shaped(x) == /\ DOMAIN x = Fields /\ DOMAIN x.ch = Channel
             /\ \A k \in Channel : DOMAIN x.ch[k] = ChFields /\ x.ch[k].ss \in Seq(Thread)
             /\ DOMAIN x.mutex = {"busy", "q"} /\ DOMAIN x.count = {"n", "q"}
             /\ x.inq \in [Thread -> BOOLEAN] /\ x.susp \in [Thread -> BOOLEAN]
             /\ DOMAIN x.at = Thread /\ DOMAIN x.phase = Thread /\ DOMAIN x.pick = Thread

\* The queues of the state x.
Has(x, q) == /\ x.ready = q[Ready] /\ x.mutex.q = q[Mutex] /\ x.cond = q[Cond]
             /\ \A k \in Channel : x.ch[k].qs = q[QS(k)] /\ x.ch[k].qr = q[QR(k)]
             /\ \/ x.count.q = <<>> /\ q[Counts] = <<>>
                \/ \E u \in Thread : \E w : x.count.q = <<<<u, w>>>> /\ q[Counts] = <<u>>

Marked(x, loc) == \A t \in Thread : /\ x.inq[t] <=> loc[t] = Ready
                                    /\ loc[t] = Chosen => x.susp[t] /\ ~x.inq[t]
                                    /\ x.susp[t] /\ ~x.inq[t] => loc[t] \in {Run, Chosen}
                                    /\ t \in x.freed \cup x.terminated <=> loc[t] = Freed

Core(x, R, q, loc) == /\ Shaped(x) /\ Has(x, q) /\ Fits(q, loc) /\ Marked(x, loc)
                      /\ R = {t \in Thread : loc[t] = Run}
\* Every thread but those in R is in one place.
Held(x, R) == \E q, loc : Core(x, R, q, loc)

\* What an operation leaves alone: control, the thread that runs, the queues.
Ctl(x, y) == y.at = x.at /\ y.phase = x.phase /\ y.pick = x.pick /\ y.susp = x.susp
Near(x, y) == Ctl(x, y) /\ y.cur = x.cur /\ y.over = x.over /\ y.terminated = x.terminated
Lists(x, y) == /\ y.ready = x.ready /\ y.mutex.q = x.mutex.q /\ y.cond = x.cond /\ y.count.q = x.count.q
               /\ \A k \in Channel : y.ch[k].qs = x.ch[k].qs /\ y.ch[k].qr = x.ch[k].qr
Quiet(x, y) == Near(x, y) /\ Lists(x, y) /\ y.inq = x.inq /\ y.freed = x.freed

LEMMA QuietHeld ==
  ASSUME NEW x, NEW y, NEW R, Held(x, R), Shaped(y), Lists(x, y), y.inq = x.inq, y.susp = x.susp,
         y.freed \cup y.terminated = x.freed \cup x.terminated
  PROVE  Held(y, R)
<1>1. PICK q, loc : Core(x, R, q, loc) BY DEF Held
<1>2. Has(y, q) BY <1>1 DEF Core, Has, Lists
<1>3. Marked(y, loc) BY <1>1 DEF Core, Marked
<1>4. Core(y, R, q, loc) BY <1>1, <1>2, <1>3 DEF Core
<1> QED BY <1>4 DEF Held

LEMMA HeldShaped == ASSUME NEW x, NEW R, Held(x, R) PROVE Shaped(x) /\ R \subseteq Thread
BY DEF Held, Core

\* q_ins on the ready queue.
LEMMA WakeHeld ==
  ASSUME NEW x, NEW R, Held(x, R), NEW t \in R
  PROVE  Held(Wake(x, t), R \ {t}) /\ Near(x, Wake(x, t))
<1>1. PICK q, loc : Core(x, R, q, loc) BY DEF Held
<1> DEFINE y == Wake(x, t)
           p == [q EXCEPT ![Ready] = Append(@, t)]
           l == [loc EXCEPT ![t] = Ready]
<1>2. t \in Thread /\ loc[t] = Run /\ DOMAIN loc = Thread /\ DOMAIN q = Names BY <1>1 DEF Core, Fits
<1>3. /\ DOMAIN y = Fields /\ y.ready = Append(x.ready, t) /\ y.inq = [x.inq EXCEPT ![t] = TRUE]
      /\ \A f \in Fields \ {"ready", "inq"} : y[f] = x[f]
  BY <1>1 DEF Core, Shaped, Wake, Fields
<1>4. /\ y.ch = x.ch /\ y.mutex = x.mutex /\ y.count = x.count /\ y.susp = x.susp /\ y.at = x.at /\ y.phase = x.phase
      /\ y.pick = x.pick /\ y.cond = x.cond /\ y.freed = x.freed /\ y.terminated = x.terminated
      /\ y.cur = x.cur /\ y.over = x.over
  BY <1>1 DEF Core, Shaped, Wake, Fields
<1> HIDE DEF y
<1>5. Shaped(y) BY <1>1, <1>3, <1>4 DEF Core, Shaped
<1>6. Fits(p, l)
  <2>1. May(t, Ready) BY NamesDiffer DEF May
  <2> QED BY <1>1, <1>2, <2>1, Enters, NamesDiffer DEF Core
<1>7. Has(y, p)
  <2>1. p[Ready] = Append(q[Ready], t) /\ \A n \in Names : n # Ready => p[n] = q[n] BY <1>2, NamesDiffer
  <2> HIDE DEF p
  <2> QED BY <1>1, <1>3, <1>4, <2>1, NamesDiffer DEF Core, Has
<1>8. l[t] = Ready /\ \A u \in Thread : u # t => l[u] = loc[u] BY <1>2
<1> HIDE DEF l, p
<1>9. Marked(y, l) BY <1>1, <1>2, <1>3, <1>4, <1>8, NamesDiffer DEF Core, Marked, Shaped
<1>10. R \ {t} = {u \in Thread : l[u] = Run} BY <1>1, <1>2, <1>8, NamesDiffer DEF Core
<1>11. Held(y, R \ {t}) BY <1>5, <1>6, <1>7, <1>9, <1>10 DEF Held, Core
<1> QED BY <1>4, <1>11 DEF Near, Ctl, y

\* A thread taken from the front of a queue, a thread put at its end: q and p
\* are the queues before and after.
LEMMA LeaveHeld ==
  ASSUME NEW x, NEW y, NEW R, NEW q, NEW loc, NEW n \in Names, Core(x, R, q, loc), q[n] # <<>>,
         Has(y, [q EXCEPT ![n] = Tail(@)]), Shaped(y), Near(x, y), y.inq = x.inq, y.freed = x.freed, n # Ready
  PROVE  /\ Head(q[n]) \in Thread \ R /\ May(Head(q[n]), n) /\ ~ (x.susp[Head(q[n])] /\ ~x.inq[Head(q[n])])
         /\ Held(y, R \cup {Head(q[n])})
<1> DEFINE t == Head(q[n])
           p == [q EXCEPT ![n] = Tail(@)]
           l == [loc EXCEPT ![t] = Run]
<1>0. Fits(q, loc) BY DEF Core
<1>1. t \in Thread /\ loc[t] = n /\ Fits(p, l) BY <1>0, Leaves
<1>10. Has(y, p) OBVIOUS
<1> HIDE DEF t, p
<1>2. l[t] = Run /\ \A u \in Thread : u # t => l[u] = loc[u] BY <1>0, <1>1 DEF Fits
<1> HIDE DEF l
<1>3. Marked(y, l) BY <1>1, <1>2, NamesDiffer DEF Core, Marked, Near, Ctl
<1>4. R \cup {t} = {u \in Thread : l[u] = Run} BY <1>1, <1>2 DEF Core
<1>5. Core(y, R \cup {t}, p, l) BY <1>1, <1>3, <1>4, <1>10 DEF Core
<1>6. n # Run /\ n # Chosen BY NamesDiffer
<1>7. t \notin R BY <1>1, <1>6 DEF Core
<1>8. May(t, n) BY <1>0, <1>1 DEF Fits
<1>9. ~ (x.susp[t] /\ ~x.inq[t]) BY <1>1, <1>6 DEF Core, Marked
<1> QED BY <1>1, <1>5, <1>7, <1>8, <1>9 DEF t, Held

LEMMA EnterHeld ==
  ASSUME NEW x, NEW y, NEW R, NEW q, NEW loc, NEW n \in Names, Core(x, R, q, loc), NEW t \in R, May(t, n),
         ~x.susp[t], Has(y, [q EXCEPT ![n] = Append(@, t)]), Shaped(y), Near(x, y), y.inq = x.inq,
         y.freed = x.freed, n # Ready
  PROVE  Held(y, R \ {t})
<1> DEFINE p == [q EXCEPT ![n] = Append(@, t)]
           l == [loc EXCEPT ![t] = n]
<1>1. t \in Thread /\ loc[t] = Run /\ DOMAIN loc = Thread BY DEF Core, Fits
<1>2. Fits(p, l) BY <1>1, Enters, NamesDiffer DEF Core
<1>3. l[t] = n /\ \A u \in Thread : u # t => l[u] = loc[u] BY <1>1
<1> HIDE DEF l, p
<1>4. Marked(y, l) BY <1>1, <1>3, NamesDiffer DEF Core, Marked, Near, Ctl
<1>5. R \ {t} = {u \in Thread : l[u] = Run} BY <1>1, <1>3, NamesDiffer DEF Core
<1>6. Core(y, R \ {t}, p, l) BY <1>2, <1>4, <1>5 DEF Core, p
<1> QED BY <1>6 DEF Held

\* Only the sender of k waits to send on it, only the receiver to receive.
LEMMA Partners ==
  ASSUME job \in Scenarios, NEW k \in Channel, NEW t \in Thread, NEW u \in Thread
  PROVE  /\ Sends(job.prog, t, k) /\ Sends(job.prog, u, k) => t = u
         /\ Receives(job.prog, t, k) /\ Receives(job.prog, u, k) => t = u
BY ProgramsUse DEF AtMostOne, Thread

LEMMA OneAwaits ==
  ASSUME job \in Scenarios, NEW t \in Thread, NEW u \in Thread, Awaits(job.prog, t), Awaits(job.prog, u)
  PROVE  t = u
BY ProgramsUse DEF AtMostOne, Thread

LEMMA QueueOfOne ==
  ASSUME job \in Scenarios, NEW q, NEW loc, Fits(q, loc), NEW k \in Channel, NEW n \in {QS(k), QR(k)}
  PROVE  q[n] = <<>> \/ \E u \in Thread : q[n] = <<u>> /\ loc[u] = n
<1>1. n \in Names /\ q[n] \in Seq(Thread) /\ IsInjective(q[n]) BY NamesDiffer DEF Fits
<1>2. \A u \in Range(q[n]) : u \in Thread /\ loc[u] = n /\ May(u, n)
  <2>1. Range(q[n]) \subseteq Thread BY <1>1 DEF Range
  <2> QED BY <1>1, <2>1 DEF Fits
<1>3. ASSUME NEW u \in Range(q[n]), NEW v \in Range(q[n]) PROVE u = v
  <2>1. CASE n = QS(k) BY <1>2, <2>1, Partners DEF May
  <2>2. CASE n = QR(k) BY <1>2, <2>2, Partners DEF May
  <2> QED BY <2>1, <2>2
<1> SUFFICES ASSUME q[n] # <<>> PROVE \E u \in Thread : q[n] = <<u>> /\ loc[u] = n OBVIOUS
<1>4. Head(q[n]) \in Range(q[n]) BY <1>1, TailFacts
<1>5. q[n] = <<>> \/ q[n] = <<Head(q[n])>> BY <1>1, <1>3, <1>4, OneFacts
<1> QED BY <1>2, <1>4, <1>5

\* The partner that waits on a channel is let go.
LEMMA PopHeld ==
  ASSUME job \in Scenarios, NEW x, NEW R, Held(x, R), NEW k \in Channel
  PROVE  /\ x.ch[k].qs # <<>> =>
              /\ Head(x.ch[k].qs) \in Thread \ R /\ x.ch[k].qs = <<Head(x.ch[k].qs)>>
              /\ Held([x EXCEPT !.ch[k].qs = <<>>], R \cup {Head(x.ch[k].qs)})
              /\ Near(x, [x EXCEPT !.ch[k].qs = <<>>])
         /\ x.ch[k].qr # <<>> =>
              /\ Head(x.ch[k].qr) \in Thread \ R /\ x.ch[k].qr = <<Head(x.ch[k].qr)>>
              /\ Held([x EXCEPT !.ch[k].qr = <<>>], R \cup {Head(x.ch[k].qr)})
              /\ Near(x, [x EXCEPT !.ch[k].qr = <<>>])
<1>1. PICK q, loc : Core(x, R, q, loc) BY DEF Held
<1>2. x.ch[k].qs = q[QS(k)] /\ x.ch[k].qr = q[QR(k)] /\ DOMAIN q = Names BY <1>1 DEF Core, Has, Fits
<1>3. ASSUME x.ch[k].qs # <<>>
      PROVE  /\ Head(x.ch[k].qs) \in Thread \ R /\ x.ch[k].qs = <<Head(x.ch[k].qs)>>
             /\ Held([x EXCEPT !.ch[k].qs = <<>>], R \cup {Head(x.ch[k].qs)})
             /\ Near(x, [x EXCEPT !.ch[k].qs = <<>>])
  <2> DEFINE y == [x EXCEPT !.ch[k].qs = <<>>]
             p == [q EXCEPT ![QS(k)] = Tail(@)]
  <2>1. PICK u \in Thread : q[QS(k)] = <<u>> BY <1>1, <1>2, <1>3, QueueOfOne DEF Core
  <2>2. /\ DOMAIN y = Fields /\ y.ch[k].qs = <<>> /\ y.ch[k].qr = x.ch[k].qr /\ y.ch[k].ss = x.ch[k].ss
        /\ DOMAIN y.ch = Channel /\ DOMAIN y.ch[k] = ChFields /\ \A c \in Channel : c # k => y.ch[c] = x.ch[c]
        /\ y.ready = x.ready /\ y.mutex = x.mutex /\ y.cond = x.cond /\ y.count = x.count
        /\ y.inq = x.inq /\ y.freed = x.freed
    BY <1>1 DEF Core, Shaped, Fields, ChFields
  <2>3. Near(x, y) BY <1>1 DEF Core, Shaped, Near, Ctl, Fields
  <2> HIDE DEF y
  <2>4. Shaped(y) BY <1>1, <2>2, <2>3 DEF Core, Shaped, Near, Ctl
  <2>5. Has(y, p)
    <3>1. p[QS(k)] = <<>> /\ \A n \in Names : n # QS(k) => p[n] = q[n] BY <1>2, <2>1, NamesDiffer
    <3> HIDE DEF p
    <3> QED BY <1>1, <2>2, <3>1, NamesDiffer DEF Core, Has
  <2>6. QS(k) # Ready /\ QS(k) \in Names BY NamesDiffer
  <2>7. q[QS(k)] # <<>> /\ y.inq = x.inq /\ y.freed = x.freed BY <1>2, <1>3, <2>2
  <2> DEFINE n == QS(k)
  <2>8. n # Ready /\ n \in Names /\ q[n] # <<>> /\ Has(y, [q EXCEPT ![n] = Tail(@)]) BY <2>5, <2>6, <2>7
  <2> HIDE DEF n
  <2>9. Head(q[n]) \in Thread \ R /\ Held(y, R \cup {Head(q[n])})
    BY <1>1, <2>3, <2>4, <2>7, <2>8, LeaveHeld
  <2> QED BY <1>2, <2>1, <2>3, <2>9 DEF y, n
<1>4. ASSUME x.ch[k].qr # <<>>
      PROVE  /\ Head(x.ch[k].qr) \in Thread \ R /\ x.ch[k].qr = <<Head(x.ch[k].qr)>>
             /\ Held([x EXCEPT !.ch[k].qr = <<>>], R \cup {Head(x.ch[k].qr)})
             /\ Near(x, [x EXCEPT !.ch[k].qr = <<>>])
  <2> DEFINE y == [x EXCEPT !.ch[k].qr = <<>>]
             p == [q EXCEPT ![QR(k)] = Tail(@)]
  <2>1. PICK u \in Thread : q[QR(k)] = <<u>> BY <1>1, <1>2, <1>4, QueueOfOne DEF Core
  <2>2. /\ DOMAIN y = Fields /\ y.ch[k].qr = <<>> /\ y.ch[k].qs = x.ch[k].qs /\ y.ch[k].ss = x.ch[k].ss
        /\ DOMAIN y.ch = Channel /\ DOMAIN y.ch[k] = ChFields /\ \A c \in Channel : c # k => y.ch[c] = x.ch[c]
        /\ y.ready = x.ready /\ y.mutex = x.mutex /\ y.cond = x.cond /\ y.count = x.count
        /\ y.inq = x.inq /\ y.freed = x.freed
    BY <1>1 DEF Core, Shaped, Fields, ChFields
  <2>3. Near(x, y) BY <1>1 DEF Core, Shaped, Near, Ctl, Fields
  <2> HIDE DEF y
  <2>4. Shaped(y) BY <1>1, <2>2, <2>3 DEF Core, Shaped, Near, Ctl
  <2>5. Has(y, p)
    <3>1. p[QR(k)] = <<>> /\ \A n \in Names : n # QR(k) => p[n] = q[n] BY <1>2, <2>1, NamesDiffer
    <3> HIDE DEF p
    <3> QED BY <1>1, <2>2, <3>1, NamesDiffer DEF Core, Has
  <2>6. QR(k) # Ready /\ QR(k) \in Names BY NamesDiffer
  <2>7. q[QR(k)] # <<>> /\ y.inq = x.inq /\ y.freed = x.freed BY <1>2, <1>4, <2>2
  <2> DEFINE n == QR(k)
  <2>8. n # Ready /\ n \in Names /\ q[n] # <<>> /\ Has(y, [q EXCEPT ![n] = Tail(@)]) BY <2>5, <2>6, <2>7
  <2> HIDE DEF n
  <2>9. Head(q[n]) \in Thread \ R /\ Held(y, R \cup {Head(q[n])})
    BY <1>1, <2>3, <2>4, <2>7, <2>8, LeaveHeld
  <2> QED BY <1>2, <2>1, <2>3, <2>9 DEF y, n
<1> QED BY <1>3, <1>4

\* A thread that begins to wait on a channel finds its queue empty.
LEMMA PushSend ==
  ASSUME job \in Scenarios, NEW x, NEW R, Held(x, R), NEW k \in Channel, NEW t \in R, Sends(job.prog, t, k), ~x.susp[t]
  PROVE  /\ x.ch[k].qs = <<>>
         /\ Held([x EXCEPT !.ch[k].qs = <<t>>], R \ {t}) /\ Near(x, [x EXCEPT !.ch[k].qs = <<t>>])
<1>1. PICK q, loc : Core(x, R, q, loc) BY DEF Held
<1>2. x.ch[k].qs = q[QS(k)] /\ DOMAIN q = Names /\ t \in Thread /\ loc[t] = Run BY <1>1 DEF Core, Has, Fits
<1>3. q[QS(k)] = <<>>
  <2>1. ASSUME NEW u \in Thread, loc[u] = QS(k) PROVE FALSE
    <3>1. Sends(job.prog, u, k) BY <1>1, <2>1 DEF Core, Fits, May
    <3>2. u = t BY <1>2, <3>1, Partners
    <3> QED BY <1>2, <2>1, <3>2, NamesDiffer
  <2> QED BY <1>1, <2>1, QueueOfOne DEF Core
<1> DEFINE y == [x EXCEPT !.ch[k].qs = <<t>>]
           p == [q EXCEPT ![QS(k)] = Append(@, t)]
<1>4. /\ DOMAIN y = Fields /\ y.ch[k].qs = <<t>> /\ y.ch[k].qr = x.ch[k].qr /\ y.ch[k].ss = x.ch[k].ss
      /\ DOMAIN y.ch = Channel /\ DOMAIN y.ch[k] = ChFields /\ \A c \in Channel : c # k => y.ch[c] = x.ch[c]
      /\ y.ready = x.ready /\ y.mutex = x.mutex /\ y.cond = x.cond /\ y.count = x.count
      /\ y.inq = x.inq /\ y.freed = x.freed
  BY <1>1 DEF Core, Shaped, Fields, ChFields
<1>5. Near(x, y) BY <1>1 DEF Core, Shaped, Near, Ctl, Fields
<1> HIDE DEF y
<1>6. Shaped(y) BY <1>1, <1>4, <1>5 DEF Core, Shaped, Near, Ctl
<1>7. Has(y, p)
  <2>1. p[QS(k)] = <<t>> /\ \A n \in Names : n # QS(k) => p[n] = q[n] BY <1>2, <1>3, NamesDiffer
  <2> HIDE DEF p
  <2> QED BY <1>1, <1>4, <2>1, NamesDiffer DEF Core, Has
<1>8. QS(k) # Ready /\ QS(k) \in Names /\ May(t, QS(k)) BY NamesDiffer DEF May
<1>9. Held(y, R \ {t}) BY <1>1, <1>4, <1>5, <1>6, <1>7, <1>8, EnterHeld
<1> QED BY <1>2, <1>3, <1>5, <1>9 DEF y

LEMMA PushRecv ==
  ASSUME job \in Scenarios, NEW x, NEW R, Held(x, R), NEW k \in Channel, NEW t \in R, Receives(job.prog, t, k), ~x.susp[t]
  PROVE  /\ x.ch[k].qr = <<>>
         /\ Held([x EXCEPT !.ch[k].qr = <<t>>], R \ {t}) /\ Near(x, [x EXCEPT !.ch[k].qr = <<t>>])
<1>1. PICK q, loc : Core(x, R, q, loc) BY DEF Held
<1>2. x.ch[k].qr = q[QR(k)] /\ DOMAIN q = Names /\ t \in Thread /\ loc[t] = Run BY <1>1 DEF Core, Has, Fits
<1>3. q[QR(k)] = <<>>
  <2>1. ASSUME NEW u \in Thread, loc[u] = QR(k) PROVE FALSE
    <3>1. Receives(job.prog, u, k) BY <1>1, <2>1 DEF Core, Fits, May
    <3>2. u = t BY <1>2, <3>1, Partners
    <3> QED BY <1>2, <2>1, <3>2, NamesDiffer
  <2> QED BY <1>1, <2>1, QueueOfOne DEF Core
<1> DEFINE y == [x EXCEPT !.ch[k].qr = <<t>>]
           p == [q EXCEPT ![QR(k)] = Append(@, t)]
<1>4. /\ DOMAIN y = Fields /\ y.ch[k].qr = <<t>> /\ y.ch[k].qs = x.ch[k].qs /\ y.ch[k].ss = x.ch[k].ss
      /\ DOMAIN y.ch = Channel /\ DOMAIN y.ch[k] = ChFields /\ \A c \in Channel : c # k => y.ch[c] = x.ch[c]
      /\ y.ready = x.ready /\ y.mutex = x.mutex /\ y.cond = x.cond /\ y.count = x.count
      /\ y.inq = x.inq /\ y.freed = x.freed
  BY <1>1 DEF Core, Shaped, Fields, ChFields
<1>5. Near(x, y) BY <1>1 DEF Core, Shaped, Near, Ctl, Fields
<1> HIDE DEF y
<1>6. Shaped(y) BY <1>1, <1>4, <1>5 DEF Core, Shaped, Near, Ctl
<1>7. Has(y, p)
  <2>1. p[QR(k)] = <<t>> /\ \A n \in Names : n # QR(k) => p[n] = q[n] BY <1>2, <1>3, NamesDiffer
  <2> HIDE DEF p
  <2> QED BY <1>1, <1>4, <2>1, NamesDiffer DEF Core, Has
<1>8. QR(k) # Ready /\ QR(k) \in Names /\ May(t, QR(k)) BY NamesDiffer DEF May
<1>9. Held(y, R \ {t}) BY <1>1, <1>4, <1>5, <1>6, <1>7, <1>8, EnterHeld
<1> QED BY <1>2, <1>3, <1>5, <1>9 DEF y

----------------------------------------------------------------------------
(* Mutexes, condition variables, counters.                                 *)

\* Only the queues of the mutex, the condition and the counter change.
Besides(x, y) == /\ DOMAIN y = Fields /\ DOMAIN y.mutex = {"busy", "q"} /\ DOMAIN y.count = {"n", "q"}
                 /\ y.ready = x.ready /\ y.ch = x.ch /\ y.inq = x.inq /\ y.freed = x.freed

LEMMA MutexPush ==
  ASSUME NEW x, NEW R, Held(x, R), NEW t \in R, ~x.susp[t]
  PROVE  /\ Held([x EXCEPT !.mutex.q = Append(@, t)], R \ {t})
         /\ Near(x, [x EXCEPT !.mutex.q = Append(@, t)])
<1> DEFINE y == [x EXCEPT !.mutex.q = Append(@, t)]
<1>1. PICK q, loc : Core(x, R, q, loc) BY DEF Held
<1>2. Besides(x, y) /\ y.mutex.q = Append(x.mutex.q, t) /\ y.cond = x.cond /\ y.count = x.count
  BY <1>1 DEF Core, Shaped, Fields, Besides
<1>3. Near(x, y) BY <1>1 DEF Core, Shaped, Near, Ctl, Fields
<1> DEFINE p == [q EXCEPT ![Mutex] = Append(@, t)]
<1>4. p[Mutex] = Append(q[Mutex], t) /\ \A n \in Names : n # Mutex => p[n] = q[n]
  BY <1>1, NamesDiffer DEF Core, Fits
<1>8. p = [q EXCEPT ![Mutex] = Append(@, t)] OBVIOUS
<1> HIDE DEF y, p
<1>5. Shaped(y) BY <1>1, <1>2, <1>3 DEF Core, Shaped, Near, Ctl, Besides
<1>6. Has(y, p) BY <1>1, <1>2, <1>4, NamesDiffer DEF Core, Has, Besides
<1>7. May(t, Mutex) /\ Mutex # Ready /\ Mutex \in Names BY NamesDiffer DEF May
<1>9. Has(y, [q EXCEPT ![Mutex] = Append(@, t)]) BY <1>6 DEF p
<1>10. Held(y, R \ {t}) BY <1>1, <1>2, <1>3, <1>5, <1>7, <1>9, EnterHeld DEF Besides
<1> QED BY <1>3, <1>10 DEF y

LEMMA CondPush ==
  ASSUME NEW x, NEW R, Held(x, R), NEW t \in R, ~x.susp[t]
  PROVE  /\ Held([x EXCEPT !.cond = Append(@, t)], R \ {t})
         /\ Near(x, [x EXCEPT !.cond = Append(@, t)])
<1> DEFINE y == [x EXCEPT !.cond = Append(@, t)]
<1>1. PICK q, loc : Core(x, R, q, loc) BY DEF Held
<1>2. Besides(x, y) /\ y.cond = Append(x.cond, t) /\ y.mutex = x.mutex /\ y.count = x.count
  BY <1>1 DEF Core, Shaped, Fields, Besides
<1>3. Near(x, y) BY <1>1 DEF Core, Shaped, Near, Ctl, Fields
<1> DEFINE p == [q EXCEPT ![Cond] = Append(@, t)]
<1>4. p[Cond] = Append(q[Cond], t) /\ \A n \in Names : n # Cond => p[n] = q[n]
  BY <1>1, NamesDiffer DEF Core, Fits
<1> HIDE DEF y, p
<1>5. Shaped(y) BY <1>1, <1>2, <1>3 DEF Core, Shaped, Near, Ctl, Besides
<1>6. Has(y, p) BY <1>1, <1>2, <1>4, NamesDiffer DEF Core, Has, Besides
<1>7. May(t, Cond) /\ Cond # Ready /\ Cond \in Names BY NamesDiffer DEF May
<1>9. Has(y, [q EXCEPT ![Cond] = Append(@, t)]) BY <1>6 DEF p
<1>10. Held(y, R \ {t}) BY <1>1, <1>2, <1>3, <1>5, <1>7, <1>9, EnterHeld DEF Besides
<1> QED BY <1>3, <1>10 DEF y

\* One thread awaits the counter, so its queue was empty.
LEMMA CountPush ==
  ASSUME job \in Scenarios, NEW x, NEW R, Held(x, R), NEW t \in R, ~x.susp[t], Awaits(job.prog, t), NEW v
  PROVE  /\ Held([x EXCEPT !.count.q = Append(@, <<t, v>>)], R \ {t})
         /\ Near(x, [x EXCEPT !.count.q = Append(@, <<t, v>>)])
<1> DEFINE y == [x EXCEPT !.count.q = Append(@, <<t, v>>)]
<1>1. PICK q, loc : Core(x, R, q, loc) BY DEF Held
<1>2. Besides(x, y) /\ y.count.q = Append(x.count.q, <<t, v>>) /\ y.mutex = x.mutex /\ y.cond = x.cond
  BY <1>1 DEF Core, Shaped, Fields, Besides
<1>3. Near(x, y) BY <1>1 DEF Core, Shaped, Near, Ctl, Fields
<1>0. t \in Thread /\ loc[t] = Run BY <1>1 DEF Core
<1>11. x.count.q = <<>> /\ q[Counts] = <<>>
  <2> SUFFICES ASSUME NEW u \in Thread, q[Counts] = <<u>> PROVE FALSE BY <1>1 DEF Core, Has
  <2>1. u \in Range(q[Counts]) BY SingleFacts
  <2>2. loc[u] = Counts BY <1>1, <2>1, NamesDiffer DEF Core, Fits
  <2>3. Awaits(job.prog, u) BY <1>1, <2>2 DEF Core, Fits, May
  <2>4. u = t BY <1>0, <2>3, OneAwaits
  <2> QED BY <1>0, <2>2, <2>4, NamesDiffer
<1>12. y.count.q = <<<<t, v>>>> BY <1>2, <1>11
<1> DEFINE p == [q EXCEPT ![Counts] = Append(@, t)]
<1>4. p[Counts] = <<t>> /\ \A n \in Names : n # Counts => p[n] = q[n]
  BY <1>1, <1>11, NamesDiffer DEF Core, Fits
<1> HIDE DEF y, p
<1>5. Shaped(y) BY <1>1, <1>2, <1>3 DEF Core, Shaped, Near, Ctl, Besides
<1>6. Has(y, p) BY <1>0, <1>1, <1>2, <1>4, <1>12, NamesDiffer DEF Core, Has, Besides
<1>7. May(t, Counts) /\ Counts # Ready /\ Counts \in Names BY NamesDiffer DEF May
<1>9. Has(y, [q EXCEPT ![Counts] = Append(@, t)]) BY <1>6 DEF p
<1>10. Held(y, R \ {t}) BY <1>1, <1>2, <1>3, <1>5, <1>7, <1>9, EnterHeld DEF Besides
<1> QED BY <1>3, <1>10 DEF y

LEMMA MutexPop ==
  ASSUME NEW x, NEW R, Held(x, R), x.mutex.q # <<>>
  PROVE  /\ Head(x.mutex.q) \in Thread \ R
         /\ Held([x EXCEPT !.mutex.q = Tail(@)], R \cup {Head(x.mutex.q)})
         /\ Near(x, [x EXCEPT !.mutex.q = Tail(@)])
<1> DEFINE y == [x EXCEPT !.mutex.q = Tail(@)]
<1>1. PICK q, loc : Core(x, R, q, loc) BY DEF Held
<1>2. Besides(x, y) /\ y.mutex.q = Tail(x.mutex.q) /\ y.cond = x.cond /\ y.count = x.count
  BY <1>1 DEF Core, Shaped, Fields, Besides
<1>3. Near(x, y) BY <1>1 DEF Core, Shaped, Near, Ctl, Fields
<1> DEFINE p == [q EXCEPT ![Mutex] = Tail(@)]
<1>4. p[Mutex] = Tail(q[Mutex]) /\ (\A n \in Names : n # Mutex => p[n] = q[n]) /\ q[Mutex] = x.mutex.q
  BY <1>1, NamesDiffer DEF Core, Fits, Has
<1> HIDE DEF y, p
<1>5. Shaped(y) BY <1>1, <1>2, <1>3 DEF Core, Shaped, Near, Ctl, Besides
<1>6. Has(y, p) BY <1>1, <1>2, <1>4, NamesDiffer DEF Core, Has, Besides
<1>7. Mutex # Ready /\ Mutex \in Names /\ q[Mutex] # <<>> BY <1>4, NamesDiffer
<1>9. Has(y, [q EXCEPT ![Mutex] = Tail(@)]) BY <1>6 DEF p
<1>10. Head(q[Mutex]) \in Thread \ R /\ Held(y, R \cup {Head(q[Mutex])})
  BY <1>1, <1>2, <1>3, <1>5, <1>7, <1>9, LeaveHeld DEF Besides
<1> QED BY <1>3, <1>4, <1>10 DEF y

LEMMA CondPop ==
  ASSUME NEW x, NEW R, Held(x, R), x.cond # <<>>
  PROVE  /\ Head(x.cond) \in Thread \ R
         /\ Held([x EXCEPT !.cond = Tail(@)], R \cup {Head(x.cond)})
         /\ Near(x, [x EXCEPT !.cond = Tail(@)])
<1> DEFINE y == [x EXCEPT !.cond = Tail(@)]
<1>1. PICK q, loc : Core(x, R, q, loc) BY DEF Held
<1>2. Besides(x, y) /\ y.cond = Tail(x.cond) /\ y.mutex = x.mutex /\ y.count = x.count
  BY <1>1 DEF Core, Shaped, Fields, Besides
<1>3. Near(x, y) BY <1>1 DEF Core, Shaped, Near, Ctl, Fields
<1> DEFINE p == [q EXCEPT ![Cond] = Tail(@)]
<1>4. p[Cond] = Tail(q[Cond]) /\ (\A n \in Names : n # Cond => p[n] = q[n]) /\ q[Cond] = x.cond
  BY <1>1, NamesDiffer DEF Core, Fits, Has
<1> HIDE DEF y, p
<1>5. Shaped(y) BY <1>1, <1>2, <1>3 DEF Core, Shaped, Near, Ctl, Besides
<1>6. Has(y, p) BY <1>1, <1>2, <1>4, NamesDiffer DEF Core, Has, Besides
<1>7. Cond # Ready /\ Cond \in Names /\ q[Cond] # <<>> BY <1>4, NamesDiffer
<1>9. Has(y, [q EXCEPT ![Cond] = Tail(@)]) BY <1>6 DEF p
<1>10. Head(q[Cond]) \in Thread \ R /\ Held(y, R \cup {Head(q[Cond])})
  BY <1>1, <1>2, <1>3, <1>5, <1>7, <1>9, LeaveHeld DEF Besides
<1> QED BY <1>3, <1>4, <1>10 DEF y

LEMMA CountPop ==
  ASSUME NEW x, NEW R, Held(x, R), x.count.q # <<>>
  PROVE  /\ Len(x.count.q) = 1 /\ x.count.q[1][1] \in Thread \ R
         /\ Held([x EXCEPT !.count.q = <<>>], R \cup {x.count.q[1][1]})
         /\ Near(x, [x EXCEPT !.count.q = <<>>])
<1> DEFINE y == [x EXCEPT !.count.q = <<>>]
<1>1. PICK q, loc : Core(x, R, q, loc) BY DEF Held
<1>2. Besides(x, y) /\ y.count.q = <<>> /\ y.mutex = x.mutex /\ y.cond = x.cond
  BY <1>1 DEF Core, Shaped, Fields, Besides
<1>3. Near(x, y) BY <1>1 DEF Core, Shaped, Near, Ctl, Fields
<1>0. PICK u \in Thread : \E w : x.count.q = <<<<u, w>>>> /\ q[Counts] = <<u>> BY <1>1 DEF Core, Has
<1>11. q[Counts] = <<u>> /\ Len(x.count.q) = 1 /\ x.count.q[1][1] = u /\ Head(q[Counts]) = u /\ Tail(q[Counts]) = <<>>
  BY <1>0
<1> DEFINE p == [q EXCEPT ![Counts] = Tail(@)]
<1>4. p[Counts] = <<>> /\ (\A n \in Names : n # Counts => p[n] = q[n])
  BY <1>1, <1>11, NamesDiffer DEF Core, Fits, Has
<1> HIDE DEF y, p
<1>5. Shaped(y) BY <1>1, <1>2, <1>3 DEF Core, Shaped, Near, Ctl, Besides
<1>6. Has(y, p) BY <1>1, <1>2, <1>4, NamesDiffer DEF Core, Has, Besides
<1>7. Counts # Ready /\ Counts \in Names /\ q[Counts] # <<>> BY <1>11, NamesDiffer
<1>9. Has(y, [q EXCEPT ![Counts] = Tail(@)]) BY <1>6 DEF p
<1>10. Head(q[Counts]) \in Thread \ R /\ Held(y, R \cup {Head(q[Counts])})
  BY <1>1, <1>2, <1>3, <1>5, <1>7, <1>9, LeaveHeld DEF Besides
<1> QED BY <1>3, <1>11, <1>10 DEF y

----------------------------------------------------------------------------
(* The ready queue.                                                        *)

\* After a switch another thread runs, or none is ready and the program ends.
Ended(y) == y.over /\ y.cur = NoThread
Settled(y) == ~y.over /\ y.terminated = {} /\ y.cur \in Thread /\ Held(y, {y.cur})

LEMMA SwitchHeld ==
  ASSUME NEW x, Held(x, {}), ~x.over
  PROVE  Ctl(x, Switch(x)) /\ (Ended(Switch(x)) \/ Settled(Switch(x)))
<1>1. PICK q, loc : Core(x, {}, q, loc) BY DEF Held
<1>2. DOMAIN x = Fields BY <1>1 DEF Core, Shaped
<1>3. CASE x.ready = <<>>
  <2>1. Switch(x) = [x EXCEPT !.cur = NoThread, !.over = TRUE, !.freed = @ \cup x.terminated, !.terminated = {}]
    BY <1>3 DEF Switch
  <2> QED BY <1>2, <2>1 DEF Ctl, Ended, Fields
<1>4. CASE x.ready # <<>>
  <2> DEFINE t == Head(x.ready)
             y == [x EXCEPT !.cur = t, !.ready = Tail(@), !.inq[t] = FALSE,
                            !.freed = @ \cup x.terminated, !.terminated = {}]
             p == [q EXCEPT ![Ready] = Tail(@)]
             l == [loc EXCEPT ![t] = Run]
  <2>1. Switch(x) = y BY <1>4 DEF Switch
  <2>2. Ready \in Names /\ q[Ready] = x.ready /\ Fits(q, loc) BY <1>1, NamesDiffer DEF Core, Has
  <2>3. t \in Thread /\ loc[t] = Ready /\ Fits(p, l) BY <1>4, <2>2, Leaves
  <2>4. /\ DOMAIN y = Fields /\ y.cur = t /\ y.ready = Tail(x.ready) /\ y.inq = [x.inq EXCEPT ![t] = FALSE]
        /\ y.freed = x.freed \cup x.terminated /\ y.terminated = {}
        /\ y.over = x.over /\ y.ch = x.ch /\ y.mutex = x.mutex /\ y.cond = x.cond /\ y.count = x.count
        /\ y.at = x.at /\ y.phase = x.phase /\ y.pick = x.pick /\ y.susp = x.susp
    <3> HIDE DEF t
    <3> QED BY <1>2 DEF Fields
  <2>5. p[Ready] = Tail(q[Ready]) /\ \A n \in Names : n # Ready => p[n] = q[n] BY <2>2 DEF Fits
  <2>6. l[t] = Run /\ \A u \in Thread : u # t => l[u] = loc[u] BY <2>2, <2>3 DEF Fits
  <2> HIDE DEF t, y, p, l
  <2>7. Shaped(y) BY <1>1, <2>3, <2>4 DEF Core, Shaped
  <2>8. Has(y, p) BY <1>1, <2>2, <2>4, <2>5, NamesDiffer DEF Core, Has
  <2>9. Marked(y, l) BY <1>1, <2>3, <2>4, <2>6, NamesDiffer DEF Core, Marked, Shaped
  <2>10. {t} = {u \in Thread : l[u] = Run} BY <1>1, <2>3, <2>6 DEF Core
  <2>11. Core(y, {t}, p, l) BY <2>3, <2>7, <2>8, <2>9, <2>10 DEF Core
  <2>12. Settled(y) BY <2>3, <2>4, <2>11 DEF Settled, Held
  <2> QED BY <2>1, <2>4, <2>12 DEF Ctl
<1> QED BY <1>3, <1>4

\* The recursive function of DO_SELECTION: the threads in a selection on the
\* channel that are put in the ready queue.
IsAgain(g, ss, susp, inq) ==
  g = CHOOSE f : f = [n \in 0..Len(ss) |->
        IF n = 0 THEN <<>>
        ELSE IF susp[ss[n]] /\ ~inq[ss[n]] /\ ss[n] \notin Range(f[n - 1])
             THEN Append(f[n - 1], ss[n]) ELSE f[n - 1]]

LEMMA AgainRuns ==
  ASSUME NEW ss \in Seq(Thread), NEW g, NEW susp, NEW inq, IsAgain(g, ss, susp, inq)
  PROVE  /\ g[Len(ss)] \in Seq(Thread) /\ IsInjective(g[Len(ss)])
         /\ \A t \in Range(g[Len(ss)]) : susp[t] /\ ~inq[t]
<1> DEFINE N == Len(ss)
           S == {z \in Seq(Thread) : IsInjective(z) /\ \A t \in Range(z) : susp[t] /\ ~inq[t]}
           joins(z, n) == susp[ss[n]] /\ ~inq[ss[n]] /\ ss[n] \notin Range(z)
           pass(z, n) == IF joins(z, n) THEN Append(z, ss[n]) ELSE z
           next == [e \in S \X (1..N) |-> pass(e[1], e[2])]
           Is(f) == f = [n \in 0..N |-> IF n = 0 THEN <<>> ELSE pass(f[n - 1], n)]
<1>1. N \in Nat /\ \A n \in 1..N : ss[n] \in Thread OBVIOUS
<1>2. <<>> \in S BY EmptyFacts
<1>3. ASSUME NEW z \in S, NEW n \in 1..N PROVE pass(z, n) \in S
  <2> SUFFICES ASSUME joins(z, n) PROVE Append(z, ss[n]) \in S OBVIOUS
  <2> QED BY <1>1, AppendFacts
<1> HIDE DEF S, N, joins
<1>4. next \in [S \X (1..N) -> S]
  <2>1. ASSUME NEW e \in S \X (1..N) PROVE pass(e[1], e[2]) \in S
    <3>1. e[1] \in S /\ e[2] \in 1..N BY <2>1
    <3> HIDE DEF pass
    <3> QED BY <1>3, <3>1
  <2> HIDE DEF pass
  <2> QED BY <2>1
<1>5. \E f : Is(f)
  <2> HIDE DEF next, pass
  <2>1. PICK f \in [0..N -> S] : IsRun(f, N, <<>>, next) BY <1>1, <1>2, <1>4, RunExists
  <2>2. \A n \in 1..N : n - 1 \in 0..N BY <1>1
  <2>3. \A n \in 1..N : next[<<f[n - 1], n>>] = pass(f[n - 1], n)
    <3> SUFFICES ASSUME NEW n \in 1..N PROVE next[<<f[n - 1], n>>] = pass(f[n - 1], n) OBVIOUS
    <3> DEFINE e == <<f[n - 1], n>>
    <3>1. e \in S \X (1..N) /\ e[1] = f[n - 1] /\ e[2] = n BY <2>1, <2>2
    <3> HIDE DEF e
    <3>2. next[e] = pass(e[1], e[2]) BY <3>1 DEF next
    <3>3. next[e] = pass(f[n - 1], n) BY <3>1, <3>2
    <3> QED BY <3>3 DEF e
  <2>4. f = [n \in 0..N |-> IF n = 0 THEN <<>> ELSE next[<<f[n - 1], n>>]] BY <2>1 DEF IsRun
  <2>5. \A n \in 0..N : n # 0 => n \in 1..N BY <1>1
  <2>6. [n \in 0..N |-> IF n = 0 THEN <<>> ELSE next[<<f[n - 1], n>>]]
        = [n \in 0..N |-> IF n = 0 THEN <<>> ELSE pass(f[n - 1], n)]
    BY <2>3, <2>5
  <2>7. Is(f) BY <2>4, <2>6
  <2> QED BY <2>7
<1>6. Is(g)
  <2>1. g = CHOOSE f : Is(f) BY DEF N, joins, IsAgain
  <2> HIDE DEF Is
  <2> QED BY <1>5, <2>1
<1>7. g[0] = <<>> /\ \A n \in 1..N : g[n] = pass(g[n - 1], n)
  <2> HIDE DEF pass
  <2>1. 0 \in 0..N /\ \A n \in 1..N : n \in 0..N /\ n # 0 BY <1>1
  <2> QED BY <1>6, <2>1
<1> HIDE DEF Is, pass
<1> DEFINE T == {n \in 0..N : g[n] \in S}
<1>8. 0..N \subseteq T
  <2>1. 0 \in T BY <1>1, <1>2, <1>7
  <2>2. \A n \in 0..(N - 1) : n \in T => n + 1 \in T
    <3> SUFFICES ASSUME NEW n \in 0..(N - 1), g[n] \in S PROVE n + 1 \in T OBVIOUS
    <3>1. n + 1 \in 1..N /\ (n + 1) - 1 = n BY <1>1
    <3>2. g[n + 1] = pass(g[n], n + 1) BY <1>7, <3>1
    <3> QED BY <1>3, <3>1, <3>2
  <2> HIDE DEF T
  <2> QED BY <1>1, <2>1, <2>2, UpTo
<1>9. g[N] \in S BY <1>1, <1>8
<1> QED BY <1>9 DEF N, S

\* Threads that wait in selections are put in the ready queue.
LEMMA WakeAllHeld ==
  ASSUME NEW x, NEW R, Held(x, R), NEW ts \in Seq(Thread), IsInjective(ts),
         \A t \in Range(ts) : x.susp[t] /\ ~x.inq[t] /\ t \notin R
  PROVE  Held(WakeAll(x, ts), R) /\ Near(x, WakeAll(x, ts)) /\ WakeAll(x, ts).ch = x.ch
<1>1. PICK q, loc : Core(x, R, q, loc) BY DEF Held
<1> DEFINE y == WakeAll(x, ts)
           p == [q EXCEPT ![Ready] = @ \o ts]
           l == [t \in Thread |-> IF t \in Range(ts) THEN Ready ELSE loc[t]]
<1>2. /\ DOMAIN y = Fields /\ y.ready = x.ready \o ts
      /\ y.inq = [t \in Thread |-> x.inq[t] \/ t \in Range(ts)]
      /\ y.ch = x.ch /\ y.mutex = x.mutex /\ y.count = x.count /\ y.susp = x.susp /\ y.at = x.at /\ y.phase = x.phase
      /\ y.pick = x.pick /\ y.cond = x.cond /\ y.freed = x.freed /\ y.terminated = x.terminated
      /\ y.cur = x.cur /\ y.over = x.over
  BY <1>1 DEF Core, Shaped, WakeAll, Fields
<1>3. /\ q[Ready] = x.ready /\ Ready \in Names /\ Fits(q, loc) /\ Marked(x, loc)
      /\ R = {t \in Thread : loc[t] = Run} /\ Range(ts) \subseteq Thread
  BY <1>1, NamesDiffer DEF Core, Has, Range
<1>4. q[Ready] \in Seq(Thread) /\ IsInjective(q[Ready]) /\ \A t \in Thread : t \in Range(q[Ready]) <=> loc[t] = Ready
  BY <1>3 DEF Fits
<1>5. \A t \in Range(ts) : loc[t] = Chosen BY <1>3 DEF Marked
<1>6. Range(q[Ready]) \cap Range(ts) = {} BY <1>3, <1>4, <1>5, NamesDiffer
<1>7. /\ q[Ready] \o ts \in Seq(Thread) /\ Range(q[Ready] \o ts) = Range(q[Ready]) \cup Range(ts)
      /\ IsInjective(q[Ready] \o ts)
  BY <1>4, <1>6, ConcatFacts
<1>8. /\ p \in [Names -> Seq(Thread)] /\ p[Ready] = q[Ready] \o ts
      /\ \A n \in Names : n # Ready => p[n] = q[n]
  BY <1>3, <1>7 DEF Fits
<1>9. /\ l \in [Thread -> Places] /\ \A t \in Thread : t \in Range(ts) => l[t] = Ready
      /\ \A t \in Thread : t \notin Range(ts) => l[t] = loc[t]
  BY <1>3 DEF Fits, Places
<1> HIDE DEF y, p, l
<1>10. ASSUME NEW n \in Names PROVE IsInjective(p[n]) /\ \A t \in Thread : t \in Range(p[n]) <=> l[t] = n
  <2>1. CASE n = Ready
    <3>1. IsInjective(p[n]) /\ Range(p[n]) = Range(q[Ready]) \cup Range(ts) BY <1>7, <1>8, <2>1
    <3> QED BY ONLY <1>4, <1>9, <2>1, <3>1
  <2>2. CASE n # Ready
    <3>1. IsInjective(q[n]) /\ \A t \in Thread : t \in Range(q[n]) <=> loc[t] = n BY <1>3 DEF Fits
    <3>2. \A t \in Range(ts) : loc[t] # n BY <1>5, NamesDiffer
    <3>3. p[n] = q[n] BY <1>8, <2>2
    <3> QED BY ONLY <1>9, <2>2, <3>1, <3>2, <3>3
  <2> QED BY <2>1, <2>2
<1>11. \A t \in Thread : May(t, l[t])
  <2>1. \A t \in Thread : May(t, Ready) BY NamesDiffer DEF May
  <2> QED BY <1>3, <1>9, <2>1 DEF Fits
<1>12. Fits(p, l) BY <1>8, <1>9, <1>10, <1>11 DEF Fits
<1>13. Shaped(y) BY <1>1, <1>2 DEF Core, Shaped
<1>14. Has(y, p)
  <2>1. Has(x, q) BY <1>1 DEF Core
  <2>2. /\ p[Mutex] = q[Mutex] /\ p[Cond] = q[Cond] /\ p[Counts] = q[Counts]
        /\ \A k \in Channel : p[QS(k)] = q[QS(k)] /\ p[QR(k)] = q[QR(k)]
    BY <1>8, NamesDiffer
  <2> QED BY ONLY <1>2, <1>3, <1>8, <2>1, <2>2 DEF Has
<1>15. Marked(y, l)
  <2> SUFFICES ASSUME NEW t \in Thread
               PROVE  /\ y.inq[t] <=> l[t] = Ready
                      /\ l[t] = Chosen => y.susp[t] /\ ~y.inq[t]
                      /\ y.susp[t] /\ ~y.inq[t] => l[t] \in {Run, Chosen}
                      /\ t \in y.freed \cup y.terminated <=> l[t] = Freed
    BY DEF Marked
  <2>1. y.inq[t] <=> x.inq[t] \/ t \in Range(ts) BY <1>2
  <2>2. /\ x.inq[t] <=> loc[t] = Ready
        /\ loc[t] = Chosen => x.susp[t] /\ ~x.inq[t]
        /\ x.susp[t] /\ ~x.inq[t] => loc[t] \in {Run, Chosen}
        /\ t \in x.freed \cup x.terminated <=> loc[t] = Freed
    BY <1>3 DEF Marked
  <2>3. Ready # Chosen /\ Ready # Run /\ Ready # Freed BY NamesDiffer
  <2>4. CASE t \in Range(ts) BY <1>2, <1>5, <1>9, <2>1, <2>2, <2>3, <2>4, NamesDiffer
  <2>5. CASE t \notin Range(ts) BY <1>2, <1>9, <2>1, <2>2, <2>5
  <2> QED BY <2>4, <2>5
<1>16. R = {t \in Thread : l[t] = Run}
  <2>1. \A t \in Range(ts) : loc[t] # Run /\ Ready # Run BY <1>5, NamesDiffer
  <2> QED BY <1>3, <1>9, <2>1
<1>17. Core(y, R, p, l) BY <1>12, <1>13, <1>14, <1>15, <1>16 DEF Core
<1> QED BY <1>2, <1>17 DEF Held, Near, Ctl, y

\* DO_SELECTION.
LEMMA SelectionHeld ==
  ASSUME NEW x, NEW R, Held(x, R), NEW k \in Channel, \A t \in R : ~x.susp[t]
  PROVE  Held(DO_SELECTION(x, k), R) /\ Near(x, DO_SELECTION(x, k))
<1> DEFINE ss == x.ch[k].ss
           again == CHOOSE f : f = [n \in 0..Len(ss) |->
             IF n = 0 THEN <<>>
             ELSE IF x.susp[ss[n]] /\ ~x.inq[ss[n]] /\ ss[n] \notin Range(f[n - 1])
                  THEN Append(f[n - 1], ss[n]) ELSE f[n - 1]]
           y == [x EXCEPT !.ch[k].ss = <<>>]
           ts == again[Len(ss)]
<1>1. DO_SELECTION(x, k) = WakeAll(y, ts) BY DEF DO_SELECTION
<1>2. Shaped(x) /\ ss \in Seq(Thread) BY HeldShaped DEF Shaped
<1> HIDE DEF ss
<1>3. ts \in Seq(Thread) /\ IsInjective(ts) /\ \A t \in Range(ts) : x.susp[t] /\ ~x.inq[t]
  <2>1. IsAgain(again, ss, x.susp, x.inq) BY DEF IsAgain
  <2> HIDE DEF again
  <2> QED BY <1>2, <2>1, AgainRuns
<1> HIDE DEF ts, again
<1>4. /\ DOMAIN y = Fields /\ y.ch[k].ss = <<>> /\ y.ch[k].qr = x.ch[k].qr /\ y.ch[k].qs = x.ch[k].qs
      /\ DOMAIN y.ch = Channel /\ DOMAIN y.ch[k] = ChFields /\ \A c \in Channel : c # k => y.ch[c] = x.ch[c]
      /\ y.ready = x.ready /\ y.mutex = x.mutex /\ y.cond = x.cond /\ y.count = x.count
      /\ y.inq = x.inq /\ y.freed = x.freed
  BY <1>2 DEF Shaped, Fields, ChFields
<1>5. Near(x, y) BY <1>2 DEF Shaped, Near, Ctl, Fields
<1> HIDE DEF y
<1>6. Shaped(y) BY <1>2, <1>4, <1>5, EmptyFacts DEF Shaped, Near, Ctl
<1>7. Lists(x, y) BY <1>4 DEF Lists
<1>8. Held(y, R) BY <1>4, <1>5, <1>6, <1>7, QuietHeld DEF Near, Ctl
<1>9. \A t \in Range(ts) : y.susp[t] /\ ~y.inq[t] /\ t \notin R BY <1>3, <1>4, <1>5 DEF Near, Ctl
<1>10. Held(WakeAll(y, ts), R) /\ Near(y, WakeAll(y, ts)) BY <1>3, <1>8, <1>9, WakeAllHeld
<1> QED BY <1>1, <1>5, <1>10 DEF Near, Ctl

----------------------------------------------------------------------------
(* Channels: what only moves times, messages and counts.                   *)

Calm(x, y) == Shaped(y) /\ Quiet(x, y)

LEMMA CalmTrans ==
  ASSUME NEW x, NEW y, NEW z, Calm(x, y), Calm(y, z)
  PROVE  Calm(x, z)
BY DEF Calm, Quiet, Near, Ctl, Lists

LEMMA CalmHeld ==
  ASSUME NEW x, NEW y, NEW R, Held(x, R), Calm(x, y)
  PROVE  Held(y, R) /\ Near(x, y)
BY QuietHeld DEF Calm, Quiet, Near, Ctl

LEMMA NearTrans ==
  ASSUME NEW x, NEW y, NEW z, Near(x, y), Near(y, z)
  PROVE  Near(x, z)
BY DEF Near, Ctl

\* Another value in a field that says nothing of where threads are.
LEMMA CalmField ==
  ASSUME NEW x, Shaped(x), NEW v
  PROVE  /\ Calm(x, [x EXCEPT !.time = v]) /\ Calm(x, [x EXCEPT !.put = v]) /\ Calm(x, [x EXCEPT !.got = v])
<1>1. ASSUME NEW y, y = [x EXCEPT !.time = v] \/ y = [x EXCEPT !.put = v] \/ y = [x EXCEPT !.got = v] PROVE Calm(x, y)
  <2>1. /\ DOMAIN y = Fields /\ y.ch = x.ch
        /\ y.ready = x.ready /\ y.mutex = x.mutex /\ y.cond = x.cond /\ y.count = x.count
        /\ y.inq = x.inq /\ y.freed = x.freed /\ Near(x, y)
    <3>1. CASE y = [x EXCEPT !.time = v] BY <3>1 DEF Shaped, Fields, Near, Ctl
    <3>2. CASE y = [x EXCEPT !.put = v] BY <3>2 DEF Shaped, Fields, Near, Ctl
    <3>3. CASE y = [x EXCEPT !.got = v] BY <3>3 DEF Shaped, Fields, Near, Ctl
    <3> QED BY <1>1, <3>1, <3>2, <3>3
  <2> QED BY <2>1 DEF Calm, Quiet, Shaped, Near, Ctl, Lists
<1> QED BY <1>1

\* A channel with the same queues.
LEMMA CalmChannel ==
  ASSUME NEW x, Shaped(x), NEW k \in Channel, NEW c, DOMAIN c = ChFields, c.qs = x.ch[k].qs, c.qr = x.ch[k].qr,
         c.ss \in Seq(Thread)
  PROVE  Calm(x, [x EXCEPT !.ch[k] = c])
<1> DEFINE y == [x EXCEPT !.ch[k] = c]
<1>1. /\ DOMAIN y = Fields /\ y.ch[k] = c /\ DOMAIN y.ch = Channel
      /\ \A h \in Channel : h # k => y.ch[h] = x.ch[h]
      /\ y.ready = x.ready /\ y.mutex = x.mutex /\ y.cond = x.cond /\ y.count = x.count
      /\ y.inq = x.inq /\ y.freed = x.freed
  BY DEF Shaped, Fields
<1>2. Near(x, y) BY DEF Shaped, Near, Ctl, Fields
<1> HIDE DEF y
<1>3. Shaped(y) BY <1>1, <1>2 DEF Shaped, Near, Ctl
<1>4. Lists(x, y) BY <1>1 DEF Lists
<1> QED BY <1>1, <1>2, <1>3, <1>4 DEF Calm, Quiet, y

LEMMA CalmCounts ==
  ASSUME NEW x, Shaped(x), NEW k \in Channel, NEW v, NEW w
  PROVE  /\ Calm(x, [x EXCEPT !.ch[k].tm = v]) /\ Calm(x, [x EXCEPT !.ch[k].msgbuf = v])
         /\ Calm(x, [x EXCEPT !.ch[k].sendid = v]) /\ Calm(x, [x EXCEPT !.ch[k].recvid = v])
<1> DEFINE a == [x.ch[k] EXCEPT !.tm = v]
           b == [x.ch[k] EXCEPT !.msgbuf = v]
           c == [x.ch[k] EXCEPT !.sendid = v]
           d == [x.ch[k] EXCEPT !.recvid = v]
<1>1. DOMAIN a = ChFields /\ a.qs = x.ch[k].qs /\ a.qr = x.ch[k].qr /\ a.ss \in Seq(Thread) BY DEF Shaped, ChFields
<1>2. DOMAIN b = ChFields /\ b.qs = x.ch[k].qs /\ b.qr = x.ch[k].qr /\ b.ss \in Seq(Thread) BY DEF Shaped, ChFields
<1>3. DOMAIN c = ChFields /\ c.qs = x.ch[k].qs /\ c.qr = x.ch[k].qr /\ c.ss \in Seq(Thread) BY DEF Shaped, ChFields
<1>4. DOMAIN d = ChFields /\ d.qs = x.ch[k].qs /\ d.qr = x.ch[k].qr /\ d.ss \in Seq(Thread) BY DEF Shaped, ChFields
<1>5. Calm(x, [x EXCEPT !.ch[k] = a]) /\ Calm(x, [x EXCEPT !.ch[k] = b])
  <2> HIDE DEF a, b
  <2> QED BY <1>1, <1>2, CalmChannel
<1>6. Calm(x, [x EXCEPT !.ch[k] = c]) /\ Calm(x, [x EXCEPT !.ch[k] = d])
  <2> HIDE DEF c, d
  <2> QED BY <1>3, <1>4, CalmChannel
<1> QED BY <1>5, <1>6

LEMMA CalmSteps ==
  ASSUME NEW x, Shaped(x), NEW k \in Channel, NEW t, NEW u, NEW i, NEW v, NEW m
  PROVE  /\ Calm(x, Meet(x, t, k, i)) /\ Calm(x, Stamp(x, k, i, v)) /\ Calm(x, Both(x, t, u, k))
         /\ Calm(x, Sent(x, t, k, m)) /\ Calm(x, Received(x, t, k, m)) /\ Calm(x, Fill(x, k, m))
         /\ Calm(x, CountSend(x, k))
<1>0. Calm(x, x) BY DEF Calm, Quiet, Near, Ctl, Lists
<1>1. Calm(x, Meet(x, t, k, i)) BY CalmField DEF Meet
<1>2. Calm(x, Stamp(x, k, i, v)) BY CalmCounts DEF Stamp
<1>3. Calm(x, Both(x, t, u, k))
  <2>1. CASE job.slack[k] # 0 BY <1>0, <2>1 DEF Both
  <2>2. CASE job.slack[k] = 0
    <3> DEFINE v1 == [x.time EXCEPT ![t] = time_max(x.time[t], x.time[u])]
               v2 == [v1 EXCEPT ![u] = time_max(x.time[t], x.time[u])]
               y == [x EXCEPT !.time = v1]
    <3>1. Calm(x, y)
      <4> HIDE DEF v1
      <4> QED BY CalmField
    <3>2. Shaped(y) /\ y.time = v1
      <4> HIDE DEF v1
      <4> QED BY <3>1 DEF Calm, Shaped, Fields
    <3>3. Calm(y, [y EXCEPT !.time = v2])
      <4> HIDE DEF v2, y
      <4> QED BY <3>2, CalmField
    <3>4. Both(x, t, u, k) = [y EXCEPT !.time = v2]
      <4>1. Both(x, t, u, k) = [y EXCEPT !.time = [y.time EXCEPT ![u] = time_max(x.time[t], x.time[u])]]
        BY <2>2 DEF Both
      <4> HIDE DEF y, v1
      <4> QED BY <3>2, <4>1 DEF v2
    <3> HIDE DEF y, v1, v2
    <3> QED BY <3>1, <3>3, <3>4, CalmTrans
  <2> QED BY <2>1, <2>2
<1>4. Calm(x, Sent(x, t, k, m)) BY CalmField DEF Sent
<1>5. Calm(x, Received(x, t, k, m)) BY CalmField DEF Received
<1>6. Calm(x, Fill(x, k, m)) BY CalmCounts DEF Fill
<1>7. Calm(x, CountSend(x, k)) BY CalmCounts DEF CountSend
<1> QED BY <1>1, <1>2, <1>3, <1>4, <1>5, <1>6, <1>7

LEMMA CalmStamps ==
  ASSUME NEW x, Shaped(x), NEW k \in Channel, NEW t, NEW i
  PROVE  /\ Calm(x, StampSend(x, t, k)) /\ Calm(x, StampRecv(x, t, k)) /\ Calm(x, CountRecv(x, t, k, i))
<1>1. Calm(x, StampSend(x, t, k))
  <2> DEFINE y == Meet(x, t, k, nextslot(x, k))
  <2>1. Calm(x, y) BY CalmSteps
  <2>2. StampSend(x, t, k) = Stamp(y, k, sendslot(x, k), y.time[t] + delay(x.ch[k], k)) BY DEF StampSend
  <2> HIDE DEF y
  <2>3. Calm(y, StampSend(x, t, k)) BY <2>1, <2>2, CalmSteps DEF Calm
  <2> QED BY <2>1, <2>3, CalmTrans
<1>2. Calm(x, StampRecv(x, t, k))
  <2> DEFINE y == Meet(x, t, k, recvslot(x, k))
  <2>1. Calm(x, y) BY CalmSteps
  <2>2. StampRecv(x, t, k) = Stamp(y, k, recvslot(x, k), y.time[t]) BY DEF StampRecv
  <2> HIDE DEF y
  <2>3. Calm(y, StampRecv(x, t, k)) BY <2>1, <2>2, CalmSteps DEF Calm
  <2> QED BY <2>1, <2>3, CalmTrans
<1>3. Calm(x, CountRecv(x, t, k, i))
  <2> DEFINE y == [x EXCEPT !.ch[k].recvid = @ + 1]
  <2>1. Calm(x, y) BY CalmCounts
  <2>2. CountRecv(x, t, k, i) = Received(y, t, k, x.ch[k].msgbuf[i]) BY DEF CountRecv
  <2> HIDE DEF y
  <2>3. Calm(y, CountRecv(x, t, k, i)) BY <2>1, <2>2, CalmSteps DEF Calm
  <2> QED BY <2>1, <2>3, CalmTrans
<1> QED BY <1>1, <1>2, <1>3

----------------------------------------------------------------------------
(* The parts of a call by the thread t from the state x: w is the state    *)
(* within the call when the threads in R are on their way.                 *)

Mid(x, w, R) == Held(w, R) /\ Near(x, w)

\* The phases in which a thread goes on in tsend_back or trecv_back.
Handover == {"passed", "full", "last", "taken", "empty"}
InCall(x, t) == x.at[t] <= Len(job.prog[t]) /\ job.prog[t][x.at[t]].op \in {"send", "recv"}

\* The call is over, or t waits in it and another thread runs; or the program
\* ends.
Moved(x, y, t) == /\ y.pick = x.pick /\ y.susp = x.susp
                  /\ \A u \in Thread : u # t => y.at[u] = x.at[u] /\ y.phase[u] = x.phase[u]
                  /\ \/ y.at[t] = x.at[t] + 1 /\ y.phase[t] = ""
                     \/ y.at[t] = x.at[t] /\ (y.phase[t] \in Handover => InCall(x, t))
Steps(x, y, t) == Ended(y) \/ (Settled(y) /\ Moved(x, y, t))

\* The thread that runs, at a call in which it is not in a selection.
Calls(x, t) == /\ job \in Scenarios /\ Settled(x) /\ x.cur = t /\ ~x.susp[t]
               /\ x.phase[t] \in Handover => InCall(x, t)

LEMMA CallMid ==
  ASSUME NEW x, NEW t, Calls(x, t)
  PROVE  t \in Thread /\ Mid(x, x, {t})
BY DEF Calls, Settled, Mid, Near, Ctl

LEMMA MidCalm ==
  ASSUME NEW x, NEW w, NEW v, NEW R, Mid(x, w, R), Calm(w, v)
  PROVE  Mid(x, v, R) /\ \A k \in Channel : v.ch[k].qs = w.ch[k].qs /\ v.ch[k].qr = w.ch[k].qr
BY CalmHeld, NearTrans DEF Mid, Calm, Quiet, Lists

LEMMA MidShaped ==
  ASSUME NEW x, NEW w, NEW R, Mid(x, w, R)
  PROVE  Shaped(w)
BY HeldShaped DEF Mid

LEMMA MidWake ==
  ASSUME NEW x, NEW w, NEW R, Mid(x, w, R), NEW u \in R
  PROVE  Mid(x, Wake(w, u), R \ {u})
BY WakeHeld, NearTrans DEF Mid

\* The partner is let go and put in the ready queue.
LEMMA MidRelease ==
  ASSUME job \in Scenarios, NEW x, NEW w, NEW R, Mid(x, w, R), NEW k \in Channel
  PROVE  /\ w.ch[k].qs # <<>> => Mid(x, Wake([w EXCEPT !.ch[k].qs = <<>>], Head(w.ch[k].qs)), R)
         /\ w.ch[k].qr # <<>> => Mid(x, Wake([w EXCEPT !.ch[k].qr = <<>>], Head(w.ch[k].qr)), R)
<1>1. ASSUME w.ch[k].qs # <<>> PROVE Mid(x, Wake([w EXCEPT !.ch[k].qs = <<>>], Head(w.ch[k].qs)), R)
  <2> DEFINE u == Head(w.ch[k].qs)
             v == [w EXCEPT !.ch[k].qs = <<>>]
  <2>1. u \in Thread \ R /\ Held(v, R \cup {u}) /\ Near(w, v) BY <1>1, PopHeld DEF Mid
  <2> HIDE DEF u, v
  <2>2. Mid(x, v, R \cup {u}) BY <2>1, NearTrans DEF Mid
  <2>3. (R \cup {u}) \ {u} = R BY <2>1
  <2>4. Mid(x, Wake(v, u), R) BY <2>2, <2>3, MidWake
  <2> QED BY <2>4 DEF u, v
<1>2. ASSUME w.ch[k].qr # <<>> PROVE Mid(x, Wake([w EXCEPT !.ch[k].qr = <<>>], Head(w.ch[k].qr)), R)
  <2> DEFINE u == Head(w.ch[k].qr)
             v == [w EXCEPT !.ch[k].qr = <<>>]
  <2>1. u \in Thread \ R /\ Held(v, R \cup {u}) /\ Near(w, v) BY <1>2, PopHeld DEF Mid
  <2> HIDE DEF u, v
  <2>2. Mid(x, v, R \cup {u}) BY <2>1, NearTrans DEF Mid
  <2>3. (R \cup {u}) \ {u} = R BY <2>1
  <2>4. Mid(x, Wake(v, u), R) BY <2>2, <2>3, MidWake
  <2> QED BY <2>4 DEF u, v
<1> QED BY <1>1, <1>2

LEMMA ReleaseMid ==
  ASSUME job \in Scenarios, NEW x, NEW w, NEW R, Mid(x, w, R), NEW k \in Channel, NEW q \in {"qs", "qr"}
  PROVE  Mid(x, Release(w, k, q), R)
<1>1. CASE q = "qs" BY <1>1, MidRelease DEF Release
<1>2. CASE q = "qr" BY <1>2, MidRelease DEF Release
<1> QED BY <1>1, <1>2

\* The call is over.
LEMMA DoneSteps ==
  ASSUME NEW x, NEW t, Calls(x, t), NEW w, Mid(x, w, {t})
  PROVE  Moved(x, Done(w, t), t) /\ Settled(Done(w, t))
<1> DEFINE y == Done(w, t)
<1>1. Shaped(w) /\ t \in Thread BY MidShaped, CallMid
<1>2. /\ DOMAIN y = Fields /\ y.at = [w.at EXCEPT ![t] = @ + 1] /\ y.phase = [w.phase EXCEPT ![t] = ""]
      /\ \A f \in Fields \ {"at", "phase"} : y[f] = w[f]
  BY <1>1 DEF Shaped, Done, Fields
<1>3. /\ y.ch = w.ch /\ y.mutex = w.mutex /\ y.count = w.count /\ y.susp = w.susp /\ y.pick = w.pick
      /\ y.cond = w.cond /\ y.freed = w.freed /\ y.terminated = w.terminated /\ y.ready = w.ready
      /\ y.cur = w.cur /\ y.over = w.over /\ y.inq = w.inq
  BY <1>2 DEF Fields
<1> HIDE DEF y
<1>4. Shaped(y) BY <1>1, <1>2, <1>3 DEF Shaped
<1>5. Held(y, {t}) BY <1>3, <1>4, QuietHeld DEF Mid, Lists
<1>6. Settled(y) BY <1>3, <1>5 DEF Calls, Settled, Mid, Near
<1>7. Moved(x, y, t) BY <1>1, <1>2, <1>3 DEF Moved, Mid, Near, Ctl, Shaped
<1> QED BY <1>6, <1>7 DEF y

LEMMA CalmAfter ==
  ASSUME NEW x, NEW t, NEW y, NEW z, Moved(x, y, t), Settled(y), Calm(y, z)
  PROVE  Moved(x, z, t) /\ Settled(z)
<1>1. Held(y, {y.cur}) BY DEF Settled
<1>2. Held(z, {y.cur}) BY <1>1, CalmHeld
<1> QED BY <1>2 DEF Moved, Settled, Calm, Quiet, Near, Ctl

\* The thread waits in the call, in a queue.
LEMMA SwitchSteps ==
  ASSUME NEW x, NEW t, Calls(x, t), NEW w, Held(w, {}), w.over = x.over, w.pick = x.pick, w.susp = x.susp, w.at = x.at,
         \A u \in Thread : u # t => w.phase[u] = x.phase[u], w.phase[t] \in Handover => InCall(x, t)
  PROVE  Steps(x, Switch(w), t)
BY SwitchHeld DEF Calls, Settled, Steps, Moved, Ctl

LEMMA BlockSteps ==
  ASSUME NEW x, NEW t, Calls(x, t), NEW w, Mid(x, w, {}), NEW where, where \in Handover => InCall(x, t)
  PROVE  Steps(x, Block(w, t, where), t)
<1> DEFINE v == [w EXCEPT !.phase[t] = where]
<1>1. Shaped(w) /\ t \in Thread BY MidShaped, CallMid
<1>2. /\ DOMAIN v = Fields /\ v.phase = [w.phase EXCEPT ![t] = where]
      /\ v.ch = w.ch /\ v.mutex = w.mutex /\ v.count = w.count /\ v.susp = w.susp /\ v.pick = w.pick
      /\ v.cond = w.cond /\ v.freed = w.freed /\ v.terminated = w.terminated /\ v.ready = w.ready
      /\ v.cur = w.cur /\ v.over = w.over /\ v.inq = w.inq /\ v.at = w.at
  BY <1>1 DEF Shaped, Fields
<1>3. Block(w, t, where) = Switch(v) BY DEF Block
<1> HIDE DEF v
<1>4. Shaped(v) BY <1>1, <1>2 DEF Shaped
<1>5. Held(v, {}) BY <1>2, <1>4, QuietHeld DEF Mid, Lists
<1>6. \A u \in Thread : u # t => v.phase[u] = x.phase[u] BY <1>1, <1>2 DEF Shaped, Mid, Near, Ctl
<1>7. v.over = x.over /\ v.pick = x.pick /\ v.susp = x.susp /\ v.at = x.at BY <1>2 DEF Mid, Near, Ctl
<1>8. v.phase[t] \in Handover => InCall(x, t) BY <1>1, <1>2 DEF Shaped
<1> QED BY <1>3, <1>5, <1>6, <1>7, <1>8, SwitchSteps

----------------------------------------------------------------------------
(* Sending and receiving.                                                  *)

LEMMA MidChain ==
  ASSUME NEW x, NEW w, NEW v, NEW R, Mid(x, w, R), Calm(w, v)
  PROVE  Mid(x, v, R) /\ Shaped(v)
BY MidCalm DEF Calm

LEMMA CalmQueues ==
  ASSUME NEW w, NEW v, Calm(w, v), NEW k \in Channel
  PROVE  v.ch[k].qs = w.ch[k].qs /\ v.ch[k].qr = w.ch[k].qr
BY DEF Calm, Quiet, Lists

\* The message goes out and the call is over.
LEMMA SentSteps ==
  ASSUME NEW x, NEW t, Calls(x, t), NEW w, Mid(x, w, {t}), NEW k \in Channel, NEW m
  PROVE  Steps(x, Sent(Done(w, t), t, k, m), t)
<1> DEFINE y == Done(w, t)
<1>1. Moved(x, y, t) /\ Settled(y) BY DoneSteps
<1> HIDE DEF y
<1>2. Shaped(y) BY <1>1, HeldShaped DEF Settled
<1>3. Calm(y, Sent(y, t, k, m)) BY <1>2, CalmSteps
<1>4. Moved(x, Sent(y, t, k, m), t) /\ Settled(Sent(y, t, k, m)) BY <1>1, <1>3, CalmAfter
<1> QED BY <1>4 DEF Steps, y

LEMMA GotSteps ==
  ASSUME NEW x, NEW t, Calls(x, t), NEW w, Mid(x, w, {t}), NEW k \in Channel, NEW u, NEW m
  PROVE  /\ Steps(x, Received(Done(w, t), u, k, m), t)
         /\ \A v, n : Steps(x, Sent(Received(Done(w, t), u, k, m), v, k, n), t)
<1> DEFINE y == Done(w, t)
           z == Received(y, u, k, m)
<1>1. Moved(x, y, t) /\ Settled(y) BY DoneSteps
<1> HIDE DEF y
<1>2. Shaped(y) BY <1>1, HeldShaped DEF Settled
<1>3. Calm(y, z) BY <1>2, CalmSteps
<1>4. Moved(x, z, t) /\ Settled(z) BY <1>1, <1>3, CalmAfter
<1> HIDE DEF z
<1>5. Shaped(z) BY <1>4, HeldShaped DEF Settled
<1>6. ASSUME NEW v, NEW n PROVE Steps(x, Sent(z, v, k, n), t)
  <2>1. Calm(z, Sent(z, v, k, n)) BY <1>5, CalmSteps
  <2>2. Moved(x, Sent(z, v, k, n), t) /\ Settled(Sent(z, v, k, n)) BY <1>4, <2>1, CalmAfter
  <2> QED BY <2>2 DEF Steps
<1> QED BY <1>4, <1>6 DEF Steps, y, z

\* Nobody takes the message: t looks for those in a selection, and waits.
LEMMA SendWaits ==
  ASSUME NEW x, NEW t, Calls(x, t), InCall(x, t), NEW w, Mid(x, w, {t}), NEW k \in Channel, Sends(job.prog, t, k), NEW where
  PROVE  /\ w.ch[k].qs = <<>>
         /\ Steps(x, Block(DO_SELECTION([w EXCEPT !.ch[k].qs = <<t>>], k), t, where), t)
         /\ Steps(x, Block([w EXCEPT !.ch[k].qs = Append(@, t)], t, where), t)
<1> DEFINE y == [w EXCEPT !.ch[k].qs = <<t>>]
<1>1. ~w.susp[t] BY DEF Calls, Mid, Near, Ctl
<1>2. w.ch[k].qs = <<>> /\ Held(y, {t} \ {t}) /\ Near(w, y) BY <1>1, PushSend DEF Calls, Mid
<1> HIDE DEF y
<1>3. Mid(x, y, {}) BY <1>2, NearTrans DEF Mid
<1>4. Held(DO_SELECTION(y, k), {}) /\ Near(y, DO_SELECTION(y, k)) BY <1>3, SelectionHeld DEF Mid
<1>5. Mid(x, DO_SELECTION(y, k), {}) BY <1>3, <1>4, NearTrans DEF Mid
<1>6. [w EXCEPT !.ch[k].qs = Append(@, t)] = y
  <2>1. Append(<<>>, t) = <<t>> OBVIOUS
  <2>2. Append(w.ch[k].qs, t) = <<t>> BY <1>2, <2>1
  <2>3. [w EXCEPT !.ch[k].qs = Append(@, t)] = [w EXCEPT !.ch[k].qs = Append(w.ch[k].qs, t)] OBVIOUS
  <2> QED BY <2>2, <2>3 DEF y
<1>7. Steps(x, Block(y, t, where), t) BY <1>3, BlockSteps
<1>8. Steps(x, Block(DO_SELECTION(y, k), t, where), t) BY <1>5, BlockSteps
<1> QED BY <1>2, <1>6, <1>7, <1>8 DEF y

LEMMA RecvWaits ==
  ASSUME NEW x, NEW t, Calls(x, t), InCall(x, t), NEW w, Mid(x, w, {t}), NEW k \in Channel, Receives(job.prog, t, k), NEW where
  PROVE  /\ w.ch[k].qr = <<>>
         /\ Steps(x, Block(DO_SELECTION([w EXCEPT !.ch[k].qr = <<t>>], k), t, where), t)
         /\ Steps(x, Block([w EXCEPT !.ch[k].qr = Append(@, t)], t, where), t)
<1> DEFINE y == [w EXCEPT !.ch[k].qr = <<t>>]
<1>1. ~w.susp[t] BY DEF Calls, Mid, Near, Ctl
<1>2. w.ch[k].qr = <<>> /\ Held(y, {t} \ {t}) /\ Near(w, y) BY <1>1, PushRecv DEF Calls, Mid
<1> HIDE DEF y
<1>3. Mid(x, y, {}) BY <1>2, NearTrans DEF Mid
<1>4. Held(DO_SELECTION(y, k), {}) /\ Near(y, DO_SELECTION(y, k)) BY <1>3, SelectionHeld DEF Mid
<1>5. Mid(x, DO_SELECTION(y, k), {}) BY <1>3, <1>4, NearTrans DEF Mid
<1>6. [w EXCEPT !.ch[k].qr = Append(@, t)] = y
  <2>1. Append(<<>>, t) = <<t>> OBVIOUS
  <2>2. Append(w.ch[k].qr, t) = <<t>> BY <1>2, <2>1
  <2>3. [w EXCEPT !.ch[k].qr = Append(@, t)] = [w EXCEPT !.ch[k].qr = Append(w.ch[k].qr, t)] OBVIOUS
  <2> QED BY <2>2, <2>3 DEF y
<1>7. Steps(x, Block(y, t, where), t) BY <1>3, BlockSteps
<1>8. Steps(x, Block(DO_SELECTION(y, k), t, where), t) BY <1>5, BlockSteps
<1> QED BY <1>2, <1>6, <1>7, <1>8 DEF y

LEMMA CalmBothCounts ==
  ASSUME NEW x, Shaped(x), NEW k \in Channel
  PROVE  /\ Calm(x, [x EXCEPT !.ch[k].recvid = @ + 1, !.ch[k].sendid = @ + 1])
         /\ Calm(x, [x EXCEPT !.ch[k].recvid = @ + 1]) /\ Calm(x, [x EXCEPT !.ch[k].sendid = @ + 1])
<1> DEFINE y == [x EXCEPT !.ch[k].recvid = @ + 1]
<1>1. Calm(x, y) /\ Calm(x, [x EXCEPT !.ch[k].sendid = @ + 1]) BY CalmCounts
<1>2. [x EXCEPT !.ch[k].recvid = @ + 1, !.ch[k].sendid = @ + 1] = [y EXCEPT !.ch[k].sendid = @ + 1] OBVIOUS
<1> HIDE DEF y
<1>3. Calm(y, [y EXCEPT !.ch[k].sendid = @ + 1]) BY <1>1, CalmCounts DEF Calm
<1>4. Calm(x, [y EXCEPT !.ch[k].sendid = @ + 1]) BY <1>1, <1>3, CalmTrans
<1> QED BY <1>1, <1>2, <1>4 DEF y

LEMMA FsendSteps ==
  ASSUME NEW x, NEW t, Calls(x, t), InCall(x, t), NEW k \in Channel, Sends(job.prog, t, k), NEW m
  PROVE  Steps(x, fsend(x, t, k, m), t)
<1> DEFINE w == Fill(x, k, m)
           r == Head(w.ch[k].qr)
           y == Both(StampSend(w, t, k), t, r, k)
           v == Wake([y EXCEPT !.ch[k].qr = <<>>], r)
           z == StampRecv(v, r, k)
           c == [z EXCEPT !.ch[k].recvid = @ + 1, !.ch[k].sendid = @ + 1]
           s == StampSend(w, t, k)
<1>1. fsend(x, t, k, m) =
        IF w.ch[k].qr # <<>> THEN Sent(Received(Done(c, t), r, k, m), t, k, m)
        ELSE IF Distance(w.ch[k]) = job.slack[k]
        THEN Block(DO_SELECTION([w EXCEPT !.ch[k].qs = <<t>>], k), t, "sending")
        ELSE Sent(Done([s EXCEPT !.ch[k].sendid = @ + 1], t), t, k, m)
  BY DEF fsend
<1>2. Mid(x, x, {t}) BY CallMid
<1>3. Mid(x, w, {t}) /\ Shaped(w)
  <2>1. Calm(x, w) BY <1>2, MidShaped, CalmSteps
  <2> QED BY <1>2, <2>1, MidChain, MidShaped
<1> HIDE DEF w, r, y, v, z, c, s
<1>4. CASE w.ch[k].qr # <<>>
  <2>1. Mid(x, s, {t}) /\ Shaped(s) /\ s.ch[k].qr = w.ch[k].qr
    <3>1. Calm(w, s) BY <1>3, CalmStamps DEF s
    <3>2. s.ch[k].qr = w.ch[k].qr BY <3>1, CalmQueues
    <3> QED BY <1>3, <3>1, <3>2, MidChain
  <2>2. Mid(x, y, {t}) /\ y.ch[k].qr = w.ch[k].qr
    <3>1. y = Both(s, t, r, k) BY DEF y, s
    <3>2. Calm(s, y) BY <2>1, <3>1, CalmSteps
    <3>3. y.ch[k].qr = s.ch[k].qr BY <3>2, CalmQueues
    <3>4. Mid(x, y, {t}) BY <2>1, <3>2, MidChain
    <3> QED BY <2>1, <3>3, <3>4
  <2>3. Mid(x, v, {t}) /\ Shaped(v)
    <3>1. Mid(x, v, {t}) BY <1>4, <2>2, MidRelease DEF v, r, Calls
    <3> QED BY <3>1, MidShaped
  <2>4. Mid(x, z, {t}) /\ Shaped(z) BY <2>3, CalmStamps, MidChain, MidShaped DEF z
  <2>5. Mid(x, c, {t}) BY <2>4, CalmBothCounts, MidChain DEF c
  <2>6. Steps(x, Sent(Received(Done(c, t), r, k, m), t, k, m), t) BY <2>5, GotSteps
  <2> QED BY <1>1, <1>4, <2>6
<1>5. CASE w.ch[k].qr = <<>> /\ Distance(w.ch[k]) = job.slack[k]
  <2>1. Steps(x, Block(DO_SELECTION([w EXCEPT !.ch[k].qs = <<t>>], k), t, "sending"), t) BY <1>3, SendWaits
  <2> QED BY <1>1, <1>5, <2>1
<1>6. CASE w.ch[k].qr = <<>> /\ Distance(w.ch[k]) # job.slack[k]
  <2>1. Mid(x, s, {t}) /\ Shaped(s) BY <1>3, CalmStamps, MidChain, MidShaped DEF s
  <2>2. Mid(x, [s EXCEPT !.ch[k].sendid = @ + 1], {t}) BY <2>1, CalmBothCounts, MidChain
  <2>3. Steps(x, Sent(Done([s EXCEPT !.ch[k].sendid = @ + 1], t), t, k, m), t) BY <2>2, SentSteps
  <2> QED BY <1>1, <1>6, <2>3
<1> QED BY <1>4, <1>5, <1>6

LEMMA FrecvSteps ==
  ASSUME NEW x, NEW t, Calls(x, t), InCall(x, t), NEW k \in Channel, Receives(job.prog, t, k)
  PROVE  Steps(x, frecv(x, t, k), t)
<1> DEFINE m == x.ch[k].msgbuf[recvslot(x, k)]
           u == Head(x.ch[k].qs)
           s == StampRecv(x, t, k)
           y == Both(s, t, u, k)
           p == [y EXCEPT !.ch[k].qs = <<>>]
           o == [p EXCEPT !.ch[k].recvid = @ + 1]
           z == Wake([y EXCEPT !.ch[k].qs = <<>>, !.ch[k].recvid = @ + 1], u)
           v == StampSend(z, u, k)
           c == [v EXCEPT !.ch[k].sendid = @ + 1]
           b == v.ch[k].msgbuf[sendslot(v, k)]
<1>1. frecv(x, t, k) =
        IF x.ch[k].qs # <<>> THEN Sent(Received(Done(c, t), t, k, m), u, k, b)
        ELSE IF x.ch[k].sendid = x.ch[k].recvid
        THEN Block(DO_SELECTION([x EXCEPT !.ch[k].qr = <<t>>], k), t, "receiving")
        ELSE Received(Done([s EXCEPT !.ch[k].recvid = @ + 1], t), t, k, m)
  BY DEF frecv
<1>2. Mid(x, x, {t}) /\ Shaped(x) BY CallMid, MidShaped
<1>3. Mid(x, s, {t}) /\ Shaped(s) /\ s.ch[k].qs = x.ch[k].qs BY <1>2, CalmStamps, MidCalm, MidShaped
<1>9. z = Wake(o, u)
  <2> HIDE DEF y, u
  <2> QED OBVIOUS
<1> HIDE DEF m, u, s, y, p, o, z, v, c, b
<1>4. CASE x.ch[k].qs # <<>>
  <2>1. Mid(x, y, {t}) /\ Shaped(y) /\ y.ch[k].qs = x.ch[k].qs
    <3>1. Calm(s, y) BY <1>3, CalmSteps DEF y
    <3>2. y.ch[k].qs = s.ch[k].qs BY <3>1, CalmQueues
    <3>3. Mid(x, y, {t}) /\ Shaped(y) BY <1>3, <3>1, MidChain
    <3> QED BY <1>3, <3>2, <3>3
  <2>2. u \in Thread \ {t} /\ Mid(x, p, {t} \cup {u}) /\ Shaped(p)
    <3>1. job \in Scenarios /\ Held(y, {t}) /\ y.ch[k].qs # <<>> /\ u = Head(y.ch[k].qs)
      BY <1>4, <2>1 DEF u, Calls, Mid
    <3>2. u \in Thread \ {t} /\ Held(p, {t} \cup {u}) /\ Near(y, p) BY <3>1, PopHeld DEF p
    <3> QED BY <2>1, <3>2, NearTrans, HeldShaped DEF Mid
  <2>3. Mid(x, z, {t}) /\ Shaped(z)
    <3>1. Calm(p, o) BY <2>2, CalmBothCounts DEF o
    <3>2. Mid(x, o, {t} \cup {u}) BY <2>2, <3>1, MidChain
    <3>3. ({t} \cup {u}) \ {u} = {t} BY <2>2
    <3>4. Mid(x, z, {t}) BY <1>9, <3>2, <3>3, MidWake
    <3> QED BY <3>4, MidShaped
  <2>4. Mid(x, v, {t}) /\ Shaped(v) BY <2>3, CalmStamps, MidChain, MidShaped DEF v
  <2>5. Mid(x, c, {t}) BY <2>4, CalmBothCounts, MidChain DEF c
  <2>6. Steps(x, Sent(Received(Done(c, t), t, k, m), u, k, b), t) BY <2>5, GotSteps
  <2> QED BY <1>1, <1>4, <2>6
<1>5. CASE x.ch[k].qs = <<>> /\ x.ch[k].sendid = x.ch[k].recvid
  <2>1. Steps(x, Block(DO_SELECTION([x EXCEPT !.ch[k].qr = <<t>>], k), t, "receiving"), t) BY <1>2, RecvWaits
  <2> QED BY <1>1, <1>5, <2>1
<1>6. CASE x.ch[k].qs = <<>> /\ x.ch[k].sendid # x.ch[k].recvid
  <2>1. Mid(x, [s EXCEPT !.ch[k].recvid = @ + 1], {t}) BY <1>3, CalmBothCounts, MidChain
  <2>2. Steps(x, Received(Done([s EXCEPT !.ch[k].recvid = @ + 1], t), t, k, m), t) BY <2>1, GotSteps
  <2> QED BY <1>1, <1>6, <2>2
<1> QED BY <1>4, <1>5, <1>6

----------------------------------------------------------------------------
(* The traced channels.                                                    *)

LEMMA TsendSteps ==
  ASSUME NEW x, NEW t, Calls(x, t), InCall(x, t), NEW k \in Channel, Sends(job.prog, t, k), NEW m
  PROVE  Steps(x, tsend(x, t, k, m), t)
<1> DEFINE w == Fill(x, k, m)
           s == StampSend(w, t, k)
           y == Both(s, t, Head(w.ch[k].qr), k)
           z == Release(y, k, "qr")
           c == Release(CountSend(s, k), k, "qr")
<1>1. tsend(x, t, k, m) =
        IF w.ch[k].qr # <<>> THEN Block([z EXCEPT !.ch[k].qs = Append(@, t)], t, "passed")
        ELSE IF Distance(w.ch[k]) = job.slack[k]
        THEN Block(DO_SELECTION([w EXCEPT !.ch[k].qs = <<t>>], k), t, "full")
        ELSE Sent(Done(c, t), t, k, m)
  BY DEF tsend, Wait
<1>2. Mid(x, x, {t}) /\ Shaped(x) /\ job \in Scenarios BY CallMid, MidShaped DEF Calls
<1>3. Mid(x, w, {t}) /\ Shaped(w)
  <2>1. Calm(x, w) BY <1>2, CalmSteps
  <2> QED BY <1>2, <2>1, MidChain
<1> HIDE DEF w
<1>4. Mid(x, s, {t}) /\ Shaped(s)
  <2>1. Calm(w, s) BY <1>3, CalmStamps
  <2> QED BY <1>3, <2>1, MidChain
<1> HIDE DEF s
<1>5. Steps(x, Block([z EXCEPT !.ch[k].qs = Append(@, t)], t, "passed"), t)
  <2>1. Calm(s, y) BY <1>4, CalmSteps
  <2>2. Mid(x, y, {t}) BY <1>4, <2>1, MidChain
  <2> HIDE DEF y
  <2>3. Mid(x, z, {t}) BY <1>2, <2>2, ReleaseMid
  <2> HIDE DEF z
  <2> QED BY <2>3, SendWaits
<1>6. Steps(x, Block(DO_SELECTION([w EXCEPT !.ch[k].qs = <<t>>], k), t, "full"), t) BY <1>3, SendWaits
<1>7. Steps(x, Sent(Done(c, t), t, k, m), t)
  <2>1. Calm(s, CountSend(s, k)) BY <1>4, CalmSteps
  <2>2. Mid(x, CountSend(s, k), {t}) BY <1>4, <2>1, MidChain
  <2>3. Mid(x, c, {t}) BY <1>2, <2>2, ReleaseMid
  <2> HIDE DEF c
  <2> QED BY <2>3, SentSteps
<1> QED BY <1>1, <1>5, <1>6, <1>7

LEMMA TsendBackSteps ==
  ASSUME NEW x, NEW t, Calls(x, t), InCall(x, t), NEW k \in Channel, Sends(job.prog, t, k), NEW m
  PROVE  Steps(x, tsend_back(x, t, k, m), t)
<1> DEFINE a == Release(CountSend(x, k), k, "qr")
           s == StampSend(x, t, k)
           y == CountSend(s, k)
           z == Release(y, k, "qr")
<1>1. tsend_back(x, t, k, m) =
        IF x.phase[t] = "passed" THEN Sent(Done(a, t), t, k, m)
        ELSE IF x.phase[t] = "full"
        THEN IF y.ch[k].qr = <<>> THEN Sent(Done(y, t), t, k, m)
             ELSE Block([z EXCEPT !.ch[k].qs = Append(@, t)], t, "last")
        ELSE Sent(Done(x, t), t, k, m)
  BY DEF tsend_back, Wait
<1>2. Mid(x, x, {t}) /\ Shaped(x) /\ job \in Scenarios BY CallMid, MidShaped DEF Calls
<1>3. Mid(x, a, {t})
  <2>1. Calm(x, CountSend(x, k)) BY <1>2, CalmSteps
  <2>2. Mid(x, CountSend(x, k), {t}) BY <1>2, <2>1, MidChain
  <2> QED BY <1>2, <2>2, ReleaseMid
<1>4. Mid(x, y, {t})
  <2>1. Calm(x, s) BY <1>2, CalmStamps
  <2>2. Mid(x, s, {t}) /\ Shaped(s) BY <1>2, <2>1, MidChain
  <2> HIDE DEF s
  <2>3. Calm(s, y) BY <2>2, CalmSteps
  <2> QED BY <2>2, <2>3, MidChain
<1> HIDE DEF a, y
<1>5. Mid(x, z, {t}) BY <1>2, <1>4, ReleaseMid
<1> HIDE DEF z
<1>6. Steps(x, Sent(Done(a, t), t, k, m), t) BY <1>3, SentSteps
<1>7. Steps(x, Sent(Done(y, t), t, k, m), t) BY <1>4, SentSteps
<1>8. Steps(x, Sent(Done(x, t), t, k, m), t) BY <1>2, SentSteps
<1>9. Steps(x, Block([z EXCEPT !.ch[k].qs = Append(@, t)], t, "last"), t) BY <1>5, SendWaits
<1> QED BY <1>1, <1>6, <1>7, <1>8, <1>9

\* A call that has received is over.
LEMMA DoneOnly ==
  ASSUME NEW x, NEW t, Calls(x, t), NEW w, Mid(x, w, {t})
  PROVE  Steps(x, Done(w, t), t)
BY DoneSteps DEF Steps

LEMMA TrecvSteps ==
  ASSUME NEW x, NEW t, Calls(x, t), InCall(x, t), NEW k \in Channel, Receives(job.prog, t, k)
  PROVE  Steps(x, trecv(x, t, k), t)
<1> DEFINE s == StampRecv(x, t, k)
           y == Both(s, t, Head(x.ch[k].qs), k)
           z == Release(y, k, "qs")
           g == CountRecv(s, t, k, recvslot(x, k))
           c == Release(g, k, "qs")
<1>1. trecv(x, t, k) =
        IF x.ch[k].qs # <<>> THEN Block([z EXCEPT !.ch[k].qr = Append(@, t)], t, "taken")
        ELSE IF x.ch[k].sendid = x.ch[k].recvid
        THEN Block(DO_SELECTION([x EXCEPT !.ch[k].qr = <<t>>], k), t, "empty")
        ELSE Done(c, t)
  BY DEF trecv, Wait
<1>2. Mid(x, x, {t}) /\ Shaped(x) /\ job \in Scenarios BY CallMid, MidShaped DEF Calls
<1>4. Mid(x, s, {t}) /\ Shaped(s)
  <2>1. Calm(x, s) BY <1>2, CalmStamps
  <2> QED BY <1>2, <2>1, MidChain
<1> HIDE DEF s
<1>5. Steps(x, Block([z EXCEPT !.ch[k].qr = Append(@, t)], t, "taken"), t)
  <2>1. Calm(s, y) BY <1>4, CalmSteps
  <2>2. Mid(x, y, {t}) BY <1>4, <2>1, MidChain
  <2> HIDE DEF y
  <2>3. Mid(x, z, {t}) BY <1>2, <2>2, ReleaseMid
  <2> HIDE DEF z
  <2> QED BY <2>3, RecvWaits
<1>6. Steps(x, Block(DO_SELECTION([x EXCEPT !.ch[k].qr = <<t>>], k), t, "empty"), t) BY <1>2, RecvWaits
<1>7. Steps(x, Done(c, t), t)
  <2>1. Calm(s, g) BY <1>4, CalmStamps
  <2>2. Mid(x, g, {t}) BY <1>4, <2>1, MidChain
  <2> HIDE DEF g
  <2>3. Mid(x, c, {t}) BY <1>2, <2>2, ReleaseMid
  <2> HIDE DEF c
  <2> QED BY <2>3, DoneOnly
<1> QED BY <1>1, <1>5, <1>6, <1>7

LEMMA TrecvBackSteps ==
  ASSUME NEW x, NEW t, Calls(x, t), InCall(x, t), NEW k \in Channel, Receives(job.prog, t, k)
  PROVE  Steps(x, trecv_back(x, t, k), t)
<1> DEFINE g == CountRecv(x, t, k, recvslot(x, k))
           a == Release(g, k, "qs")
           s == StampRecv(x, t, k)
           y == CountRecv(s, t, k, recvslot(x, k))
           z == Release(y, k, "qs")
<1>1. trecv_back(x, t, k) =
        IF x.phase[t] = "taken" THEN Done(a, t)
        ELSE IF x.phase[t] = "empty"
        THEN IF y.ch[k].qs = <<>> THEN Done(y, t)
             ELSE Block([z EXCEPT !.ch[k].qr = Append(@, t)], t, "last")
        ELSE Done(x, t)
  BY DEF trecv_back, Wait
<1>2. Mid(x, x, {t}) /\ Shaped(x) /\ job \in Scenarios BY CallMid, MidShaped DEF Calls
<1>3. Mid(x, a, {t})
  <2>1. Calm(x, g) BY <1>2, CalmStamps
  <2>2. Mid(x, g, {t}) BY <1>2, <2>1, MidChain
  <2> HIDE DEF g
  <2> QED BY <1>2, <2>2, ReleaseMid
<1>4. Mid(x, y, {t})
  <2>1. Calm(x, s) BY <1>2, CalmStamps
  <2>2. Mid(x, s, {t}) /\ Shaped(s) BY <1>2, <2>1, MidChain
  <2> HIDE DEF s
  <2>3. Calm(s, y) BY <2>2, CalmStamps
  <2> QED BY <2>2, <2>3, MidChain
<1> HIDE DEF a, y
<1>5. Mid(x, z, {t}) BY <1>2, <1>4, ReleaseMid
<1> HIDE DEF z
<1>6. Steps(x, Done(a, t), t) BY <1>3, DoneOnly
<1>7. Steps(x, Done(y, t), t) BY <1>4, DoneOnly
<1>8. Steps(x, Done(x, t), t) BY <1>2, DoneOnly
<1>9. Steps(x, Block([z EXCEPT !.ch[k].qr = Append(@, t)], t, "last"), t) BY <1>5, RecvWaits
<1> QED BY <1>1, <1>6, <1>7, <1>8, <1>9

----------------------------------------------------------------------------
(* Selections.                                                             *)

LEMMA RemoveFacts == ASSUME NEW T, NEW q \in Seq(T), NEW e PROVE RemoveFirst(q, e) \in Seq(T)
<1> DEFINE I == {i \in 1..Len(q) : q[i] = e}
<1> SUFFICES ASSUME I # {} PROVE RemoveFirst(q, e) \in Seq(T) BY DEF RemoveFirst
<1>1. RemoveFirst(q, e) = RemoveAt(q, SelectInSeq(q, LAMBDA v : v = e)) BY DEF RemoveFirst
<1>2. SelectInSeq(q, LAMBDA v : v = e) = Min(I) BY DEF SelectInSeq
<1>3. I \subseteq 1..Len(q) /\ Len(q) \in Nat OBVIOUS
<1> HIDE DEF I
<1>4. \E m \in I : \A n \in I : m <= n BY <1>3, LeastExists
<1>5. Min(I) \in 1..Len(q)
  <2> DEFINE m == CHOOSE x \in I : \A y \in I : x <= y
  <2>1. m \in I BY <1>4
  <2>2. Min(I) = m BY DEF Min
  <2> QED BY <1>3, <2>1, <2>2
<1> DEFINE m == Min(I)
<1> HIDE DEF m
<1>6. m \in 1..Len(q) BY <1>5 DEF m
<1>7. SubSeq(q, 1, m - 1) \in Seq(T) BY <1>6
<1>8. SubSeq(q, m + 1, Len(q)) \in Seq(T) BY <1>6
<1>9. RemoveAt(q, m) \in Seq(T) BY <1>7, <1>8, ConcatFacts DEF RemoveAt
<1> QED BY <1>1, <1>2, <1>9 DEF m

\* What a look at the guards of a selection changes: t is in no selection.
Looks(x, w, t) == /\ Held(w, {t}) /\ w.susp = [x.susp EXCEPT ![t] = FALSE] /\ w.at = x.at /\ w.phase = x.phase
                  /\ w.cur = x.cur /\ w.over = x.over /\ w.terminated = x.terminated
                  /\ \A u \in Thread : u # t => w.pick[u] = x.pick[u]

LEMMA ClearLooks ==
  ASSUME NEW x, NEW t \in Thread, Held(x, {t})
  PROVE  Looks(x, ch_clearsel(x, t), t) /\ ch_clearsel(x, t).pick[t] = ""
<1> DEFINE c == [k \in Channel |-> [x.ch[k] EXCEPT !.ss = RemoveFirst(@, t)]]
           y == ch_clearsel(x, t)
<1>1. PICK q, loc : Core(x, {t}, q, loc) BY DEF Held
<1>2. ASSUME NEW k \in Channel
      PROVE  DOMAIN c[k] = ChFields /\ c[k].ss \in Seq(Thread) /\ c[k].qs = x.ch[k].qs /\ c[k].qr = x.ch[k].qr
  <2>1. DOMAIN x.ch[k] = ChFields /\ x.ch[k].ss \in Seq(Thread) BY <1>1 DEF Core, Shaped
  <2>2. RemoveFirst(x.ch[k].ss, t) \in Seq(Thread) BY <2>1, RemoveFacts
  <2> QED BY <2>1, <2>2 DEF ChFields
<1>3. DOMAIN c = Channel OBVIOUS
<1>4. y = [x EXCEPT !.ch = c, !.susp[t] = FALSE, !.pick[t] = ""] BY DEF ch_clearsel
<1> HIDE DEF c
<1>5. /\ DOMAIN y = Fields /\ y.ch = c /\ y.susp = [x.susp EXCEPT ![t] = FALSE] /\ y.pick = [x.pick EXCEPT ![t] = ""]
      /\ y.mutex = x.mutex /\ y.count = x.count /\ y.cond = x.cond /\ y.freed = x.freed /\ y.terminated = x.terminated
      /\ y.ready = x.ready /\ y.cur = x.cur /\ y.over = x.over /\ y.inq = x.inq /\ y.at = x.at /\ y.phase = x.phase
  BY <1>1, <1>4 DEF Core, Shaped, Fields
<1> HIDE DEF y
<1>12. Shaped(x) /\ Has(x, q) BY <1>1 DEF Core
<1>13. /\ DOMAIN y.ch = Channel
       /\ \A k \in Channel : /\ DOMAIN y.ch[k] = ChFields /\ y.ch[k].ss \in Seq(Thread)
                             /\ y.ch[k].qs = x.ch[k].qs /\ y.ch[k].qr = x.ch[k].qr
  BY <1>2, <1>3, <1>5
<1>6. Shaped(y)
  <2>0. x.susp \in [Thread -> BOOLEAN] /\ DOMAIN x.pick = Thread BY <1>12 DEF Shaped
  <2>1. y.susp \in [Thread -> BOOLEAN]
    <3>1. y.susp = [x.susp EXCEPT ![t] = FALSE] BY <1>5
    <3> QED BY <2>0, <3>1
  <2>2. DOMAIN y.pick = Thread
    <3>1. y.pick = [x.pick EXCEPT ![t] = ""] BY <1>5
    <3> QED BY <2>0, <3>1
  <2> QED BY <1>5, <1>12, <1>13, <2>1, <2>2 DEF Shaped
<1>7. Has(y, q)
  <2>1. Lists(x, y) BY <1>5, <1>13 DEF Lists
  <2> QED BY <1>12, <2>1 DEF Has, Lists
<1>8. loc[t] = Run /\ y.susp[t] = FALSE /\ \A u \in Thread : u # t => y.susp[u] = x.susp[u]
  BY <1>1, <1>5 DEF Core, Shaped
<1>9. Marked(y, loc) BY <1>1, <1>5, <1>8, NamesDiffer DEF Core, Marked
<1>10. Held(y, {t}) BY <1>1, <1>6, <1>7, <1>9 DEF Core, Held
<1>11. y.pick[t] = "" /\ \A u \in Thread : u # t => y.pick[u] = x.pick[u] BY <1>1, <1>5 DEF Core, Shaped
<1> QED BY <1>5, <1>10, <1>11 DEF Looks, y

\* A guard holds: the channel is chosen.
Picks(x, y, t, k) == /\ Settled(y) /\ y.at = [x.at EXCEPT ![t] = @ + 1] /\ y.phase = [x.phase EXCEPT ![t] = ""]
                     /\ y.susp = [x.susp EXCEPT ![t] = FALSE] /\ y.pick[t] = k
                     /\ \A u \in Thread : u # t => y.pick[u] = x.pick[u]

LEMMA PickSteps ==
  ASSUME NEW x, NEW t \in Thread, Settled(x), x.cur = t, NEW w, Looks(x, w, t), NEW k,
         NEW y, y = Done(ch_selectprobe(w, t, k), t)
  PROVE  Picks(x, y, t, k)
<1> DEFINE p == ch_selectprobe(w, t, k)
           since == IF w.ch[k].sendid = w.ch[k].recvid THEN w.time[Head(w.ch[k].qs)] ELSE w.ch[k].tm[recvslot(w, k)]
<1>1. Shaped(w) BY HeldShaped DEF Looks
<1>0. y = Done(p, t) OBVIOUS
<1>2. p = [w EXCEPT !.time[t] = time_max(@, since), !.pick[t] = k] BY DEF ch_selectprobe
<1> HIDE DEF since
<1>3. /\ DOMAIN p = Fields /\ p.ch = w.ch /\ p.susp = w.susp /\ p.pick = [w.pick EXCEPT ![t] = k]
      /\ p.mutex = w.mutex /\ p.count = w.count /\ p.cond = w.cond /\ p.freed = w.freed /\ p.terminated = w.terminated
      /\ p.ready = w.ready /\ p.cur = w.cur /\ p.over = w.over /\ p.inq = w.inq /\ p.at = w.at /\ p.phase = w.phase
  BY <1>1, <1>2 DEF Shaped, Fields
<1> HIDE DEF p
<1>4. /\ DOMAIN y = Fields /\ y.at = [p.at EXCEPT ![t] = @ + 1] /\ y.phase = [p.phase EXCEPT ![t] = ""]
      /\ \A f \in Fields \ {"at", "phase"} : y[f] = p[f]
  BY <1>0, <1>3 DEF Done, Fields
<1>5. /\ y.ch = p.ch /\ y.mutex = p.mutex /\ y.count = p.count /\ y.susp = p.susp /\ y.pick = p.pick
      /\ y.cond = p.cond /\ y.freed = p.freed /\ y.terminated = p.terminated /\ y.ready = p.ready
      /\ y.cur = p.cur /\ y.over = p.over /\ y.inq = p.inq
  BY <1>4 DEF Fields
<1>6. Shaped(y)
  <2>0. DOMAIN w.pick = Thread /\ DOMAIN w.at = Thread /\ DOMAIN w.phase = Thread BY <1>1 DEF Shaped
  <2>1. DOMAIN y.pick = Thread /\ DOMAIN y.at = Thread /\ DOMAIN y.phase = Thread
    <3>1. y.pick = [w.pick EXCEPT ![t] = k] BY <1>3, <1>5
    <3>2. y.at = [w.at EXCEPT ![t] = @ + 1] BY <1>3, <1>4
    <3>3. y.phase = [w.phase EXCEPT ![t] = ""] BY <1>3, <1>4
    <3> QED BY <2>0, <3>1, <3>2, <3>3
  <2>2. y.ch = w.ch /\ y.mutex = w.mutex /\ y.count = w.count /\ y.inq = w.inq /\ y.susp = w.susp BY <1>3, <1>5
  <2> QED BY <1>1, <1>4, <2>1, <2>2 DEF Shaped
<1>7. Lists(w, y) /\ y.inq = w.inq /\ y.susp = w.susp /\ y.freed \cup y.terminated = w.freed \cup w.terminated
  BY <1>3, <1>5 DEF Lists
<1>8. Held(w, {t}) BY DEF Looks
<1>9. Held(y, {t}) BY <1>6, <1>7, <1>8, QuietHeld
<1>10. Settled(y) BY <1>3, <1>5, <1>9 DEF Settled, Looks
<1>11. y.pick[t] = k /\ \A u \in Thread : u # t => y.pick[u] = w.pick[u] BY <1>1, <1>3, <1>5 DEF Shaped
<1>12. /\ y.at = [w.at EXCEPT ![t] = @ + 1] /\ y.phase = [w.phase EXCEPT ![t] = ""] /\ y.susp = w.susp
  BY <1>3, <1>4, <1>5
<1>13. /\ w.at = x.at /\ w.phase = x.phase /\ w.susp = [x.susp EXCEPT ![t] = FALSE]
       /\ \A u \in Thread : u # t => w.pick[u] = x.pick[u]
  BY DEF Looks
<1>14. /\ y.at = [x.at EXCEPT ![t] = @ + 1] /\ y.phase = [x.phase EXCEPT ![t] = ""]
       /\ y.susp = [x.susp EXCEPT ![t] = FALSE] /\ \A u \in Thread : u # t => y.pick[u] = x.pick[u]
  BY <1>11, <1>12, <1>13
<1> QED BY <1>10, <1>11, <1>14 DEF Picks

\* None does: t is in the selections of the channels, on no queue.
LEMMA WaitSteps ==
  ASSUME NEW x, NEW t \in Thread, Settled(x), x.cur = t, NEW w, Looks(x, w, t), NEW ks,
         NEW y, y = Switch([ch_linksel(w, t, ks) EXCEPT !.susp[t] = TRUE])
  PROVE  /\ Ended(y) \/ Settled(y)
         /\ y.at = x.at /\ y.phase = x.phase /\ y.susp = [x.susp EXCEPT ![t] = TRUE]
         /\ \A u \in Thread : u # t => y.pick[u] = x.pick[u]
<1> DEFINE c == [k \in Channel |-> IF k \in ks THEN [w.ch[k] EXCEPT !.ss = Append(@, t)] ELSE w.ch[k]]
           v == [ch_linksel(w, t, ks) EXCEPT !.susp[t] = TRUE]
<1>0. y = Switch(v) OBVIOUS
<1>1. PICK q, loc : Core(w, {t}, q, loc) BY DEF Held, Looks
<1>2. ASSUME NEW k \in Channel
      PROVE  DOMAIN c[k] = ChFields /\ c[k].ss \in Seq(Thread) /\ c[k].qs = w.ch[k].qs /\ c[k].qr = w.ch[k].qr
  <2>1. DOMAIN w.ch[k] = ChFields /\ w.ch[k].ss \in Seq(Thread) BY <1>1 DEF Core, Shaped
  <2>2. Append(w.ch[k].ss, t) \in Seq(Thread) BY <2>1, AppendFacts
  <2> QED BY <2>1, <2>2 DEF ChFields
<1>3. DOMAIN c = Channel OBVIOUS
<1>4. v = [[w EXCEPT !.ch = c] EXCEPT !.susp[t] = TRUE] BY DEF ch_linksel
<1> HIDE DEF c
<1>5. /\ DOMAIN v = Fields /\ v.ch = c /\ v.susp = [w.susp EXCEPT ![t] = TRUE] /\ v.pick = w.pick
      /\ v.mutex = w.mutex /\ v.count = w.count /\ v.cond = w.cond /\ v.freed = w.freed /\ v.terminated = w.terminated
      /\ v.ready = w.ready /\ v.cur = w.cur /\ v.over = w.over /\ v.inq = w.inq /\ v.at = w.at /\ v.phase = w.phase
  BY <1>1, <1>4 DEF Core, Shaped, Fields
<1> HIDE DEF v
<1> DEFINE l == [loc EXCEPT ![t] = Chosen]
<1>6. Shaped(v) BY <1>1, <1>2, <1>3, <1>5 DEF Core, Shaped
<1>7. Has(v, q) BY <1>1, <1>2, <1>5 DEF Core, Has
<1>8. loc[t] = Run /\ v.susp[t] = TRUE /\ \A u \in Thread : u # t => v.susp[u] = w.susp[u]
  BY <1>1, <1>5 DEF Core, Shaped
<1>9. l[t] = Chosen /\ \A u \in Thread : u # t => l[u] = loc[u] BY <1>1 DEF Core, Fits
<1>10. Fits(q, l) BY <1>1, <1>8, Elsewhere, NamesDiffer DEF Core
<1> HIDE DEF l
<1>11. Marked(v, l) BY <1>1, <1>5, <1>8, <1>9, NamesDiffer DEF Core, Marked
<1>12. {} = {u \in Thread : l[u] = Run} BY <1>1, <1>9, NamesDiffer DEF Core
<1>13. Held(v, {}) BY <1>6, <1>7, <1>10, <1>11, <1>12 DEF Core, Held
<1>14. ~v.over BY <1>5 DEF Looks, Settled
<1>15. Ctl(v, y) /\ (Ended(y) \/ Settled(y)) BY <1>0, <1>13, <1>14, SwitchHeld
<1>16. v.susp = [x.susp EXCEPT ![t] = TRUE]
  <2>1. DOMAIN x.susp = Thread BY HeldShaped DEF Settled, Shaped
  <2> QED BY <1>5, <2>1 DEF Looks
<1>17. /\ y.at = x.at /\ y.phase = x.phase /\ y.susp = [x.susp EXCEPT ![t] = TRUE]
       /\ \A u \in Thread : u # t => y.pick[u] = x.pick[u]
  <2>1. y.at = v.at /\ y.phase = v.phase /\ y.pick = v.pick /\ y.susp = v.susp BY <1>15 DEF Ctl
  <2>2. v.at = w.at /\ v.phase = w.phase /\ v.pick = w.pick BY <1>5
  <2>3. w.at = x.at /\ w.phase = x.phase /\ \A u \in Thread : u # t => w.pick[u] = x.pick[u] BY DEF Looks
  <2>4. y.at = x.at BY <2>1, <2>2, <2>3
  <2>5. y.phase = x.phase BY <2>1, <2>2, <2>3
  <2>6. y.susp = [x.susp EXCEPT ![t] = TRUE] BY <1>16, <2>1
  <2>7. \A u \in Thread : u # t => y.pick[u] = x.pick[u] BY <2>1, <2>2, <2>3
  <2> QED BY <2>4, <2>5, <2>6, <2>7
<1> QED BY <1>15, <1>17

----------------------------------------------------------------------------
(* The other calls.                                                        *)

LEMMA CalmBusy ==
  ASSUME NEW x, Shaped(x), NEW v
  PROVE  Calm(x, [x EXCEPT !.mutex.busy = v]) /\ Calm(x, [x EXCEPT !.count.n = v])
<1>1. ASSUME NEW y, y = [x EXCEPT !.mutex.busy = v] \/ y = [x EXCEPT !.count.n = v] PROVE Calm(x, y)
  <2>1. /\ DOMAIN y = Fields /\ DOMAIN y.mutex = {"busy", "q"} /\ DOMAIN y.count = {"n", "q"}
        /\ y.ch = x.ch /\ y.mutex.q = x.mutex.q /\ y.count.q = x.count.q
        /\ y.ready = x.ready /\ y.cond = x.cond /\ y.inq = x.inq /\ y.freed = x.freed /\ Near(x, y)
    <3>1. CASE y = [x EXCEPT !.mutex.busy = v] BY <3>1 DEF Shaped, Fields, Near, Ctl
    <3>2. CASE y = [x EXCEPT !.count.n = v] BY <3>2 DEF Shaped, Fields, Near, Ctl
    <3> QED BY <1>1, <3>1, <3>2
  <2> QED BY <2>1 DEF Calm, Quiet, Shaped, Near, Ctl, Lists
<1> QED BY <1>1

LEMMA UnlockMid ==
  ASSUME NEW x, NEW w, NEW R, Mid(x, w, R)
  PROVE  Mid(x, mutex_unlock_safe(w), R)
<1> DEFINE y == [w EXCEPT !.mutex.busy = FALSE]
           u == Head(w.mutex.q)
           p == [y EXCEPT !.mutex.q = Tail(@)]
<1>1. mutex_unlock_safe(w) = IF w.mutex.q = <<>> THEN y ELSE Wake(p, u) BY DEF mutex_unlock_safe
<1>2. Calm(w, y) BY MidShaped, CalmBusy
<1> HIDE DEF y
<1>3. Mid(x, y, R) /\ y.mutex.q = w.mutex.q BY <1>2, MidChain DEF Calm, Quiet, Lists
<1>4. ASSUME w.mutex.q # <<>> PROVE Mid(x, Wake(p, u), R)
  <2>1. u \in Thread \ R /\ Held(p, R \cup {u}) /\ Near(y, p) BY <1>3, <1>4, MutexPop DEF Mid
  <2> HIDE DEF p, u
  <2>2. Mid(x, p, R \cup {u}) BY <1>3, <2>1, NearTrans DEF Mid
  <2>3. (R \cup {u}) \ {u} = R BY <2>1
  <2> QED BY <2>2, <2>3, MidWake
<1> QED BY <1>1, <1>3, <1>4

\* The program ends, exit (1).
LEMMA ExitsSteps ==
  ASSUME NEW x, NEW t, Calls(x, t)
  PROVE  Steps(x, [x EXCEPT !.over = TRUE, !.cur = NoThread], t)
<1>1. DOMAIN x = Fields BY CallMid, MidShaped DEF Shaped
<1>2. Ended([x EXCEPT !.over = TRUE, !.cur = NoThread]) BY <1>1 DEF Ended, Fields
<1> QED BY <1>2 DEF Steps

LEMMA LockSteps ==
  ASSUME NEW x, NEW t, Calls(x, t)
  PROVE  Steps(x, mutex_lock(x, t), t)
<1> DEFINE p == [x EXCEPT !.mutex.q = Append(@, t)]
           b == [x EXCEPT !.mutex.busy = TRUE]
<1>1. Mid(x, x, {t}) /\ Shaped(x) BY CallMid, MidShaped
<1>2. mutex_lock(x, t) = IF x.mutex.busy THEN Block(p, t, "locking") ELSE Done(b, t) BY DEF mutex_lock
<1>3. Held(p, {t} \ {t}) /\ Near(x, p) BY <1>1, MutexPush DEF Mid, Calls
<1>4. Calm(x, b) BY <1>1, CalmBusy
<1> HIDE DEF p, b
<1>5. Mid(x, p, {}) BY <1>3 DEF Mid
<1>6. Mid(x, b, {t}) BY <1>1, <1>4, MidChain
<1>7. Steps(x, Block(p, t, "locking"), t) BY <1>5, BlockSteps DEF Handover
<1>8. Steps(x, Done(b, t), t) BY <1>6, DoneOnly
<1> QED BY <1>2, <1>7, <1>8

LEMMA UnlockSteps ==
  ASSUME NEW x, NEW t, Calls(x, t)
  PROVE  Steps(x, mutex_unlock(x, t), t)
<1>1. Mid(x, mutex_unlock_safe(x), {t}) BY CallMid, UnlockMid
<1>2. Steps(x, Done(mutex_unlock_safe(x), t), t) BY <1>1, DoneOnly
<1> QED BY <1>2, ExitsSteps DEF mutex_unlock, Locked

LEMMA CondWaitSteps ==
  ASSUME NEW x, NEW t, Calls(x, t)
  PROVE  Steps(x, cond_wait(x, t), t)
<1> DEFINE w == mutex_unlock_safe(x)
           p == [w EXCEPT !.cond = Append(@, t)]
<1>1. cond_wait(x, t) = IF x.mutex.busy THEN Block(p, t, "waiting") ELSE [x EXCEPT !.over = TRUE, !.cur = NoThread]
  BY DEF cond_wait, Locked
<1>2. Mid(x, w, {t}) BY CallMid, UnlockMid
<1> HIDE DEF w
<1>3. ~w.susp[t] BY <1>2 DEF Calls, Mid, Near, Ctl
<1>4. Held(p, {t} \ {t}) /\ Near(w, p) BY <1>2, <1>3, CondPush DEF Mid
<1> HIDE DEF p
<1>5. Mid(x, p, {}) BY <1>2, <1>4, NearTrans DEF Mid
<1>6. Steps(x, Block(p, t, "waiting"), t) BY <1>5, BlockSteps DEF Handover
<1> QED BY <1>1, <1>6, ExitsSteps

LEMMA SignalSteps ==
  ASSUME NEW x, NEW t, Calls(x, t)
  PROVE  Steps(x, cond_signal(x, t), t)
<1> DEFINE u == Head(x.cond)
           p == [x EXCEPT !.cond = Tail(@)]
<1>1. cond_signal(x, t) = IF x.cond = <<>> THEN mutex_unlock(x, t) ELSE Done(Wake(p, u), t) BY DEF cond_signal
<1>2. Mid(x, x, {t}) BY CallMid
<1>3. ASSUME x.cond # <<>> PROVE Steps(x, Done(Wake(p, u), t), t)
  <2>1. u \in Thread \ {t} /\ Held(p, {t} \cup {u}) /\ Near(x, p) BY <1>2, <1>3, CondPop DEF Mid
  <2> HIDE DEF p, u
  <2>2. Mid(x, p, {t} \cup {u}) BY <2>1 DEF Mid
  <2>3. ({t} \cup {u}) \ {u} = {t} BY <2>1
  <2>4. Mid(x, Wake(p, u), {t}) BY <2>2, <2>3, MidWake
  <2> QED BY <2>4, DoneOnly
<1> QED BY <1>1, <1>3, UnlockSteps

LEMMA AwaitSteps ==
  ASSUME NEW x, NEW t, Calls(x, t), Awaits(job.prog, t), NEW v
  PROVE  Steps(x, count_await(x, t, v), t)
<1> DEFINE p == [x EXCEPT !.count.q = Append(@, <<t, v>>)]
<1>1. count_await(x, t, v) = IF x.count.n < v THEN Block(p, t, "awaiting") ELSE Done(x, t) BY DEF count_await
<1>2. Mid(x, x, {t}) BY CallMid
<1>3. Held(p, {t} \ {t}) /\ Near(x, p) BY <1>2, CountPush DEF Mid, Calls
<1> HIDE DEF p
<1>4. Mid(x, p, {}) BY <1>3 DEF Mid
<1>5. Steps(x, Block(p, t, "awaiting"), t) BY <1>4, BlockSteps DEF Handover
<1>6. Steps(x, Done(x, t), t) BY <1>2, DoneOnly
<1> QED BY <1>1, <1>5, <1>6

LEMMA IncrementSteps ==
  ASSUME NEW x, NEW t, Calls(x, t), NEW n
  PROVE  Steps(x, Done(count_increment(x, n), t), t)
<1> DEFINE y == [x EXCEPT !.count.n = @ + n]
           fits == {i \in 1..Len(y.count.q) : y.count.q[i][2] >= y.count.n}
           i == CHOOSE j \in fits : \A h \in fits : j <= h
           p == [y EXCEPT !.count.q = SubSeq(@, 1, i - 1)]
           u == y.count.q[i][1]
<1>1. count_increment(x, n) = IF n = 0 \/ fits = {} THEN y ELSE Wake(p, u) BY DEF count_increment
<1>2. Mid(x, x, {t}) /\ Shaped(x) BY CallMid, MidShaped
<1>3. Calm(x, y) BY <1>2, CalmBusy
<1>4. Mid(x, y, {t})
  <2> HIDE DEF y
  <2> QED BY <1>2, <1>3, MidChain
<1> HIDE DEF y
<1>5. ASSUME fits # {} PROVE Mid(x, Wake(p, u), {t})
  <2>1. y.count.q # <<>> BY <1>5
  <2> DEFINE e == [y EXCEPT !.count.q = <<>>]
  <2>2. /\ Len(y.count.q) = 1 /\ y.count.q[1][1] \in Thread \ {t}
        /\ Held(e, {t} \cup {y.count.q[1][1]}) /\ Near(y, e)
    BY <1>4, <2>1, CountPop DEF Mid
  <2>3. fits = {1} BY <1>5, <2>2
  <2> HIDE DEF fits
  <2>4. i = 1
    <3>1. \E j \in fits : \A h \in fits : j <= h BY <2>3
    <3>2. i \in fits BY <3>1
    <3> QED BY <2>3, <3>2
  <2>5. SubSeq(y.count.q, 1, 0) = <<>>
    <3>1. y.count.q # <<>> /\ \E q, loc : Has(y, q) BY <1>4, <2>1 DEF Mid, Held, Core
    <3>2. PICK a, b : y.count.q = <<<<a, b>>>> BY <3>1 DEF Has
    <3> QED BY <3>2
  <2>6. p = e
    <3>1. i - 1 = 0 BY <2>4
    <3> HIDE DEF i
    <3>2. p = [y EXCEPT !.count.q = SubSeq(y.count.q, 1, i - 1)] OBVIOUS
    <3> QED BY <2>5, <3>1, <3>2
  <2>7. u \in Thread \ {t} /\ Mid(x, p, {t} \cup {u})
    <3>1. u = y.count.q[1][1] BY <2>4
    <3> HIDE DEF u, p, e
    <3> QED BY <1>4, <2>2, <2>6, <3>1, NearTrans DEF Mid
  <2> HIDE DEF p, u
  <2>8. ({t} \cup {u}) \ {u} = {t} BY <2>7
  <2> QED BY <2>7, <2>8, MidWake
<1> HIDE DEF fits, p, u, i
<1>6. Mid(x, count_increment(x, n), {t}) BY <1>1, <1>4, <1>5
<1> QED BY <1>6, DoneOnly

LEMMA DelaySteps ==
  ASSUME NEW x, NEW t, Calls(x, t), NEW n
  PROVE  Steps(x, Done([x EXCEPT !.time[t] = @ + n], t), t)
<1> DEFINE w == [x EXCEPT !.time[t] = @ + n]
<1>1. Mid(x, x, {t}) /\ Shaped(x) BY CallMid, MidShaped
<1>2. Calm(x, w) BY <1>1, CalmField
<1> HIDE DEF w
<1>3. Mid(x, w, {t}) BY <1>1, <1>2, MidChain
<1>4. Steps(x, Done(w, t), t) BY <1>3, DoneOnly
<1> QED BY <1>4 DEF w

LEMMA LockedSteps ==
  ASSUME NEW x, NEW t, Calls(x, t)
  PROVE  Steps(x, Done([x EXCEPT !.mutex.busy = TRUE], t), t) /\ Steps(x, Done(x, t), t)
<1> DEFINE w == [x EXCEPT !.mutex.busy = TRUE]
<1>1. Mid(x, x, {t}) /\ Shaped(x) BY CallMid, MidShaped
<1>2. Calm(x, w) BY <1>1, CalmBusy
<1> HIDE DEF w
<1>3. Mid(x, w, {t}) BY <1>1, <1>2, MidChain
<1>4. Steps(x, Done(w, t), t) /\ Steps(x, Done(x, t), t) BY <1>1, <1>3, DoneOnly
<1> QED BY <1>4 DEF w

\* The thread that runs goes to the end of the ready queue: also from within
\* a selection.
LEMMA TimeoutSteps ==
  ASSUME NEW x, Settled(x)
  PROVE  LET y == context_timeout(x) IN Ctl(x, y) /\ (Ended(y) \/ Settled(y))
<1> DEFINE t == x.cur
           w == Wake(x, t)
           y == Switch(w)
<1>1. Held(x, {t}) /\ ~x.over BY DEF Settled
<1>2. context_timeout(x) = y BY DEF context_timeout
<1>3. Held(w, {t} \ {t}) /\ Near(x, w)
  <2> HIDE DEF t
  <2> QED BY <1>1, WakeHeld
<1> HIDE DEF w
<1>4. Held(w, {}) /\ ~w.over BY <1>1, <1>3 DEF Near
<1>5. Ctl(w, y) /\ (Ended(y) \/ Settled(y)) BY <1>4, SwitchHeld
<1> HIDE DEF y
<1> QED BY <1>2, <1>3, <1>5 DEF Near, Ctl

LEMMA IdleSteps ==
  ASSUME NEW x, NEW t, Calls(x, t)
  PROVE  Steps(x, context_timeout(Done(x, t)), t)
<1> DEFINE w == Done(x, t)
           y == context_timeout(w)
<1>1. Moved(x, w, t) /\ Settled(w) BY CallMid, DoneSteps
<1> HIDE DEF w
<1>2. Ctl(w, y) /\ (Ended(y) \/ Settled(y)) BY <1>1, TimeoutSteps
<1> HIDE DEF y
<1>3. Steps(x, y, t) BY <1>1, <1>2 DEF Steps, Moved, Ctl
<1> QED BY <1>3 DEF w, y

\* A thread that ends is destroyed by the next one.
LEMMA ExitSteps ==
  ASSUME NEW x, NEW t, Calls(x, t)
  PROVE  Steps(x, context_exit(x), t)
<1> DEFINE v == [x EXCEPT !.terminated = {x.cur}]
<1>1. t \in Thread /\ Held(x, {t}) /\ ~x.susp[t] /\ x.cur = t /\ x.terminated = {} /\ ~x.over
  BY DEF Calls, Settled
<1>2. PICK q, loc : Core(x, {t}, q, loc) BY <1>1 DEF Held
<1>3. context_exit(x) = Switch(v) BY DEF context_exit
<1>4. /\ DOMAIN v = Fields /\ v.terminated = {t} /\ v.freed = x.freed
      /\ v.ch = x.ch /\ v.mutex = x.mutex /\ v.count = x.count /\ v.susp = x.susp /\ v.pick = x.pick
      /\ v.cond = x.cond /\ v.ready = x.ready /\ v.phase = x.phase
      /\ v.cur = x.cur /\ v.over = x.over /\ v.inq = x.inq /\ v.at = x.at
  BY <1>1, <1>2 DEF Core, Shaped, Fields
<1> HIDE DEF v
<1> DEFINE l == [loc EXCEPT ![t] = Freed]
<1>5. loc[t] = Run BY <1>1, <1>2 DEF Core
<1>6. l[t] = Freed /\ \A u \in Thread : u # t => l[u] = loc[u] BY <1>1, <1>2 DEF Core, Fits
<1>7. Fits(q, l) BY <1>1, <1>2, <1>5, Elsewhere, NamesDiffer DEF Core
<1> HIDE DEF l
<1>8. Shaped(v) BY <1>2, <1>4 DEF Core, Shaped
<1>9. Has(v, q) BY <1>2, <1>4 DEF Core, Has
<1>10. Marked(v, l)
  <2>1. Marked(x, loc) BY <1>2 DEF Core
  <2>2. ASSUME NEW u \in Thread, u # t PROVE u \in v.freed \cup v.terminated <=> l[u] = Freed
    BY <1>1, <1>4, <1>6, <2>1, <2>2 DEF Marked
  <2>3. t \in v.freed \cup v.terminated BY <1>4
  <2>4. ~x.inq[t] BY <1>1, <1>5, <2>1, NamesDiffer DEF Marked
  <2> QED BY <1>1, <1>4, <1>6, <2>1, <2>2, <2>3, <2>4, NamesDiffer DEF Marked
<1>11. {} = {u \in Thread : l[u] = Run} BY <1>2, <1>6, NamesDiffer DEF Core
<1>12. Held(v, {}) BY <1>7, <1>8, <1>9, <1>10, <1>11 DEF Core, Held
<1>13. v.phase[t] \in Handover => InCall(x, t) BY <1>4 DEF Calls
<1> QED BY <1>3, <1>4, <1>12, <1>13, SwitchSteps

----------------------------------------------------------------------------
(* The invariant.                                                          *)

\* Where each thread is in its program.
Control(x) ==
  \A t \in Thread :
    /\ x.at[t] \in Nat \ {0}
    /\ x.phase[t] \in Handover => InCall(x, t)
    /\ x.susp[t] => /\ x.phase[t] = "" /\ x.at[t] <= Len(job.prog[t])
                    /\ job.prog[t][x.at[t]].op = "select"
    /\ x.at[t] <= Len(job.prog[t]) /\ job.prog[t][x.at[t]].ch = "pick" =>
         x.pick[t] \in Channel /\ Receives(job.prog, t, x.pick[t])
    /\ x.at[t] <= Len(job.prog[t]) /\ job.prog[t][x.at[t]].op = "select" => x.phase[t] = ""

ChInv == job \in Scenarios /\ (Ended(rt) \/ (Settled(rt) /\ Control(rt)))

LEMMA Programs ==
  ASSUME job \in Scenarios, NEW t \in Thread
  PROVE  /\ DOMAIN job.prog[t] = 1..Len(job.prog[t]) /\ Len(job.prog[t]) \in Nat /\ WellFormed(job.prog[t])
         /\ NoThread \notin Thread
<1>1. job.prog[t] \in Seq(Range(job.prog[t])) /\ WellFormed(job.prog[t]) /\ NoThread \notin Thread
  BY ProgramsUse DEF Thread
<1> QED BY <1>1

\* A call other than a selection.
LEMMA StepsKept ==
  ASSUME NEW x, NEW t \in Thread, Calls(x, t), Control(x), NEW y, Steps(x, y, t),
         x.at[t] <= Len(job.prog[t]) => job.prog[t][x.at[t]].op # "select"
  PROVE  Ended(y) \/ (Settled(y) /\ Control(y))
<1> SUFFICES ASSUME Settled(y), Moved(x, y, t), NEW u \in Thread
             PROVE  /\ y.at[u] \in Nat \ {0}
                    /\ y.phase[u] \in Handover => InCall(y, u)
                    /\ y.susp[u] => /\ y.phase[u] = "" /\ y.at[u] <= Len(job.prog[u])
                                    /\ job.prog[u][y.at[u]].op = "select"
                    /\ y.at[u] <= Len(job.prog[u]) /\ job.prog[u][y.at[u]].ch = "pick" =>
                         y.pick[u] \in Channel /\ Receives(job.prog, u, y.pick[u])
                    /\ y.at[u] <= Len(job.prog[u]) /\ job.prog[u][y.at[u]].op = "select" => y.phase[u] = ""
  BY DEF Steps, Control
<1>1. CASE u # t BY <1>1 DEF Moved, Control, InCall
<1>2. CASE u = t /\ y.at[t] = x.at[t]
  <2>1. ~y.susp[t] /\ y.pick = x.pick BY DEF Moved, Calls
  <2>2. y.phase[t] \in Handover => InCall(y, t)
    <3>1. "" \notin Handover BY DEF Handover
    <3> QED BY <1>2, <3>1 DEF Moved, InCall
  <2> QED BY <1>2, <2>1, <2>2 DEF Control
<1>3. CASE u = t /\ y.at[t] = x.at[t] + 1 /\ y.phase[t] = ""
  <2>1. ~y.susp[t] BY DEF Moved, Calls
  <2>2. "" \notin Handover BY DEF Handover
  <2>3. x.at[t] \in Nat \ {0} BY DEF Control
  <2>4. ASSUME y.at[t] <= Len(job.prog[t]), job.prog[t][y.at[t]].ch = "pick" PROVE FALSE
    <3>1. /\ DOMAIN job.prog[t] = 1..Len(job.prog[t]) /\ Len(job.prog[t]) \in Nat /\ WellFormed(job.prog[t])
      BY Programs DEF Calls
    <3> DEFINE a == x.at[t]
               b == y.at[t]
               p == job.prog[t]
               L == Len(p)
    <3>2. y.at[t] \in DOMAIN job.prog[t] /\ y.at[t] - 1 = x.at[t]
      <4>1. a \in Nat \ {0} /\ b = a + 1 /\ L \in Nat /\ b <= L /\ DOMAIN p = 1..L BY <1>3, <2>3, <2>4, <3>1
      <4> HIDE DEF a, b, p, L
      <4>2. b \in 1..L /\ b - 1 = a BY <4>1
      <4> QED BY <4>1, <4>2 DEF a, b, p
    <3>3. job.prog[t][x.at[t]].op = "select" /\ x.at[t] \in DOMAIN job.prog[t] BY <2>4, <3>1, <3>2 DEF WellFormed
    <3>4. x.at[t] <= Len(job.prog[t])
      <4>1. a \in 1..L /\ L \in Nat BY <3>1, <3>3
      <4> HIDE DEF a, L
      <4>2. a <= L BY <4>1
      <4> QED BY <4>2 DEF a, L
    <3> QED BY <3>3, <3>4
  <2>5. ~ (y.at[t] <= Len(job.prog[t]) /\ job.prog[t][y.at[t]].ch = "pick") BY <2>4
  <2>6. y.at[t] \in Nat \ {0}
    <3> DEFINE a == x.at[t]
               b == y.at[t]
    <3>1. a \in Nat \ {0} /\ b = a + 1 BY <1>3, <2>3
    <3> HIDE DEF a, b
    <3>2. b \in Nat \ {0} BY <3>1
    <3> QED BY <3>2 DEF b
  <2>7. ~ (y.phase[t] \in Handover) BY <1>3, <2>2
  <2>8. y.phase[t] = "" BY <1>3
  <2> QED BY ONLY <1>3, <2>1, <2>5, <2>6, <2>7, <2>8
<1> QED BY <1>1, <1>2, <1>3 DEF Moved

LEMMA SettledNotEnded ==
  ASSUME job \in Scenarios, NEW x, NEW t \in Thread, x.cur = t, Ended(x) \/ (Settled(x) /\ Control(x))
  PROVE  Settled(x) /\ Control(x)
BY Programs DEF Ended

\* The thread that runs, outside selections.
LEMMA Running ==
  ASSUME ChInv, NEW t \in Thread, rt.cur = t, ~rt.susp[t]
  PROVE  Calls(rt, t) /\ Control(rt)
<1>1. Settled(rt) /\ Control(rt) BY SettledNotEnded DEF ChInv
<1> QED BY <1>1 DEF Calls, Control, ChInv

\* The channel of the instruction at which t is.
LEMMA OnChannel ==
  ASSUME ChInv, NEW t \in Thread, rt.cur = t, ~Finished(t)
  PROVE  /\ Instr(t) = job.prog[t][rt.at[t]] /\ rt.at[t] \in DOMAIN job.prog[t] /\ rt.at[t] <= Len(job.prog[t])
         /\ Instr(t).op = "send" => ChanOf(t) \in Channel /\ Sends(job.prog, t, ChanOf(t)) /\ InCall(rt, t)
         /\ Instr(t).op = "recv" => ChanOf(t) \in Channel /\ Receives(job.prog, t, ChanOf(t)) /\ InCall(rt, t)
         /\ Instr(t).op = "await" => Awaits(job.prog, t)
         /\ Instr(t).op = "select" => Instr(t).chans \in Seq(Channel) /\ Instr(t).ch # "pick"
<1>1. Settled(rt) /\ Control(rt) /\ job \in Scenarios BY SettledNotEnded DEF ChInv
<1>2. /\ DOMAIN job.prog[t] = 1..Len(job.prog[t]) /\ Len(job.prog[t]) \in Nat /\ WellFormed(job.prog[t])
  BY <1>1, Programs
<1> DEFINE n == rt.at[t]
<1>3. n \in DOMAIN job.prog[t] /\ n <= Len(job.prog[t])
  <2>1. n \in Nat \ {0} BY <1>1 DEF Control
  <2> QED BY <1>2, <2>1 DEF Finished
<1>4. Instr(t) = job.prog[t][n] BY DEF Instr
<1>5. ASSUME Instr(t).op = "send" PROVE ChanOf(t) \in Channel /\ Sends(job.prog, t, ChanOf(t)) /\ InCall(rt, t)
  <2>1. Instr(t).ch \in Channel BY <1>2, <1>3, <1>4, <1>5 DEF WellFormed
  <2>2. ChanOf(t) = Instr(t).ch BY <2>1, ChannelNames DEF ChanOf
  <2>3. Sends(job.prog, t, ChanOf(t)) BY <1>3, <1>4, <1>5, <2>2 DEF Sends
  <2> QED BY <1>3, <1>4, <1>5, <2>1, <2>2, <2>3 DEF InCall
<1>6. ASSUME Instr(t).op = "recv" PROVE ChanOf(t) \in Channel /\ Receives(job.prog, t, ChanOf(t)) /\ InCall(rt, t)
  <2>1. Instr(t).ch \in Channel \cup {"pick"} BY <1>2, <1>3, <1>4, <1>6 DEF WellFormed
  <2>2. InCall(rt, t) BY <1>3, <1>4, <1>6 DEF InCall
  <2>3. CASE Instr(t).ch = "pick"
    <3>1. ChanOf(t) = rt.pick[t] BY <2>3 DEF ChanOf
    <3> QED BY <1>1, <1>3, <1>4, <2>2, <2>3, <3>1 DEF Control
  <2>4. CASE Instr(t).ch # "pick"
    <3>1. ChanOf(t) = Instr(t).ch BY <2>4 DEF ChanOf
    <3>2. Receives(job.prog, t, ChanOf(t)) BY <1>3, <1>4, <1>6, <3>1 DEF Receives
    <3> QED BY <2>1, <2>2, <2>4, <3>1, <3>2
  <2> QED BY <2>3, <2>4
<1>7. Instr(t).op = "await" => Awaits(job.prog, t) BY <1>3, <1>4 DEF Awaits
<1>8. Instr(t).op = "select" => Instr(t).chans \in Seq(Channel) /\ Instr(t).ch # "pick" BY <1>2, <1>3, <1>4 DEF WellFormed
<1> QED BY <1>3, <1>4, <1>5, <1>6, <1>7, <1>8

\* The job stays, and with it all that is said of it.
LEMMA SameJob ==
  ASSUME job' = job
  PROVE  /\ Settled(rt)' <=> Settled(rt')
         /\ Control(rt)' <=> Control(rt')
<1>1. Thread' = Thread BY DEF Thread
<1>2. Settled(rt)' <=> Settled(rt')
  BY <1>1 DEF Settled, Held, Core, Shaped, Has, Fits, Marked, May
<1>3. Control(rt)' <=> Control(rt')
  BY <1>1 DEF Control, InCall
<1> QED BY <1>2, <1>3

LEMMA Kept ==
  ASSUME ChInv, job' = job, Ended(rt') \/ (Settled(rt') /\ Control(rt'))
  PROVE  ChInv'
BY SameJob DEF ChInv, Ended

\* A step of a thread that is in no selection.
LEMMA CallKept ==
  ASSUME ChInv, NEW t \in Thread, rt.cur = t, ~rt.susp[t], job' = job, Steps(rt, rt', t),
         Finished(t) \/ Instr(t).op # "select"
  PROVE  ChInv'
<1>1. Calls(rt, t) /\ Control(rt) BY Running
<1>2. rt.at[t] <= Len(job.prog[t]) => job.prog[t][rt.at[t]].op # "select"
  <2>1. rt.at[t] \in Nat /\ Len(job.prog[t]) \in Nat BY <1>1, Programs DEF Control, Calls
  <2> QED BY <2>1 DEF Finished, Instr
<1>3. Ended(rt') \/ (Settled(rt') /\ Control(rt')) BY <1>1, <1>2, StepsKept
<1> QED BY <1>3, Kept

\* A thread in another instruction than a selection is in none.
LEMMA NotSelecting ==
  ASSUME ChInv, NEW t \in Thread, rt.cur = t, Finished(t) \/ Instr(t).op # "select" \/ rt.phase[t] # ""
  PROVE  ~rt.susp[t]
<1>1. Settled(rt) /\ Control(rt) /\ job \in Scenarios BY SettledNotEnded DEF ChInv
<1>2. rt.at[t] \in Nat /\ Len(job.prog[t]) \in Nat BY <1>1, Programs DEF Control
<1>3. rt.susp[t] => rt.phase[t] = "" /\ rt.at[t] <= Len(job.prog[t]) /\ job.prog[t][rt.at[t]].op = "select"
  BY <1>1 DEF Control
<1>4. Finished(t) => ~ (rt.at[t] <= Len(job.prog[t]))
  <2> DEFINE a == rt.at[t]
             L == Len(job.prog[t])
  <2>1. a \in Nat /\ L \in Nat BY <1>2
  <2>2. Finished(t) <=> a > L BY DEF Finished
  <2> HIDE DEF a, L
  <2>3. Finished(t) => ~ (a <= L) BY <2>1, <2>2
  <2> QED BY <2>3 DEF a, L
<1> QED BY <1>3, <1>4 DEF Instr

LEMMA SelectKept ==
  ASSUME ChInv, NEW t \in Thread, Select(t)
  PROVE  ChInv'
<1> DEFINE w == ch_clearsel(rt, t)
           ks == Instr(t).chans
           open == {i \in DOMAIN ks : ch_rprobe(w, ks[i])}
           p == Done(ch_selectprobe(w, t, ks[Min(open)]), t)
           s == Switch([ch_linksel(w, t, Range(ks)) EXCEPT !.susp[t] = TRUE])
<1>1. rt.cur = t /\ ~Finished(t) /\ job' = job /\ Instr(t).op = "select" /\ rt.phase[t] = "" BY DEF Select, Op, Runs
<1>2. Settled(rt) /\ Control(rt) /\ job \in Scenarios BY <1>1, SettledNotEnded DEF ChInv
<1>3. /\ Instr(t) = job.prog[t][rt.at[t]] /\ rt.at[t] \in DOMAIN job.prog[t] /\ rt.at[t] <= Len(job.prog[t])
      /\ ks \in Seq(Channel) /\ Instr(t).ch # "pick"
  BY <1>1, OnChannel
<1>4. Looks(rt, w, t)
  <2>1. Held(rt, {t}) BY <1>1, <1>2 DEF Settled
  <2> QED BY <2>1, ClearLooks
<1>5. rt' = IF open # {} THEN p ELSE s BY DEF Select
<1> HIDE DEF w
<1>10. DOMAIN rt.at = Thread /\ DOMAIN rt.phase = Thread /\ DOMAIN rt.susp = Thread
  BY <1>2, HeldShaped DEF Settled, Shaped
<1>11. rt.at[t] \in Nat \ {0} /\ "" \notin Handover BY <1>2 DEF Control, Handover
<1>6. CASE open # {}
  <2> DEFINE k == ks[Min(open)]
  <2>1. Min(open) \in DOMAIN ks
    <3>0. open \subseteq DOMAIN ks OBVIOUS
    <3> HIDE DEF open, ks
    <3>1. open \subseteq DOMAIN ks /\ DOMAIN ks = 1..Len(ks) /\ Len(ks) \in Nat BY <1>3, <3>0
    <3>2. open \in SUBSET Nat BY <3>1
    <3>3. \E m \in open : \A n \in open : m <= n BY <1>6, <3>2, LeastExists
    <3> DEFINE m == CHOOSE x \in open : \A y \in open : x <= y
    <3>4. m \in open BY <3>3
    <3>5. Min(open) = m BY DEF Min
    <3> QED BY <3>1, <3>4, <3>5
  <2>2. k \in Channel /\ k \in Range(ks)
    <3> DEFINE i == Min(open)
    <3>1. i \in DOMAIN ks /\ ks \in Seq(Channel) /\ k = ks[i] BY <1>3, <2>1
    <3> HIDE DEF i, k, ks
    <3> QED BY <3>1 DEF Range
  <2>3. Receives(job.prog, t, k) BY <1>1, <1>3, <2>2 DEF Receives
  <2>4. rt' = Done(ch_selectprobe(w, t, k), t) BY <1>5, <1>6
  <2> HIDE DEF k
  <2>5. /\ Settled(rt') /\ rt'.at = [rt.at EXCEPT ![t] = @ + 1] /\ rt'.phase = [rt.phase EXCEPT ![t] = ""]
        /\ rt'.susp = [rt.susp EXCEPT ![t] = FALSE] /\ rt'.pick[t] = k
        /\ \A u \in Thread : u # t => rt'.pick[u] = rt.pick[u]
    <3> DEFINE z == rt'
    <3>1. z = Done(ch_selectprobe(w, t, k), t) BY <2>4
    <3>2. Settled(rt) /\ rt.cur = t /\ Looks(rt, w, t) BY <1>1, <1>2, <1>4
    <3> HIDE DEF z
    <3>3. Picks(rt, z, t, k) BY <3>1, <3>2, PickSteps
    <3> QED BY <3>3 DEF z, Picks
  <2>6. /\ rt'.at[t] = rt.at[t] + 1 /\ rt'.phase[t] = "" /\ rt'.susp[t] = FALSE
        /\ \A u \in Thread : u # t => rt'.at[u] = rt.at[u] /\ rt'.phase[u] = rt.phase[u] /\ rt'.susp[u] = rt.susp[u]
    BY <1>10, <2>5
  <2>7. rt'.at[t] \in Nat \ {0}
    <3> DEFINE a == rt.at[t]
               b == rt'.at[t]
    <3>1. a \in Nat \ {0} /\ b = a + 1 BY <1>11, <2>6
    <3> HIDE DEF a, b
    <3>2. b \in Nat \ {0} BY <3>1
    <3> QED BY <3>2 DEF b
  <2>8. Control(rt')
    <3> SUFFICES ASSUME NEW u \in Thread
                 PROVE  /\ rt'.at[u] \in Nat \ {0}
                        /\ rt'.phase[u] \in Handover => InCall(rt', u)
                        /\ rt'.susp[u] => /\ rt'.phase[u] = "" /\ rt'.at[u] <= Len(job.prog[u])
                                          /\ job.prog[u][rt'.at[u]].op = "select"
                        /\ rt'.at[u] <= Len(job.prog[u]) /\ job.prog[u][rt'.at[u]].ch = "pick" =>
                             rt'.pick[u] \in Channel /\ Receives(job.prog, u, rt'.pick[u])
                        /\ rt'.at[u] <= Len(job.prog[u]) /\ job.prog[u][rt'.at[u]].op = "select" => rt'.phase[u] = ""
      BY DEF Control
    <3>1. CASE u = t BY <1>11, <2>2, <2>3, <2>5, <2>6, <2>7, <3>1
    <3>2. CASE u # t BY <1>2, <2>5, <2>6, <3>2 DEF Control, InCall
    <3> QED BY <3>1, <3>2
  <2> QED BY <1>1, <2>5, <2>8, Kept
<1>7. CASE open = {}
  <2>1. /\ Ended(rt') \/ Settled(rt')
        /\ rt'.at = rt.at /\ rt'.phase = rt.phase /\ rt'.susp = [rt.susp EXCEPT ![t] = TRUE]
        /\ \A u \in Thread : u # t => rt'.pick[u] = rt.pick[u]
    <3> DEFINE z == rt'
               rs == Range(ks)
    <3>1. z = Switch([ch_linksel(w, t, rs) EXCEPT !.susp[t] = TRUE]) BY <1>5, <1>7
    <3>2. Settled(rt) /\ rt.cur = t /\ Looks(rt, w, t) BY <1>1, <1>2, <1>4
    <3> HIDE DEF z, rs
    <3>3. /\ Ended(z) \/ Settled(z)
          /\ z.at = rt.at /\ z.phase = rt.phase /\ z.susp = [rt.susp EXCEPT ![t] = TRUE]
          /\ \A u \in Thread : u # t => z.pick[u] = rt.pick[u]
      BY <3>1, <3>2, WaitSteps
    <3> QED BY <3>3 DEF z
  <2>2. \A u \in Thread : u # t => rt'.susp[u] = rt.susp[u] BY <1>10, <2>1
  <2>3. Control(rt')
    <3> SUFFICES ASSUME NEW u \in Thread
                 PROVE  /\ rt'.at[u] \in Nat \ {0}
                        /\ rt'.phase[u] \in Handover => InCall(rt', u)
                        /\ rt'.susp[u] => /\ rt'.phase[u] = "" /\ rt'.at[u] <= Len(job.prog[u])
                                          /\ job.prog[u][rt'.at[u]].op = "select"
                        /\ rt'.at[u] <= Len(job.prog[u]) /\ job.prog[u][rt'.at[u]].ch = "pick" =>
                             rt'.pick[u] \in Channel /\ Receives(job.prog, u, rt'.pick[u])
                        /\ rt'.at[u] <= Len(job.prog[u]) /\ job.prog[u][rt'.at[u]].op = "select" => rt'.phase[u] = ""
      BY DEF Control
    <3>1. CASE u = t BY <1>1, <1>3, <1>11, <2>1, <3>1
    <3>2. CASE u # t BY <1>2, <2>1, <2>2, <3>2 DEF Control, InCall
    <3> QED BY <3>1, <3>2
  <2> QED BY <1>1, <2>1, <2>3, Kept
<1> QED BY <1>6, <1>7

----------------------------------------------------------------------------
(* The steps of a thread.                                                  *)

LEMMA SendKept == ASSUME ChInv, NEW t \in Thread, Send(t) PROVE ChInv'
<1> DEFINE k == ChanOf(t)
           m == rt.at[t]
<1>1. rt.cur = t /\ ~Finished(t) /\ job' = job /\ Instr(t).op = "send" BY DEF Send, Op, Runs
<1>2. ~rt.susp[t] BY <1>1, NotSelecting
<1>3. Calls(rt, t) BY <1>1, <1>2, Running
<1>4. k \in Channel /\ Sends(job.prog, t, k) /\ InCall(rt, t) BY <1>1, OnChannel
<1>5. rt' = IF job.traced THEN tsend(rt, t, k, m) ELSE fsend(rt, t, k, m) BY DEF Send
<1> HIDE DEF k, m
<1>6. Steps(rt, tsend(rt, t, k, m), t) /\ Steps(rt, fsend(rt, t, k, m), t)
  BY <1>3, <1>4, TsendSteps, FsendSteps
<1>7. Steps(rt, rt', t) BY <1>5, <1>6
<1> QED BY <1>1, <1>2, <1>7, CallKept

LEMMA RecvKept == ASSUME ChInv, NEW t \in Thread, Recv(t) PROVE ChInv'
<1> DEFINE k == ChanOf(t)
<1>1. rt.cur = t /\ ~Finished(t) /\ job' = job /\ Instr(t).op = "recv" BY DEF Recv, Op, Runs
<1>2. ~rt.susp[t] BY <1>1, NotSelecting
<1>3. Calls(rt, t) BY <1>1, <1>2, Running
<1>4. k \in Channel /\ Receives(job.prog, t, k) /\ InCall(rt, t) BY <1>1, OnChannel
<1>5. rt' = IF job.traced THEN trecv(rt, t, k) ELSE frecv(rt, t, k) BY DEF Recv
<1> HIDE DEF k
<1>6. Steps(rt, trecv(rt, t, k), t) /\ Steps(rt, frecv(rt, t, k), t)
  BY <1>3, <1>4, TrecvSteps, FrecvSteps
<1>7. Steps(rt, rt', t) BY <1>5, <1>6
<1> QED BY <1>1, <1>2, <1>7, CallKept

\* The calls that are on no channel.
LEMMA OtherKept ==
  ASSUME ChInv, NEW t \in Thread,
         Lock(t) \/ Unlock(t) \/ CondWait(t) \/ Signal(t) \/ Await(t) \/ Increment(t) \/ Delay(t) \/ Idle(t)
  PROVE  ChInv'
<1> DEFINE n == Instr(t).n
           D(x) == Done([x EXCEPT !.time[t] = @ + n], t)
<1>1. /\ rt.cur = t /\ ~Finished(t) /\ job' = job /\ Instr(t).op # "select"
      /\ Await(t) => Instr(t).op = "await"
  BY DEF Lock, Unlock, CondWait, Signal, Await, Increment, Delay, Idle, Op, Runs
<1>2. ~rt.susp[t] BY <1>1, NotSelecting
<1>3. Calls(rt, t) BY <1>1, <1>2, Running
<1>4. Steps(rt, rt', t)
  <2>1. CASE Lock(t) BY <1>3, <2>1, LockSteps DEF Lock
  <2>2. CASE Unlock(t) BY <1>3, <2>2, UnlockSteps DEF Unlock
  <2>3. CASE CondWait(t) BY <1>3, <2>3, CondWaitSteps DEF CondWait
  <2>4. CASE Signal(t) BY <1>3, <2>4, SignalSteps DEF Signal
  <2>5. CASE Await(t)
    <3>1. Awaits(job.prog, t) BY <1>1, <2>5, OnChannel
    <3>2. rt' = count_await(rt, t, n) BY <2>5 DEF Await
    <3> HIDE DEF n
    <3> QED BY <1>3, <3>1, <3>2, AwaitSteps
  <2>6. CASE Increment(t)
    <3>1. rt' = Done(count_increment(rt, n), t) BY <2>6 DEF Increment
    <3> HIDE DEF n
    <3> QED BY <1>3, <3>1, IncrementSteps
  <2>7. CASE Delay(t)
    <3>1. rt' = D(rt) BY <2>7 DEF Delay
    <3> HIDE DEF n
    <3>2. Steps(rt, D(rt), t) BY <1>3, DelaySteps
    <3> QED BY <3>1, <3>2
  <2>8. CASE Idle(t) BY <1>3, <2>8, IdleSteps DEF Idle
  <2> QED BY <2>1, <2>2, <2>3, <2>4, <2>5, <2>6, <2>7, <2>8
<1> QED BY <1>1, <1>2, <1>4, CallKept

LEMMA ExitKept == ASSUME ChInv, NEW t \in Thread, Exit(t) PROVE ChInv'
<1>1. rt.cur = t /\ Finished(t) /\ job' = job /\ rt' = context_exit(rt) BY DEF Exit
<1>2. ~rt.susp[t] BY <1>1, NotSelecting
<1>3. Calls(rt, t) BY <1>1, <1>2, Running
<1>4. Steps(rt, rt', t) BY <1>1, <1>3, ExitSteps
<1> QED BY <1>1, <1>2, <1>4, CallKept

LEMMA BackKept == ASSUME ChInv, NEW t \in Thread, Back(t) PROVE ChInv'
<1> DEFINE k == ChanOf(t)
           m == rt.at[t]
<1>1. rt.cur = t /\ ~Finished(t) /\ job' = job /\ rt.phase[t] # "" BY DEF Back, Runs
<1>2. ~rt.susp[t] BY <1>1, NotSelecting
<1>3. Calls(rt, t) /\ Control(rt) BY <1>1, <1>2, Running
<1>4. Instr(t) = job.prog[t][rt.at[t]] /\ rt.at[t] <= Len(job.prog[t]) BY <1>1, OnChannel
<1>5. Instr(t).op # "select" BY <1>1, <1>3, <1>4 DEF Control
<1>6. Steps(rt, rt', t)
  <2>1. CASE rt.phase[t] \in Handover
    <3>1. InCall(rt, t) BY <1>3, <2>1 DEF Calls
    <3>2. Instr(t).op \in {"send", "recv"} BY <1>4, <3>1 DEF InCall
    <3>3. rt' = IF Instr(t).op = "send" THEN tsend_back(rt, t, k, m) ELSE trecv_back(rt, t, k)
      BY <2>1 DEF Back, Runs, Handover
    <3>4. CASE Instr(t).op = "send"
      <4>1. k \in Channel /\ Sends(job.prog, t, k) BY <1>1, <3>4, OnChannel
      <4> HIDE DEF k, m
      <4>2. Steps(rt, tsend_back(rt, t, k, m), t) BY <1>3, <3>1, <4>1, TsendBackSteps
      <4> QED BY <3>3, <3>4, <4>2
    <3>5. CASE Instr(t).op = "recv"
      <4>1. k \in Channel /\ Receives(job.prog, t, k) BY <1>1, <3>5, OnChannel
      <4> HIDE DEF k, m
      <4>2. Steps(rt, trecv_back(rt, t, k), t) BY <1>3, <3>1, <4>1, TrecvBackSteps
      <4> QED BY <3>3, <3>5, <4>2
    <3> QED BY <3>2, <3>4, <3>5
  <2>2. CASE rt.phase[t] \notin Handover
    <3>1. rt' = Done(rt, t) \/ rt' = Done([rt EXCEPT !.mutex.busy = TRUE], t)
      BY <2>2 DEF Back, Runs, Handover
    <3> QED BY <1>3, <3>1, LockedSteps
  <2> QED BY <2>1, <2>2
<1> QED BY <1>1, <1>2, <1>5, <1>6, CallKept

\* A thread may be preempted anywhere, in a selection too.
LEMMA PreemptKept == ASSUME ChInv, NEW t \in Thread, Preempt(t) PROVE ChInv'
<1> DEFINE y == context_timeout(rt)
<1>1. rt.cur = t /\ job' = job /\ rt' = y BY DEF Preempt
<1>2. Settled(rt) /\ Control(rt) BY <1>1, SettledNotEnded DEF ChInv
<1>3. Ctl(rt, y) /\ (Ended(y) \/ Settled(y)) BY <1>2, TimeoutSteps
<1> HIDE DEF y
<1>4. Control(y) BY <1>2, <1>3 DEF Control, Ctl, InCall
<1> QED BY <1>1, <1>3, <1>4, Kept

LEMMA StepKept == ASSUME ChInv, [ChNext]_chvars PROVE ChInv'
<1>1. CASE ChNext
  <2>1. PICK t \in Thread : Go(t) \/ Preempt(t) BY <1>1 DEF ChNext
  <2> QED BY <2>1, SendKept, RecvKept, SelectKept, OtherKept, ExitKept, BackKept, PreemptKept DEF Go
<1>2. CASE UNCHANGED chvars
  <2>1. job' = job /\ rt' = rt BY <1>2 DEF chvars
  <2>2. Ended(rt') \/ (Settled(rt') /\ Control(rt')) BY <2>1 DEF ChInv
  <2> QED BY <2>1, <2>2, Kept
<1> QED BY <1>1, <1>2

----------------------------------------------------------------------------
(* The start, and what follows of every state.                             *)

LEMMA StartKept == ASSUME Start PROVE ChInv
<1>1. PICK j \in Scenarios :
        /\ job = j
        /\ LET all(v) == [t \in DOMAIN j.prog |-> v] IN
           rt = [ready |-> Tail(j.order), cur |-> Head(j.order), inq |-> [all(TRUE) EXCEPT ![Head(j.order)] = FALSE],
                 time |-> all(0), at |-> all(1), phase |-> all(""),
                 ch |-> [k \in Channel |-> EmptyChannel(k, j.slack[k])],
                 susp |-> all(FALSE), pick |-> all(""),
                 mutex |-> [busy |-> FALSE, q |-> <<>>], cond |-> <<>>, count |-> [n |-> 0, q |-> <<>>],
                 terminated |-> {}, freed |-> {}, over |-> FALSE, put |-> all(<<>>), got |-> all(<<>>)]
  BY DEF Start
<1> DEFINE o == job.order
           h == Head(o)
<1>2. o \in Seq(Thread) /\ o # <<>> /\ IsInjective(o) /\ Range(o) = Thread BY <1>1, ProgramsUse DEF Thread
<1>3. h \in Thread /\ Tail(o) \in Seq(Thread) /\ Range(Tail(o)) = Thread \ {h} /\ IsInjective(Tail(o))
  BY <1>2, TailFacts
<1>4. /\ DOMAIN rt = Fields /\ rt.ready = Tail(o) /\ rt.cur = h /\ rt.inq = [[t \in Thread |-> TRUE] EXCEPT ![h] = FALSE]
      /\ rt.at = [t \in Thread |-> 1] /\ rt.phase = [t \in Thread |-> ""] /\ rt.susp = [t \in Thread |-> FALSE]
      /\ rt.pick = [t \in Thread |-> ""] /\ rt.ch = [k \in Channel |-> EmptyChannel(k, job.slack[k])]
      /\ rt.mutex = [busy |-> FALSE, q |-> <<>>] /\ rt.cond = <<>> /\ rt.count = [n |-> 0, q |-> <<>>]
      /\ rt.terminated = {} /\ rt.freed = {} /\ rt.over = FALSE
  BY <1>1 DEF Fields, Thread
<1>5. job \in Scenarios BY <1>1
<1> HIDE DEF o, h
<1>6. DOMAIN rt.ch = Channel /\ \A k \in Channel : /\ DOMAIN rt.ch[k] = ChFields /\ rt.ch[k].ss = <<>>
                                                 /\ rt.ch[k].qs = <<>> /\ rt.ch[k].qr = <<>>
  <2>1. rt.ch = [k \in Channel |-> EmptyChannel(k, job.slack[k])] BY <1>4
  <2>2. ASSUME NEW k, NEW n PROVE /\ DOMAIN EmptyChannel(k, n) = ChFields /\ EmptyChannel(k, n).ss = <<>>
                                  /\ EmptyChannel(k, n).qs = <<>> /\ EmptyChannel(k, n).qr = <<>>
    BY DEF EmptyChannel, ChFields
  <2>3. DOMAIN rt.ch = Channel /\ \A k \in Channel : rt.ch[k] = EmptyChannel(k, job.slack[k]) BY <2>1
  <2> QED BY <2>2, <2>3
<1>17. /\ DOMAIN rt = Fields /\ rt.ready = Tail(o) /\ rt.cur = h /\ rt.cond = <<>>
       /\ rt.terminated = {} /\ rt.freed = {} /\ ~rt.over
  BY <1>4
<1>18. /\ DOMAIN rt.mutex = {"busy", "q"} /\ rt.mutex.q = <<>>
       /\ DOMAIN rt.count = {"n", "q"} /\ rt.count.q = <<>>
  <2>1. rt.mutex = [busy |-> FALSE, q |-> <<>>] /\ rt.count = [n |-> 0, q |-> <<>>] BY <1>4
  <2> QED BY <2>1
<1>19. /\ rt.inq \in [Thread -> BOOLEAN] /\ rt.inq[h] = FALSE /\ \A t \in Thread : t # h => rt.inq[t] = TRUE
  <2>1. rt.inq = [[t \in Thread |-> TRUE] EXCEPT ![h] = FALSE] BY <1>4
  <2> QED BY <1>3, <2>1
<1>20. /\ rt.susp \in [Thread -> BOOLEAN] /\ \A t \in Thread : rt.susp[t] = FALSE
       /\ DOMAIN rt.at = Thread /\ DOMAIN rt.phase = Thread /\ DOMAIN rt.pick = Thread
       /\ \A t \in Thread : rt.at[t] = 1 /\ rt.phase[t] = ""
  <2>1. /\ rt.at = [t \in Thread |-> 1] /\ rt.phase = [t \in Thread |-> ""] /\ rt.susp = [t \in Thread |-> FALSE]
        /\ rt.pick = [t \in Thread |-> ""]
    BY <1>4
  <2> QED BY <2>1
<1>7. Shaped(rt)
  <2>1. <<>> \in Seq(Thread) BY EmptyFacts
  <2> QED BY <1>6, <1>17, <1>18, <1>19, <1>20, <2>1 DEF Shaped
<1> DEFINE q == [n \in Names |-> IF n = Ready THEN Tail(o) ELSE <<>>]
           loc == [t \in Thread |-> IF t = h THEN Run ELSE Ready]
<1>8. q \in [Names -> Seq(Thread)] /\ q[Ready] = Tail(o) /\ \A n \in Names : n # Ready => q[n] = <<>>
  BY <1>3, EmptyFacts, NamesDiffer
<1>9. loc \in [Thread -> Places] /\ loc[h] = Run /\ \A t \in Thread : t # h => loc[t] = Ready
  BY <1>3, NamesDiffer DEF Places
<1> HIDE DEF q, loc
<1>10. Has(rt, q) BY <1>6, <1>8, <1>17, <1>18, NamesDiffer DEF Has
<1>11. Fits(q, loc)
  <2>1. ASSUME NEW n \in Names PROVE IsInjective(q[n]) /\ \A t \in Thread : t \in Range(q[n]) <=> loc[t] = n
    <3>1. CASE n = Ready BY <1>3, <1>8, <1>9, <3>1, NamesDiffer
    <3>2. CASE n # Ready BY <1>3, <1>8, <1>9, <3>2, EmptyFacts, NamesDiffer
    <3> QED BY <3>1, <3>2
  <2>2. ASSUME NEW t \in Thread PROVE May(t, loc[t])
    <3>1. May(t, Run) /\ May(t, Ready) BY NamesDiffer DEF May
    <3> QED BY <1>9, <3>1
  <2> QED BY <1>8, <1>9, <2>1, <2>2 DEF Fits
<1>12. Marked(rt, loc) BY <1>3, <1>9, <1>17, <1>19, <1>20, NamesDiffer DEF Marked
<1>13. {h} = {t \in Thread : loc[t] = Run} BY <1>3, <1>9, NamesDiffer
<1>14. Core(rt, {h}, q, loc) BY <1>7, <1>10, <1>11, <1>12, <1>13 DEF Core
<1>15. Settled(rt) BY <1>3, <1>14, <1>17 DEF Settled, Held
<1>16. Control(rt)
  <2>1. ASSUME NEW t \in Thread PROVE ~ (1 <= Len(job.prog[t]) /\ job.prog[t][1].ch = "pick")
    <3> SUFFICES ASSUME 1 <= Len(job.prog[t]), job.prog[t][1].ch = "pick" PROVE FALSE OBVIOUS
    <3>1. DOMAIN job.prog[t] = 1..Len(job.prog[t]) /\ Len(job.prog[t]) \in Nat /\ WellFormed(job.prog[t])
      BY <1>5, Programs
    <3>2. 1 \in DOMAIN job.prog[t]
      <4> DEFINE L == Len(job.prog[t])
      <4>1. L \in Nat /\ 1 <= L /\ DOMAIN job.prog[t] = 1..L BY <3>1
      <4> HIDE DEF L
      <4> QED BY <4>1
    <3>3. 1 - 1 \in DOMAIN job.prog[t]
      <4> DEFINE p == job.prog[t]
      <4>1. \A n \in DOMAIN p : p[n].ch = "pick" => n - 1 \in DOMAIN p BY <3>1 DEF WellFormed
      <4>2. 1 \in DOMAIN p /\ p[1].ch = "pick" BY <3>2
      <4> HIDE DEF p
      <4>3. 1 - 1 \in DOMAIN p BY <4>1, <4>2
      <4> QED BY <4>3 DEF p
    <3> QED BY <3>1, <3>3
  <2>2. "" \notin Handover BY DEF Handover
  <2>3. ASSUME NEW t \in Thread
        PROVE  /\ rt.at[t] \in Nat \ {0} /\ rt.phase[t] \notin Handover /\ ~rt.susp[t] /\ rt.phase[t] = ""
               /\ ~ (rt.at[t] <= Len(job.prog[t]) /\ job.prog[t][rt.at[t]].ch = "pick")
    <3>1. rt.at[t] = 1 /\ rt.phase[t] = "" /\ rt.susp[t] = FALSE BY <1>20
    <3>2. rt.at[t] \in Nat \ {0}
      <4>1. rt.at[t] = 1 BY <3>1
      <4>2. 1 \in Nat \ {0} OBVIOUS
      <4> QED BY <4>1, <4>2
    <3> QED BY <2>1, <2>2, <3>1, <3>2
  <2> QED BY <2>3 DEF Control
<1> QED BY <1>5, <1>15, <1>16 DEF ChInv

LEMMA SettledPlaced == ASSUME Settled(rt) PROVE ThreadsPlaced
<1>1. PICK q, loc : Core(rt, {rt.cur}, q, loc) BY DEF Settled, Held
<1> DEFINE waiters == [i \in DOMAIN rt.count.q |-> rt.count.q[i][1]]
<1>2. waiters = q[Counts]
  <2>1. CASE rt.count.q = <<>> /\ q[Counts] = <<>> BY <2>1
  <2>2. ASSUME NEW u \in Thread, NEW w, rt.count.q = <<<<u, w>>>>, q[Counts] = <<u>> PROVE waiters = q[Counts]
    <3>1. DOMAIN rt.count.q = 1..1 /\ rt.count.q[1][1] = u BY <2>2
    <3>2. waiters = [i \in 1..1 |-> u]
      <4>1. \A i \in 1..1 : rt.count.q[i][1] = u BY <3>1
      <4> QED BY <3>1, <4>1
    <3>3. [i \in 1..1 |-> u] = <<u>> OBVIOUS
    <3> QED BY <2>2, <3>2, <3>3
  <2> QED BY <1>1, <2>1, <2>2 DEF Core, Has
<1>3. /\ DOMAIN Queues = {"ready", "mutex", "cond", "count"}
      /\ Queues["ready"] = q[Ready] /\ Queues["mutex"] = q[Mutex] /\ Queues["cond"] = q[Cond]
      /\ Queues["count"] = q[Counts]
  BY <1>1, <1>2 DEF Queues, Core, Has
<1>4. /\ DOMAIN Holders = {"run", "ended", "freed", "select"}
      /\ Holders["run"] = {rt.cur} /\ Holders["ended"] = {} /\ Holders["freed"] = rt.freed
      /\ Holders["select"] = {t \in Thread : Selecting(t)}
  BY DEF Holders, Settled
<1>5. ASSUME NEW n \in Names PROVE IsInjective(q[n]) /\ \A t \in Thread : t \in Range(q[n]) <=> loc[t] = n
  BY <1>1 DEF Core, Fits
<1>6. \A k \in Channel : rt.ch[k].qs = q[QS(k)] /\ rt.ch[k].qr = q[QR(k)] BY <1>1 DEF Core, Has
<1> HIDE DEF waiters
<1>7. ASSUME NEW t \in Thread PROVE Spots(t) = {loc[t]}
  <2>1. loc[t] \in Places BY <1>1 DEF Core, Fits
  <2>2. rt.cur = t <=> loc[t] = Run BY <1>1 DEF Core
  <2>3. Selecting(t) <=> loc[t] = Chosen BY <1>1, <2>2, NamesDiffer DEF Core, Marked, Selecting
  <2>4. t \in rt.freed <=> loc[t] = Freed BY <1>1 DEF Core, Marked, Settled
  <2>5. {<<n, "">> : n \in {m \in DOMAIN Queues : t \in Range(Queues[m])}}
          = {p \in {Ready, Mutex, Cond, Counts} : loc[t] = p}
    <3>1. /\ t \in Range(q[Ready]) <=> loc[t] = Ready
          /\ t \in Range(q[Mutex]) <=> loc[t] = Mutex
          /\ t \in Range(q[Cond]) <=> loc[t] = Cond
          /\ t \in Range(q[Counts]) <=> loc[t] = Counts
      BY <1>5, NamesDiffer
    <3> QED BY <1>3, <3>1 DEF Ready, Mutex, Cond, Counts
  <2>6. {<<n, "">> : n \in {m \in DOMAIN Holders : t \in Holders[m]}} = {p \in {Run, Freed, Chosen} : loc[t] = p}
    BY <1>4, <2>2, <2>3, <2>4 DEF Run, Freed, Chosen
  <2>7. {<<"qs", k>> : k \in {c \in Channel : t \in Range(rt.ch[c].qs)}} = {QS(k) : k \in {c \in Channel : loc[t] = QS(c)}}
    BY <1>5, <1>6, NamesDiffer DEF QS
  <2>8. {<<"qr", k>> : k \in {c \in Channel : t \in Range(rt.ch[c].qr)}} = {QR(k) : k \in {c \in Channel : loc[t] = QR(c)}}
    BY <1>5, <1>6, NamesDiffer DEF QR
  <2>9. \A p : p \in Spots(t) <=> \/ p \in {Ready, Mutex, Cond, Counts} /\ loc[t] = p
                                  \/ p \in {Run, Freed, Chosen} /\ loc[t] = p
                                  \/ \E k \in Channel : p = QS(k) /\ loc[t] = QS(k)
                                  \/ \E k \in Channel : p = QR(k) /\ loc[t] = QR(k)
    BY <2>5, <2>6, <2>7, <2>8 DEF Spots
  <2>10. \A p : p \in Spots(t) <=> p = loc[t] BY <2>1, <2>9 DEF Places, Names
  <2> QED BY <2>10
<1>8. ASSUME NEW t \in Thread PROVE rt.inq[t] <=> t \in Range(rt.ready)
  BY <1>1, <1>5, NamesDiffer DEF Core, Has, Marked
<1>9. \A n \in DOMAIN Queues : IsInjective(Queues[n]) BY <1>3, <1>5, NamesDiffer
<1>10. \A k \in Channel : IsInjective(rt.ch[k].qs) /\ IsInjective(rt.ch[k].qr) BY <1>5, <1>6, NamesDiffer
<1> QED BY <1>7, <1>8, <1>9, <1>10 DEF ThreadsPlaced

----------------------------------------------------------------------------

\* Wherever threads are preempted and whoever comes first to a channel, no
\* thread is lost and none is in two places, in every program that uses the
\* library as ProgramsUse says (contexts.c, thread.c, channel.c, mutex.c,
\* count.c).
THEOREM ThreadsStayPlaced == ChSpec => []ThreadsPlaced
<1>1. Start => ChInv BY StartKept
<1>2. ChInv /\ [ChNext]_chvars => ChInv' BY StepKept
<1>3. ChInv => ThreadsPlaced BY SettledPlaced DEF ChInv, Ended, ThreadsPlaced
<1> QED BY <1>1, <1>2, <1>3, PTL DEF ChSpec
=============================================================================
