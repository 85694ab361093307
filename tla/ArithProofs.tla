---------------------------- MODULE ArithProofs -----------------------------
(***************************************************************************)
(* The hand-made arithmetic is right for every operand and every even      *)
(* number of values of a byte: products, quotients, partial words.         *)
(***************************************************************************)
EXTENDS ArithProps, SequenceTheorems, TLAPS

\* Division with remainder ...
LEMMA DivMod ==
  ASSUME NEW a \in Int, NEW d \in Nat \ {0}
  PROVE  /\ a \div d \in Int /\ a % d \in Int /\ 0 <= a % d /\ a % d < d
         /\ a = (a \div d) * d + (a % d) /\ (a >= 0 => a \div d >= 0)
OBVIOUS

\* ... has one result.
LEMMA DivModIs ==
  ASSUME NEW q \in Int, NEW d \in Nat \ {0}, NEW r \in Int, 0 <= r, r < d
  PROVE  (q * d + r) \div d = q /\ (q * d + r) % d = r
OBVIOUS

\* Products of what is not negative, and of what is smaller.
LEMMA TimesGrows ==
  ASSUME NEW p \in Int, NEW q \in Int, NEW d \in Int, 0 <= d, p <= q
  PROVE  p * d <= q * d
OBVIOUS

\* The sizes of a word and its parts.
LEMMA Sizes ==
  /\ Radix \in Nat /\ Radix >= 2 /\ Radix = 2 * (Radix \div 2)
  /\ Power(0) = 1 /\ Power(1) = Radix /\ Power(2) = Radix * Radix
  /\ Power(3) = Radix * (Radix * Radix) /\ Power(4) = (Radix * Radix) * (Radix * Radix)
  /\ H = Power(2) /\ H \in Nat \ {0} /\ H >= 4
  /\ Mod = H * H /\ Mod = Power(4) /\ Mod \in Nat \ {0} /\ Mod >= 16
  /\ Mod \div 2 \in Nat /\ Mod = 2 * (Mod \div 2)
  /\ Words = 0..(Mod - 1)
<1> DEFINE n == Radix \div 2
<1>1. Radix \in Nat /\ Radix >= 2 /\ Radix = 2 * n /\ n \in Nat BY RadixAssumption
<1>2. /\ Power(0) = 1 /\ Power(1) = Radix /\ Power(2) = Radix * Radix
      /\ Power(3) = Radix * (Radix * Radix) /\ Power(4) = (Radix * Radix) * (Radix * Radix)
  BY <1>1 DEF Power
<1>3. H = Power(2) /\ Mod = Power(4) BY DEF H, Mod
<1> HIDE DEF n
<1>4. Radix * Radix \in Nat /\ Radix * Radix >= 4 BY ONLY <1>1
<1>5. H \in Nat /\ H >= 4 /\ Mod = H * H BY <1>2, <1>3, <1>4
<1>6. Mod \in Nat /\ Mod >= 16 BY ONLY <1>5
<1>7. Mod = 2 * (n * (Radix * (Radix * Radix)))
  <2> DEFINE c == Radix * (Radix * Radix)
  <2>1. c \in Nat /\ Mod = Radix * c BY <1>1, <1>2, <1>3
  <2> HIDE DEF c
  <2>2. Mod = (2 * n) * c BY <1>1, <2>1
  <2>3. Mod = 2 * (n * c) BY <1>1, <2>1, <2>2
  <2> QED BY <2>3 DEF c
<1>8. Mod \div 2 \in Nat /\ Mod = 2 * (Mod \div 2)
  <2> DEFINE c == n * (Radix * (Radix * Radix))
  <2>1. c \in Int BY <1>1
  <2> HIDE DEF c
  <2>2. Mod = 2 * c BY <1>7 DEF c
  <2> QED BY <1>6, <2>1, <2>2
<1> QED BY <1>1, <1>2, <1>3, <1>5, <1>6, <1>8 DEF Words, n

\* The same without the powers.
LEMMA WordSize ==
  /\ Mod \in Nat \ {0} /\ Mod >= 16 /\ Mod \div 2 \in Nat /\ Mod = 2 * (Mod \div 2) /\ Mod \div 2 >= 8
  /\ Words = 0..(Mod - 1)
<1> DEFINE m == Mod
           h == Mod \div 2
<1>1. m \in Nat \ {0} /\ m >= 16 /\ h \in Nat /\ m = 2 * h /\ Words = 0..(m - 1) BY Sizes
<1> HIDE DEF m, h
<1>2. h >= 8 BY <1>1
<1> QED BY <1>1, <1>2 DEF m, h

-----------------------------------------------------------------------------
(* Products.                                                               *)

\* What func_multu gets from the half words of its operands: the lowest product
\* is <<tq, tr>>, the middle ones are <<uq, ur>> and <<vq, vr>>, and the sum of
\* their remainders is <<c, sr>>.
Halves(h, ah, al, bh, bl, tq, tr, uq, ur, vq, vr, c, sr) ==
  /\ {h, ah, al, bh, bl, tq, tr, uq, ur, vq, vr, c, sr} \subseteq Nat
  /\ al * bl = tq * h + tr /\ tr < h /\ al * bh + tq = uq * h + ur /\ ur < h
  /\ bl * ah = vq * h + vr /\ vr < h /\ ur + vr = c * h + sr /\ sr < h

\* They make the double-word product.
LEMMA Schoolbook ==
  ASSUME NEW h, NEW ah, NEW al, NEW bh, NEW bl, NEW tq, NEW tr, NEW uq, NEW ur, NEW vq, NEW vr,
         NEW c, NEW sr, Halves(h, ah, al, bh, bl, tq, tr, uq, ur, vq, vr, c, sr),
         NEW lo, lo = tr + sr * h, NEW hi, hi = ((ah * bh + uq) + vq) + c
  PROVE  /\ lo \in Nat /\ lo < h * h /\ hi \in Nat
         /\ hi * (h * h) + lo = (ah * h + al) * (bh * h + bl)
         /\ ((al * bh + tq) + bl * ah) % h = sr
<1>0. /\ h \in Nat \ {0} /\ ah \in Nat /\ al \in Nat /\ bh \in Nat /\ bl \in Nat /\ tq \in Nat /\ tr \in Nat
      /\ uq \in Nat /\ ur \in Nat /\ vq \in Nat /\ vr \in Nat /\ c \in Nat /\ sr \in Nat
      /\ al * bl = tq * h + tr /\ tr < h /\ al * bh + tq = uq * h + ur /\ ur < h
      /\ bl * ah = vq * h + vr /\ vr < h /\ ur + vr = c * h + sr /\ sr < h
  BY DEF Halves
<1> DEFINE e == h * h
           p == ah * bh
           q == al * bh
           r == bl * ah
           s == al * bl
<1>1. p \in Nat /\ q \in Nat /\ r \in Nat /\ s \in Nat /\ e \in Nat BY <1>0
<1>2. (ah * h + al) * (bh * h + bl) = ((p * e + q * h) + r * h) + s BY <1>0
<1>3. s = tq * h + tr /\ q + tq = uq * h + ur /\ r = vq * h + vr BY <1>0
<1>4. hi * e + lo = (((p * e + uq * e) + vq * e) + c * e) + (tr + sr * h) BY <1>0
<1>5. sr \in Nat /\ sr <= h - 1 BY <1>0
<1>6. sr * h <= (h - 1) * h BY <1>0, <1>5
<1>7. lo \in Nat /\ lo < e BY <1>0, <1>6
<1>8. c * e + sr * h = ur * h + vr * h
  <2>1. (c * h + sr) * h = (ur + vr) * h BY <1>0
  <2> QED BY <1>0, <2>1
<1>9. (q + tq) * h = uq * e + ur * h
  <2>1. (q + tq) * h = (uq * h + ur) * h BY <1>0, <1>3
  <2> QED BY <1>0, <1>1, <2>1
<1>10. r * h = vq * e + vr * h
  <2>1. r * h = (vq * h + vr) * h BY <1>0, <1>3
  <2> QED BY <1>0, <1>1, <2>1
<1>11. (q + tq) + r = ((uq + vq) + c) * h + sr BY <1>0, <1>1, <1>3
<1>12. ((q + tq) + r) % h = sr
  <2> DEFINE d9 == (uq + vq) + c
  <2>1. d9 \in Int /\ h \in Nat \ {0} /\ sr \in Int /\ 0 <= sr /\ sr < h BY <1>0
  <2>2. (q + tq) + r = d9 * h + sr BY <1>11
  <2> HIDE DEF d9
  <2>3. (d9 * h + sr) % h = sr BY ONLY <2>1, DivModIs
  <2> QED BY <2>2, <2>3
<1>13. hi * e + lo = (ah * h + al) * (bh * h + bl)
  <2>1. q * h + tq * h = uq * e + ur * h BY <1>0, <1>1, <1>9
  <2> DEFINE pe == p * e
             qh == q * h
             rh == r * h
             ue == uq * e
             ve == vq * e
             ce == c * e
             uh == ur * h
             vh == vr * h
             th == tq * h
             sh == sr * h
  <2>2. /\ pe \in Int /\ qh \in Int /\ rh \in Int /\ ue \in Int /\ ve \in Int /\ ce \in Int /\ uh \in Int
        /\ vh \in Int /\ th \in Int /\ sh \in Int /\ s \in Int
    BY <1>0, <1>1
  <2>3. /\ (ah * h + al) * (bh * h + bl) = ((pe + qh) + rh) + s
        /\ hi * e + lo = (((pe + ue) + ve) + ce) + (tr + sh)
        /\ s = th + tr /\ ce + sh = uh + vh /\ qh + th = ue + uh /\ rh = ve + vh
    BY <1>0, <1>2, <1>3, <1>4, <1>8, <1>10, <2>1
  <2> DEFINE he == hi * e
  <2>4. he \in Int /\ lo \in Int /\ tr \in Int BY <1>0, <1>1, <1>7
  <2> HIDE DEF pe, qh, rh, ue, ve, ce, uh, vh, th, sh, s, e, he
  <2> QED BY ONLY <2>2, <2>3, <2>4 DEF he
<1> QED BY <1>0, <1>1, <1>7, <1>12, <1>13

\* func_multu gives the double-word product of its operands.
LEMMA MultuIs ==
  ASSUME NEW a \in Words, NEW b \in Words
  PROVE  LET p == MultuHiLo(a, b)
         IN  p = <<p[1], p[2]>> /\ p[1] \in Words /\ p[2] \in Words /\ p[1] * Mod + p[2] = a * b
<1> DEFINE ah == a \div H
           al == a % H
           bh == b \div H
           bl == b % H
           t  == al * bl
           t1 == al * bh + t \div H
           t2 == bl * ah
           c  == MiddleCarry(t1, t2)
           lo == (t % H) + ((t1 + t2) % H) * H
           hi == ((ah * bh + t1 \div H) + t2 \div H) + c
<1>1. H \in Nat \ {0} /\ Mod = H * H /\ Mod \in Nat \ {0} /\ Words = 0..(Mod - 1) BY Sizes
<1>2. a \in Nat /\ b \in Nat /\ a <= Mod - 1 /\ b <= Mod - 1 BY <1>1
<1>3. /\ ah \in Nat /\ al \in Nat /\ a = ah * H + al /\ bh \in Nat /\ bl \in Nat /\ b = bh * H + bl
  BY <1>1, <1>2, DivMod
<1> HIDE DEF ah, al, bh, bl
<1>4. t \in Nat /\ t2 \in Nat BY <1>3
<1> HIDE DEF t, t2
<1>5. t \div H \in Nat /\ t % H \in Nat /\ t % H < H /\ t = (t \div H) * H + (t % H) BY <1>1, <1>4, DivMod
<1>6. al * bh \in Nat BY <1>3
<1>7. t1 \in Nat BY <1>5, <1>6
<1> HIDE DEF t1
<1>8. t1 \div H \in Nat /\ t1 % H \in Nat /\ t1 % H < H /\ t1 = (t1 \div H) * H + (t1 % H) BY <1>1, <1>7, DivMod
<1>9. t2 \div H \in Nat /\ t2 % H \in Nat /\ t2 % H < H /\ t2 = (t2 \div H) * H + (t2 % H) BY <1>1, <1>4, DivMod
<1>10. c = ((t1 % H) + (t2 % H)) \div H BY DEF MiddleCarry
<1> DEFINE m  == (t1 % H) + (t2 % H)
           sr == m % H
<1>11. m \in Nat BY <1>8, <1>9
<1> HIDE DEF m, c
<1>12. c = m \div H BY <1>10 DEF m
<1>13. c \in Nat /\ sr \in Nat /\ sr < H /\ m = c * H + sr BY <1>1, <1>11, <1>12, DivMod
<1>14. (t1 % H) + (t2 % H) = c * H + sr BY <1>13 DEF m
<1> HIDE DEF sr
<1>15. /\ (t % H) + sr * H \in Nat /\ (t % H) + sr * H < H * H /\ hi \in Nat
       /\ hi * (H * H) + ((t % H) + sr * H) = (ah * H + al) * (bh * H + bl)
       /\ (t1 + t2) % H = sr
  <2> DEFINE tq == t \div H
             tr == t % H
             uq == t1 \div H
             ur == t1 % H
             vq == t2 \div H
             vr == t2 % H
  <2>1. Halves(H, ah, al, bh, bl, tq, tr, uq, ur, vq, vr, c, sr)
    <3>1. /\ tq \in Nat /\ tr \in Nat /\ al * bl = tq * H + tr /\ tr < H
          /\ uq \in Nat /\ ur \in Nat /\ al * bh + tq = uq * H + ur /\ ur < H
          /\ vq \in Nat /\ vr \in Nat /\ bl * ah = vq * H + vr /\ vr < H
          /\ c \in Nat /\ sr \in Nat /\ ur + vr = c * H + sr /\ sr < H
      BY <1>5, <1>8, <1>9, <1>13, <1>14 DEF t, t1, t2
    <3> HIDE DEF tq, tr, uq, ur, vq, vr
    <3> QED BY <1>1, <1>3, <3>1 DEF Halves
  <2>2. t1 + t2 = (al * bh + tq) + bl * ah BY DEF t1, t2
  <2>3. hi = ((ah * bh + uq) + vq) + c OBVIOUS
  <2>4. tr = t % H OBVIOUS
  <2> DEFINE l == tr + sr * H
             g == ((ah * bh + uq) + vq) + c
  <2>5. l = tr + sr * H /\ g = ((ah * bh + uq) + vq) + c /\ g = hi OBVIOUS
  <2> HIDE DEF tq, tr, uq, ur, vq, vr, hi, l, g
  <2>6. /\ l \in Nat /\ l < H * H /\ g \in Nat
        /\ g * (H * H) + l = (ah * H + al) * (bh * H + bl)
        /\ ((al * bh + tq) + bl * ah) % H = sr
    BY <2>1, <2>5, Schoolbook
  <2> QED BY <2>2, <2>4, <2>5, <2>6
<1>16. lo = (t % H) + sr * H BY <1>15
<1> HIDE DEF hi, lo
<1>17. lo \in Nat /\ lo < Mod /\ hi \in Nat /\ hi * Mod + lo = a * b BY <1>1, <1>3, <1>15, <1>16
<1>18. a * b <= (Mod - 1) * (Mod - 1)
  <2>1. a * b <= (Mod - 1) * b BY <1>1, <1>2
  <2>2. b * (Mod - 1) <= (Mod - 1) * (Mod - 1) BY <1>1, <1>2
  <2> QED BY <1>1, <1>2, <2>1, <2>2
<1>19. hi < Mod
  <2>1. SUFFICES ASSUME hi >= Mod PROVE FALSE BY <1>1, <1>17
  <2>2. Mod * Mod <= hi * Mod BY <1>1, <1>17, <2>1, TimesGrows
  <2>3. (Mod - 1) * (Mod - 1) < Mod * Mod BY <1>1
  <2>4. a * b \in Nat /\ hi * Mod \in Nat BY <1>1, <1>2, <1>17
  <2> QED BY <1>1, <1>17, <1>18, <2>2, <2>3, <2>4
<1>20. lo % Mod = lo /\ hi % Mod = hi BY <1>1, <1>17, <1>19
<1>21. MultuHiLo(a, b) = <<hi % Mod, lo % Mod>> BY DEF MultuHiLo, ah, al, bh, bl, t, t1, t2, c, lo, hi
<1>22. MultuHiLo(a, b) = <<hi, lo>> BY <1>20, <1>21
<1> QED BY <1>1, <1>17, <1>19, <1>22

\* What a word means with a sign.
LEMMA SignedIs ==
  ASSUME NEW a \in Words
  PROVE  /\ a \in Nat /\ a < Mod /\ Signed(a) \in Int
         /\ IF a >= Mod \div 2 THEN Signed(a) = a - Mod /\ Signed(a) < 0 /\ Signed(a) >= -(Mod \div 2)
            ELSE Signed(a) = a /\ Signed(a) >= 0 /\ Signed(a) < Mod \div 2
<1> DEFINE m == Mod
           h == Mod \div 2
<1>1. m \in Nat \ {0} /\ h \in Nat /\ m = 2 * h /\ a \in 0..(m - 1) BY WordSize
<1>2. Signed(a) = IF a >= h THEN a - m ELSE a BY DEF Signed
<1> HIDE DEF m, h
<1>3. /\ a \in Nat /\ a < m /\ Signed(a) \in Int
      /\ IF a >= h THEN Signed(a) = a - m /\ Signed(a) < 0 /\ Signed(a) >= -h
         ELSE Signed(a) = a /\ Signed(a) >= 0 /\ Signed(a) < h
  BY <1>1, <1>2
<1> QED BY <1>3 DEF m, h

\* A number in the range of signed words is what its word means.
LEMMA SignedUnsigned ==
  ASSUME NEW n \in Int, -(Mod \div 2) <= n, n < Mod \div 2
  PROVE  Unsigned(n) \in Words /\ Signed(Unsigned(n)) = n
<1> DEFINE h == Mod \div 2
           m == Mod
<1>1. h \in Nat /\ m \in Nat \ {0} /\ m = 2 * h /\ Words = 0..(m - 1) BY WordSize
<1>2. Signed(Unsigned(n)) = IF (n % m) >= h THEN (n % m) - m ELSE n % m BY DEF Signed, Unsigned
<1>3. Unsigned(n) = n % m BY DEF Unsigned
<1>4. n % m = IF n < 0 THEN n + m ELSE n
  <2> HIDE DEF h, m
  <2>1. -h <= n /\ n < h BY DEF h
  <2>2. CASE n < 0
    <3>1. n = (-1) * m + (n + m) /\ 0 <= n + m /\ n + m < m BY <1>1, <2>1, <2>2
    <3>2. -1 \in Int /\ n + m \in Int BY <1>1
    <3>3. ((-1) * m + (n + m)) % m = n + m BY ONLY <1>1, <3>1, <3>2, DivModIs
    <3> QED BY <2>2, <3>1, <3>3
  <2>3. CASE n >= 0 BY <1>1, <2>1, <2>3
  <2> QED BY <2>2, <2>3
<1>5. -h <= n /\ n < h OBVIOUS
<1> HIDE DEF h, m
<1> QED BY <1>1, <1>2, <1>3, <1>4, <1>5

\* Negating a double word by hand.
LEMMA NegateIs ==
  ASSUME NEW hi \in Words, NEW lo \in Words,
         NEW l, l = (Mod - lo) % Mod, NEW g, g = (Mod - 1 - hi + NegateCarry(l)) % Mod,
         NEW p, p = hi * Mod + lo
  PROVE  p \in Nat /\ p < Mod * Mod /\ g * Mod + l = (-p) % (Mod * Mod) /\ p % (Mod * Mod) = p
<1> DEFINE m == Mod
           e == m * m
<1>1. m \in Nat \ {0} /\ m >= 16 /\ hi \in Nat /\ hi <= m - 1 /\ lo \in Nat /\ lo <= m - 1 BY WordSize
<1>2. l = (m - lo) % m /\ g = (m - 1 - hi + (IF l = 0 THEN 1 ELSE 0)) % m /\ p = hi * m + lo
  BY DEF NegateCarry, Bool01
<1> HIDE DEF m
<1>3. e \in Nat \ {0} /\ hi * m \in Nat /\ hi * m <= (m - 1) * m BY <1>1
<1>4. p \in Nat /\ p < e BY <1>1, <1>2, <1>3
<1>5. l = IF lo = 0 THEN 0 ELSE m - lo BY <1>1, <1>2
<1>6. g = IF lo # 0 THEN m - 1 - hi ELSE IF hi = 0 THEN 0 ELSE m - hi BY <1>1, <1>2, <1>5
<1>7. p = 0 <=> hi = 0 /\ lo = 0
  <2>1. hi # 0 => hi * m >= m BY <1>1
  <2> QED BY <1>1, <1>2, <1>3, <2>1
<1>8. g * m + l = IF p = 0 THEN 0 ELSE e - p
  <2>1. CASE lo # 0
    <3>1. g * m = (e - m) - hi * m BY <1>1, <1>6, <2>1
    <3> QED BY <1>1, <1>2, <1>3, <1>5, <1>7, <2>1, <3>1
  <2>2. CASE lo = 0 /\ hi # 0
    <3>1. g * m = e - hi * m BY <1>1, <1>6, <2>2
    <3> QED BY <1>1, <1>2, <1>3, <1>5, <1>7, <2>2, <3>1
  <2>3. CASE lo = 0 /\ hi = 0 BY <1>1, <1>5, <1>6, <1>7, <2>3
  <2> QED BY <2>1, <2>2, <2>3
<1> HIDE DEF e
<1>9. (-p) % e = (IF p = 0 THEN 0 ELSE e - p) /\ p % e = p
  <2>1. CASE p # 0
    <3>1. -p = (-1) * e + (e - p) /\ 0 <= e - p /\ e - p < e /\ -1 \in Int /\ e - p \in Int BY <1>3, <1>4, <2>1
    <3>2. ((-1) * e + (e - p)) % e = e - p BY ONLY <1>3, <3>1, DivModIs
    <3>3. p % e = p BY <1>3, <1>4
    <3> QED BY <2>1, <3>1, <3>2, <3>3
  <2>2. CASE p = 0 BY <1>3, <2>2
  <2> QED BY <2>1, <2>2
<1> QED BY <1>4, <1>8, <1>9 DEF e, m

\* func_mult gives the signed double-word product, but for the least word.
LEMMA MultIs ==
  ASSUME NEW a \in Words, NEW b \in Words, a # Least, b # Least
  PROVE  Wide(MultHiLo(a, b)) = (Signed(a) * Signed(b)) % (Mod * Mod)
<1> DEFINE m == Mod
           h == Mod \div 2
           neg(u) == u >= h
           mag(u) == IF neg(u) THEN (m - u) % h ELSE u
           p  == MultuHiLo(mag(a), mag(b))
           lo == (m - p[2]) % m
           hi == (m - 1 - p[1] + NegateCarry(lo)) % m
<1>1. h \in Nat /\ m \in Nat \ {0} /\ m = 2 * h /\ Words = 0..(m - 1) /\ m >= 16 BY WordSize
<1>2. ASSUME NEW u \in Words, u # Least
      PROVE  mag(u) \in Words /\ Signed(u) = IF neg(u) THEN -mag(u) ELSE mag(u)
  <2>1. u \in Nat /\ u < m /\ u # h BY <1>1, <1>2 DEF Least
  <2>2. Signed(u) = IF neg(u) THEN u - m ELSE u BY DEF Signed
  <2> HIDE DEF m, h
  <2>3. neg(u) => (m - u) % h = m - u BY <1>1, <2>1
  <2> QED BY <1>1, <2>1, <2>2, <2>3
<1>3. /\ mag(a) \in Words /\ Signed(a) = IF neg(a) THEN -mag(a) ELSE mag(a)
      /\ mag(b) \in Words /\ Signed(b) = IF neg(b) THEN -mag(b) ELSE mag(b)
  BY <1>2
<1>4. MultHiLo(a, b) = IF neg(a) # neg(b) THEN <<hi, lo>> ELSE p BY DEF MultHiLo
<1> HIDE DEF mag
<1>5. p = <<p[1], p[2]>> /\ p[1] \in Words /\ p[2] \in Words /\ p[1] * Mod + p[2] = mag(a) * mag(b)
  BY <1>3, MultuIs
<1>6. mag(a) \in Nat /\ mag(b) \in Nat /\ mag(a) * mag(b) \in Nat BY <1>1, <1>3
<1> DEFINE w == mag(a) * mag(b)
<1>7. w = p[1] * Mod + p[2] BY <1>5
<1>8. Signed(a) * Signed(b) = IF neg(a) # neg(b) THEN -w ELSE w
  <2>9. neg(a) \in BOOLEAN /\ neg(b) \in BOOLEAN OBVIOUS
  <2> HIDE DEF neg
  <2> DEFINE u == mag(a)
             v == mag(b)
  <2>0. u \in Nat /\ v \in Nat BY <1>6
  <2>1. CASE neg(a) /\ neg(b)
    <3>1. Signed(a) = -u /\ Signed(b) = -v BY <1>3, <2>1
    <3> HIDE DEF u, v
    <3>2. Signed(a) * Signed(b) = u * v BY ONLY <2>0, <3>1
    <3> QED BY <2>1, <2>9, <3>2 DEF u, v
  <2>2. CASE neg(a) /\ ~neg(b)
    <3>1. Signed(a) = -u /\ Signed(b) = v BY <1>3, <2>2
    <3> HIDE DEF u, v
    <3>2. Signed(a) * Signed(b) = -(u * v) BY ONLY <2>0, <3>1
    <3> QED BY <2>2, <2>9, <3>2 DEF u, v
  <2>3. CASE ~neg(a) /\ neg(b)
    <3>1. Signed(a) = u /\ Signed(b) = -v BY <1>3, <2>3
    <3> HIDE DEF u, v
    <3>2. Signed(a) * Signed(b) = -(u * v) BY ONLY <2>0, <3>1
    <3> QED BY <2>3, <2>9, <3>2 DEF u, v
  <2>4. CASE ~neg(a) /\ ~neg(b)
    <3>1. Signed(a) = u /\ Signed(b) = v BY <1>3, <2>4
    <3> HIDE DEF u, v
    <3>2. Signed(a) * Signed(b) = u * v BY ONLY <3>1
    <3> QED BY <2>4, <2>9, <3>2 DEF u, v
  <2> QED BY <2>1, <2>2, <2>3, <2>4
<1> HIDE DEF p, w
<1>9. lo = (Mod - p[2]) % Mod /\ hi = (Mod - 1 - p[1] + NegateCarry(lo)) % Mod OBVIOUS
<1> HIDE DEF lo, hi
<1>10. hi * Mod + lo = (-w) % (Mod * Mod) /\ w % (Mod * Mod) = w BY <1>5, <1>7, <1>9, NegateIs
<1>11. CASE neg(a) # neg(b)
  <2>1. MultHiLo(a, b) = <<hi, lo>> /\ Signed(a) * Signed(b) = -w BY <1>4, <1>8, <1>11
  <2> QED BY <1>10, <2>1 DEF Wide
<1>12. CASE neg(a) = neg(b)
  <2>1. MultHiLo(a, b) = p /\ Signed(a) * Signed(b) = w BY <1>4, <1>8, <1>12
  <2> QED BY <1>7, <1>10, <2>1 DEF Wide
<1> QED BY <1>11, <1>12

-----------------------------------------------------------------------------
(* Quotients.                                                              *)

\* func_divu gives quotient and remainder.
LEMMA DivuIs ==
  ASSUME NEW a \in Words, NEW b \in Words, b # 0
  PROVE  LET p == DivHiLo("divu", a, b) IN a = p[2] * b + p[1] /\ p[1] < b
<1> DEFINE q == a \div b
           r == a % b
<1>1. a \in Nat /\ b \in Nat \ {0} /\ a < Mod /\ b < Mod /\ Mod \in Nat \ {0} BY WordSize, SignedIs
<1>2. q \in Nat /\ r \in Nat /\ r < b /\ a = q * b + r BY <1>1, DivMod
<1>3. Truncated(a, b) = q BY <1>1 DEF Truncated, Magnitude
<1>4. DivHiLo("divu", a, b) = <<Unsigned(a - q * b), Unsigned(q)>> BY <1>3 DEF DivHiLo
<1> HIDE DEF q, r
<1>5. q * b \in Nat /\ q <= q * b BY <1>1, <1>2
<1>6. a - q * b = r /\ q < Mod /\ r < Mod BY <1>1, <1>2, <1>5
<1>7. Unsigned(r) = r /\ Unsigned(q) = q BY <1>1, <1>2, <1>6 DEF Unsigned
<1>8. DivHiLo("divu", a, b) = <<r, q>> BY <1>4, <1>6, <1>7
<1> QED BY <1>2, <1>8

\* What truncation toward zero gives.
LEMMA TruncatedIs ==
  ASSUME NEW m \in Int, NEW n \in Int, n # 0, NEW q, q = Truncated(m, n)
  PROVE  /\ q \in Int /\ m - q * n \in Int /\ Abs(m - q * n) < Abs(n)
         /\ (m - q * n # 0 => (m - q * n < 0 <=> m < 0))
         /\ Abs(q) <= Abs(m) /\ (Abs(n) >= 2 => 2 * Abs(q) <= Abs(m))
         /\ (q # 0 => (q < 0 <=> (m < 0) # (n < 0)))
<1> DEFINE u == Magnitude(m)
           v == Magnitude(n)
           o == u \div v
           r == u % v
<1>1. u \in Nat /\ v \in Nat \ {0} /\ u = Abs(m) /\ v = Abs(n) BY DEF Magnitude, Abs
<1>2. m = (IF m < 0 THEN -u ELSE u) /\ n = (IF n < 0 THEN -v ELSE v) BY DEF Magnitude
<1>3. q = IF (m < 0) # (n < 0) THEN -o ELSE o BY DEF Truncated
<1> HIDE DEF u, v
<1>4. o \in Nat /\ r \in Nat /\ r < v /\ u = o * v + r BY ONLY <1>1, DivMod
<1> HIDE DEF o, r
<1>5. o * v \in Nat /\ o <= o * v /\ (v >= 2 => 2 * o <= o * v) BY <1>1, <1>4
<1>6. q \in Int /\ Abs(q) = o /\ (q # 0 => (q < 0 <=> (m < 0) # (n < 0)))
  <2>1. CASE (m < 0) # (n < 0)
    <3>1. q = -o BY <1>3, <2>1
    <3> QED BY <1>4, <2>1, <3>1 DEF Abs
  <2>2. CASE (m < 0) = (n < 0)
    <3>1. q = o BY <1>3, <2>2
    <3> QED BY <1>4, <2>2, <3>1 DEF Abs
  <2> QED BY <2>1, <2>2
<1>7. q * n = IF m < 0 THEN -(o * v) ELSE o * v
  <2>1. CASE m < 0 /\ n < 0
    <3>1. q = o /\ n = -v BY <1>2, <1>3, <2>1
    <3> QED BY <1>1, <1>4, <2>1, <3>1
  <2>2. CASE m < 0 /\ ~(n < 0)
    <3>1. q = -o /\ n = v BY <1>2, <1>3, <2>2
    <3> QED BY <1>1, <1>4, <2>2, <3>1
  <2>3. CASE ~(m < 0) /\ n < 0
    <3>1. q = -o /\ n = -v BY <1>2, <1>3, <2>3
    <3> QED BY <1>1, <1>4, <2>3, <3>1
  <2>4. CASE ~(m < 0) /\ ~(n < 0)
    <3>1. q = o /\ n = v BY <1>2, <1>3, <2>4
    <3> QED BY <1>1, <1>4, <2>4, <3>1
  <2> QED BY <2>1, <2>2, <2>3, <2>4
<1>8. m - q * n = IF m < 0 THEN -r ELSE r BY <1>1, <1>2, <1>4, <1>5, <1>7
<1>9. Abs(m - q * n) = r /\ m - q * n \in Int BY <1>4, <1>8 DEF Abs
<1> QED BY <1>1, <1>4, <1>5, <1>6, <1>8, <1>9

\* func_div gives the C quotient and remainder, where C has one.
LEMMA DivIs ==
  ASSUME NEW a \in Words, NEW b \in Words, b # 0, ~(a = Least /\ b = Mod - 1)
  PROVE  LET p == DivHiLo("div", a, b)
             r == Signed(p[1])
         IN  /\ Signed(a) = Signed(p[2]) * Signed(b) + r
             /\ Abs(r) < Abs(Signed(b))
             /\ r # 0 => (r < 0 <=> Signed(a) < 0)
<1> DEFINE m == Signed(a)
           n == Signed(b)
           q == Truncated(m, n)
           r == m - q * n
           h == Mod \div 2
<1>1. h \in Nat /\ Mod \in Nat \ {0} /\ Mod = 2 * h /\ h >= 8 BY WordSize
<1>2. m \in Int /\ -h <= m /\ m < h /\ (m = -h => a = h) BY <1>1, SignedIs
<1>3. n \in Int /\ -h <= n /\ n < h /\ n # 0 /\ (n = -1 => b = Mod - 1) BY <1>1, SignedIs
<1>4. ~(m = -h /\ n = -1) BY <1>2, <1>3 DEF Least
<1>5. DivHiLo("div", a, b) = <<Unsigned(r), Unsigned(q)>> BY DEF DivHiLo
<1> HIDE DEF m, n
<1>6. q = Truncated(m, n) OBVIOUS
<1> HIDE DEF q, h
<1>7. /\ q \in Int /\ r \in Int /\ Abs(r) < Abs(n) /\ (r # 0 => (r < 0 <=> m < 0))
      /\ Abs(q) <= Abs(m) /\ (Abs(n) >= 2 => 2 * Abs(q) <= Abs(m))
      /\ (q # 0 => (q < 0 <=> (m < 0) # (n < 0)))
  BY <1>2, <1>3, <1>6, TruncatedIs
<1>8. m = q * n + r
  <2>1. q * n \in Int BY <1>3, <1>7
  <2> QED BY <1>2, <2>1
<1> HIDE DEF r
<1>9. -h <= r /\ r < h BY <1>1, <1>3, <1>7 DEF Abs
<1>10. -h <= q /\ q < h
  <2>1. CASE Abs(n) >= 2 BY <1>1, <1>2, <1>7, <2>1 DEF Abs
  <2>2. CASE n = 1 BY <1>1, <1>2, <1>7, <2>2 DEF Abs
  <2>3. CASE n = -1 BY <1>1, <1>2, <1>4, <1>7, <2>3 DEF Abs
  <2> QED BY <1>3, <2>1, <2>2, <2>3 DEF Abs
<1>11. Signed(Unsigned(r)) = r /\ Signed(Unsigned(q)) = q BY <1>7, <1>9, <1>10, SignedUnsigned DEF h
<1>12. Signed(DivHiLo("div", a, b)[1]) = r /\ Signed(DivHiLo("div", a, b)[2]) = q BY <1>5, <1>11
<1> QED BY <1>7, <1>8, <1>12 DEF m, n

-----------------------------------------------------------------------------
(* Partial words.                                                          *)

\* The values of a byte.
Byte == 0..(Radix - 1)

\* The word of four bytes, the first the most significant.
Compose(b1, b2, b3, b4) == ((b1 * Radix + b2) * Radix + b3) * Radix + b4

\* Four bytes, and their word.
Quads == [1..4 -> Byte]
Word(f) == Compose(f[1], f[2], f[3], f[4])

\* A pair of digits.
LEMMA Digits ==
  ASSUME NEW n \in Nat \ {0}, NEW m \in Nat \ {0}, NEW a \in 0..(m - 1), NEW b \in 0..(n - 1)
  PROVE  /\ a * n + b \in 0..(m * n - 1)
         /\ (a * n + b) \div n = a /\ (a * n + b) % n = b
<1>1. (a * n + b) \div n = a /\ (a * n + b) % n = b BY DivModIs
<1>2. a * n \in Nat /\ a * n <= (m - 1) * n /\ (m - 1) * n = m * n - n OBVIOUS
<1> QED BY <1>1, <1>2

\* A number with digits in two parts: cut in two below the high part, or moved
\* up by the low one's size with all of the high part pushed out.
LEMMA TwoParts ==
  ASSUME NEW n \in Nat \ {0}, NEW m \in Nat \ {0}, NEW a \in 0..(m - 1), NEW b \in 0..(n - 1)
  PROVE  ((a * n + b) * m) % (m * n) = b * m
<1> DEFINE w == (a * n + b) * m
           e == m * n
<1>1. w = a * e + b * m OBVIOUS
<1>2. b * m \in Nat /\ b * m <= (n - 1) * m /\ (n - 1) * m = e - m OBVIOUS
<1>3. e \in Nat \ {0} OBVIOUS
<1> DEFINE r == b * m
<1>4. r \in Int /\ 0 <= r /\ r < e /\ a \in Int BY <1>2, <1>3
<1> HIDE DEF e, r
<1>5. (a * e + r) % e = r BY ONLY <1>3, <1>4, DivModIs
<1> QED BY <1>1, <1>5 DEF e, r

\* Cutting a word of four bytes in two, at each place.
LEMMA Cuts ==
  ASSUME NEW b1 \in Byte, NEW b2 \in Byte, NEW b3 \in Byte, NEW b4 \in Byte,
         NEW w, w = Compose(b1, b2, b3, b4)
  PROVE  /\ w \in Words /\ w \in Nat
         /\ w \div Power(0) = w /\ w % Power(0) = 0 /\ w % Power(4) = w
         /\ w = ((b1 * Radix + b2) * Radix + b3) * Power(1) + b4
         /\ w \div Power(1) = (b1 * Radix + b2) * Radix + b3 /\ w % Power(1) = b4
         /\ w = (b1 * Radix + b2) * Power(2) + (b3 * Radix + b4)
         /\ w \div Power(2) = b1 * Radix + b2 /\ w % Power(2) = b3 * Radix + b4
         /\ w = b1 * Power(3) + ((b2 * Radix + b3) * Radix + b4)
         /\ w \div Power(3) = b1 /\ w % Power(3) = (b2 * Radix + b3) * Radix + b4
         /\ (w * Power(0)) % Mod = w
         /\ (w * Power(1)) % Mod = ((b2 * Radix + b3) * Radix + b4) * Radix
         /\ (w * Power(2)) % Mod = (b3 * Radix + b4) * (Radix * Radix)
         /\ (w * Power(3)) % Mod = b4 * (Radix * (Radix * Radix))
<1> DEFINE R  == Radix
           R2 == R * R
           R3 == R * R2
           m  == R2 * R2
           u  == b1 * R + b2
           v  == b3 * R + b4
           s  == u * R + b3
           t  == (b2 * R + b3) * R + b4
<1>1. /\ R \in Nat \ {0} /\ R2 \in Nat \ {0} /\ R3 \in Nat \ {0} /\ m \in Nat \ {0}
      /\ Power(0) = 1 /\ Power(1) = R /\ Power(2) = R2 /\ Power(3) = R3 /\ Power(4) = m
      /\ Mod = m /\ Words = 0..(m - 1)
  BY Sizes
<1>2. b1 \in 0..(R - 1) /\ b2 \in 0..(R - 1) /\ b3 \in 0..(R - 1) /\ b4 \in 0..(R - 1) BY DEF Byte
<1>3. w = (u * R + b3) * R + b4 BY DEF Compose
<1>4. m = R * R3 /\ m = R3 * R BY <1>1
<1> HIDE DEF R
<1>5. u \in 0..(R2 - 1) /\ v \in 0..(R2 - 1) BY <1>1, <1>2, Digits
<1> DEFINE c == b2 * R + b3
<1>6. c \in 0..(R2 - 1) BY <1>1, <1>2, Digits
<1> HIDE DEF c
<1>7. u * R + b3 \in 0..(R2 * R - 1) /\ c * R + b4 \in 0..(R2 * R - 1) BY <1>1, <1>2, <1>5, <1>6, Digits
<1>8. s \in 0..(R3 - 1) /\ t \in 0..(R3 - 1)
  <2>1. R2 * R = R3 BY <1>1
  <2> QED BY <1>7, <2>1 DEF c
<1>9. w = s * R + b4 BY <1>3
<1>10. w = u * R2 + v BY <1>1, <1>2, <1>3, <1>5
<1>11. w = b1 * R3 + t BY <1>1, <1>2, <1>3
<1> HIDE DEF s, t, u, v, R2, R3, m
<1>a. /\ R \in Nat \ {0} /\ R2 \in Nat \ {0} /\ R3 \in Nat \ {0}
      /\ s \in 0..(R3 - 1) /\ t \in 0..(R3 - 1) /\ u \in 0..(R2 - 1) /\ v \in 0..(R2 - 1)
      /\ b1 \in 0..(R - 1) /\ b4 \in 0..(R - 1)
  BY <1>1, <1>2, <1>5, <1>8
<1>12. w \in 0..(m - 1) /\ w \div R = s /\ w % R = b4
  <2>1. s * R + b4 \in 0..(R3 * R - 1) /\ (s * R + b4) \div R = s /\ (s * R + b4) % R = b4
    BY ONLY <1>a, Digits
  <2> QED BY <1>4, <1>9, <2>1
<1>13. w \div R2 = u /\ w % R2 = v
  <2>1. (u * R2 + v) \div R2 = u /\ (u * R2 + v) % R2 = v BY ONLY <1>a, Digits
  <2> QED BY <1>10, <2>1
<1>14. w \div R3 = b1 /\ w % R3 = t
  <2>1. (b1 * R3 + t) \div R3 = b1 /\ (b1 * R3 + t) % R3 = t BY ONLY <1>a, Digits
  <2> QED BY <1>11, <2>1
<1>15. (w * R) % m = t * R
  <2>1. ((b1 * R3 + t) * R) % (R * R3) = t * R BY ONLY <1>a, TwoParts
  <2> QED BY <1>4, <1>11, <2>1
<1>16. (w * R2) % m = v * R2
  <2>1. ((u * R2 + v) * R2) % (R2 * R2) = v * R2 BY ONLY <1>a, TwoParts
  <2> QED BY <1>10, <2>1 DEF m
<1>17. (w * R3) % m = b4 * R3
  <2>1. ((s * R + b4) * R3) % (R3 * R) = b4 * R3 BY ONLY <1>a, TwoParts
  <2> QED BY <1>4, <1>9, <2>1
<1>18. w \in Nat /\ w < m BY <1>1, <1>12
<1>19. w \div 1 = w /\ w % 1 = 0 /\ w % m = w /\ w * 1 = w BY ONLY <1>1, <1>18
<1> QED BY <1>1, <1>9, <1>10, <1>11, <1>12, <1>13, <1>14, <1>15, <1>16, <1>17, <1>18, <1>19
        DEF s, t, u, v, R, R2, R3, m

\* The powers are positive.
LEMMA Powers ==
  /\ Radix \in Nat \ {0} /\ Radix >= 2 /\ Power(0) = 1 /\ Power(1) = Radix
  /\ Power(2) = Radix * Radix /\ Power(2) \in Nat \ {0}
  /\ Power(3) = Radix * (Radix * Radix) /\ Power(3) \in Nat \ {0}
<1> DEFINE c == Radix * Radix
<1>1. /\ Radix \in Nat \ {0} /\ Radix >= 2 /\ Power(0) = 1 /\ Power(1) = Radix /\ Power(2) = c
      /\ Power(3) = Radix * c
  BY Sizes
<1>2. c \in Nat \ {0} BY ONLY <1>1
<1> HIDE DEF c
<1>3. Radix * c \in Nat \ {0} BY ONLY <1>1, <1>2
<1> QED BY <1>1, <1>2, <1>3 DEF c

\* What remains of a word that loses some bytes.
LEMMA ModCuts ==
  Mod \div Power(0) = Power(4) /\ Mod \div Power(1) = Power(3)
  /\ Mod \div Power(2) = Power(2) /\ Mod \div Power(3) = Power(1)
<1> DEFINE R  == Radix
           R2 == R * R
           R3 == R * R2
           m  == R2 * R2
<1>1. /\ R \in Nat \ {0} /\ R2 \in Nat \ {0} /\ R3 \in Nat \ {0} /\ m \in Nat \ {0}
      /\ Power(0) = 1 /\ Power(1) = R /\ Power(2) = R2 /\ Power(3) = R3 /\ Power(4) = m
      /\ Mod = m
  BY Sizes
<1>2. m = R * R3 + 0 /\ m = R3 * R + 0 /\ m = R2 * R2 + 0 /\ 0 \in Int BY <1>1
<1> HIDE DEF R, R2, R3, m
<1>3. 0 <= 0 /\ 0 < R /\ 0 < R2 /\ 0 < R3 /\ R \in Int /\ R2 \in Int /\ R3 \in Int BY <1>1
<1>4. (R3 * R + 0) \div R = R3 BY ONLY <1>1, <1>2, <1>3, DivModIs
<1>5. (R2 * R2 + 0) \div R2 = R2 BY ONLY <1>1, <1>2, <1>3, DivModIs
<1>6. (R * R3 + 0) \div R3 = R BY ONLY <1>1, <1>2, <1>3, DivModIs
<1>7. m \div 1 = m BY ONLY <1>1
<1> QED BY <1>1, <1>2, <1>4, <1>5, <1>6, <1>7

\* The four shapes in which a word of four bytes is put together.
LEMMA Shapes ==
  ASSUME NEW b1 \in Byte, NEW b2 \in Byte, NEW b3 \in Byte, NEW b4 \in Byte
  PROVE  /\ Compose(b1, b2, b3, b4) = ((b1 * Radix + b2) * Radix + b3) * Power(1) + b4
         /\ Compose(b1, b2, b3, b4) = (b1 * Radix + b2) * Power(2) + (b3 * Radix + b4)
         /\ Compose(b1, b2, b3, b4) = b1 * Power(3) + ((b2 * Radix + b3) * Radix + b4)
BY Cuts

\* The last n bytes of w give way to the first 4 - n bytes of r that fit:
\* what lwr and swl do.
High(r, w, n) == r \div Power(n) + (w - (w % (Mod \div Power(n))))

\* The first bytes of w give way to the last ones of r: what lwl and swr do.
Low(r, w, n) == ((r * Power(n)) % Mod) + (w % Power(n))

\* The bytes of the two results.
LEMMA HighIs ==
  ASSUME NEW f \in Quads, NEW g \in Quads
  PROVE  LET r == Word(f)
             w == Word(g)
         IN  /\ High(r, w, 0) = r /\ High(r, w, 1) = Compose(g[1], f[1], f[2], f[3])
             /\ High(r, w, 2) = Compose(g[1], g[2], f[1], f[2])
             /\ High(r, w, 3) = Compose(g[1], g[2], g[3], f[1])
<1> DEFINE r1 == f[1]
           r2 == f[2]
           r3 == f[3]
           r4 == f[4]
           w1 == g[1]
           w2 == g[2]
           w3 == g[3]
           w4 == g[4]
<1>0. /\ r1 \in Byte /\ r2 \in Byte /\ r3 \in Byte /\ r4 \in Byte
      /\ w1 \in Byte /\ w2 \in Byte /\ w3 \in Byte /\ w4 \in Byte
  BY DEF Quads
<1> HIDE DEF r1, r2, r3, r4, w1, w2, w3, w4
<1> DEFINE r == Compose(r1, r2, r3, r4)
           w == Compose(w1, w2, w3, w4)
           u == (r1 * Radix + r2) * Radix + r3
           v == r1 * Radix + r2
           p == (w1 * Radix + w2) * Radix + w3
           q == w1 * Radix + w2
           a == (w2 * Radix + w3) * Radix + w4
           b == w3 * Radix + w4
<1>1. /\ r \in Nat /\ r \div Power(0) = r /\ r \div Power(1) = u /\ r \div Power(2) = v /\ r \div Power(3) = r1
  BY <1>0, Cuts
<1>2. /\ w \in Nat /\ w % Power(4) = w /\ w % Power(1) = w4 /\ w % Power(2) = b /\ w % Power(3) = a
      /\ w = p * Power(1) + w4 /\ w = q * Power(2) + b /\ w = w1 * Power(3) + a
  BY <1>0, Cuts
<1>3. /\ Radix \in Nat /\ Power(1) \in Nat /\ Power(2) \in Nat /\ Power(3) \in Nat
      /\ w1 \in Nat /\ w2 \in Nat /\ w3 \in Nat /\ w4 \in Nat /\ r1 \in Nat /\ r2 \in Nat /\ r3 \in Nat
  BY <1>0, Powers DEF Byte
<1>4. u \in Nat /\ v \in Nat /\ p \in Nat /\ q \in Nat /\ a \in Nat /\ b \in Nat BY ONLY <1>3
<1>5. p * Power(1) \in Nat /\ q * Power(2) \in Nat /\ w1 * Power(3) \in Nat
  <2> HIDE DEF p, q
  <2> QED BY ONLY <1>3, <1>4
<1>6. /\ Compose(w1, r1, r2, r3) = w1 * Power(3) + u
      /\ Compose(w1, w2, r1, r2) = q * Power(2) + v
      /\ Compose(w1, w2, w3, r1) = p * Power(1) + r1
  BY <1>0, Shapes
<1> DEFINE x1 == p * Power(1)
           x2 == q * Power(2)
           x3 == w1 * Power(3)
<1> HIDE DEF r, w, u, v, p, q, a, b
<1>7. High(r, w, 0) = r
  <2>1. High(r, w, 0) = r + (w - w) BY <1>1, <1>2, ModCuts DEF High
  <2> QED BY ONLY <2>1, <1>1, <1>2
<1>8. High(r, w, 1) = x3 + u
  <2>1. High(r, w, 1) = u + ((x3 + a) - a) BY <1>1, <1>2, ModCuts DEF High
  <2> HIDE DEF x3
  <2> QED BY <2>1, <1>4, <1>5 DEF x3
<1>9. High(r, w, 2) = x2 + v
  <2>1. High(r, w, 2) = v + ((x2 + b) - b) BY <1>1, <1>2, ModCuts DEF High
  <2> HIDE DEF x2
  <2> QED BY <2>1, <1>4, <1>5 DEF x2
<1>10. High(r, w, 3) = x1 + r1
  <2>1. High(r, w, 3) = r1 + ((x1 + w4) - w4) BY <1>1, <1>2, ModCuts DEF High
  <2> HIDE DEF x1
  <2> QED BY <2>1, <1>3, <1>5 DEF x1
<1> QED BY <1>6, <1>7, <1>8, <1>9, <1>10 DEF r, w, u, v, p, q, Word, r1, r2, r3, r4, w1, w2, w3, w4

\* Low moves the last bytes of r to the front of w.
LEMMA LowIs ==
  ASSUME NEW f \in Quads, NEW g \in Quads
  PROVE  LET r == Word(f)
             w == Word(g)
         IN  /\ Low(r, w, 0) = r /\ Low(r, w, 1) = Compose(f[2], f[3], f[4], g[4])
             /\ Low(r, w, 2) = Compose(f[3], f[4], g[3], g[4])
             /\ Low(r, w, 3) = Compose(f[4], g[2], g[3], g[4])
<1> DEFINE r1 == f[1]
           r2 == f[2]
           r3 == f[3]
           r4 == f[4]
           w1 == g[1]
           w2 == g[2]
           w3 == g[3]
           w4 == g[4]
<1>0. /\ r1 \in Byte /\ r2 \in Byte /\ r3 \in Byte /\ r4 \in Byte
      /\ w1 \in Byte /\ w2 \in Byte /\ w3 \in Byte /\ w4 \in Byte
  BY DEF Quads
<1> HIDE DEF r1, r2, r3, r4, w1, w2, w3, w4
<1> DEFINE r == Compose(r1, r2, r3, r4)
           w == Compose(w1, w2, w3, w4)
           t == (r2 * Radix + r3) * Radix + r4
           v == r3 * Radix + r4
           a == (w2 * Radix + w3) * Radix + w4
           b == w3 * Radix + w4
<1>1. /\ r \in Nat /\ (r * Power(0)) % Mod = r /\ (r * Power(1)) % Mod = t * Radix
      /\ (r * Power(2)) % Mod = v * (Radix * Radix) /\ (r * Power(3)) % Mod = r4 * (Radix * (Radix * Radix))
  BY <1>0, Cuts
<1>2. w % Power(0) = 0 /\ w % Power(1) = w4 /\ w % Power(2) = b /\ w % Power(3) = a BY <1>0, Cuts
<1>3. Power(1) = Radix /\ Power(2) = Radix * Radix /\ Power(3) = Radix * (Radix * Radix) BY Sizes
<1>4. /\ Compose(r2, r3, r4, w4) = t * Power(1) + w4
      /\ Compose(r3, r4, w3, w4) = v * Power(2) + b
      /\ Compose(r4, w2, w3, w4) = r4 * Power(3) + a
  BY <1>0, Shapes
<1> HIDE DEF r, w, t, v, a, b
<1>5. Low(r, w, 0) = r BY <1>1, <1>2 DEF Low
<1>6. Low(r, w, 1) = t * Power(1) + w4 BY <1>1, <1>2, <1>3 DEF Low
<1>7. Low(r, w, 2) = v * Power(2) + b BY <1>1, <1>2, <1>3 DEF Low
<1>8. Low(r, w, 3) = r4 * Power(3) + a BY <1>1, <1>2, <1>3 DEF Low
<1> QED BY <1>4, <1>5, <1>6, <1>7, <1>8
        DEF r, w, t, v, a, b, Word, r1, r2, r3, r4, w1, w2, w3, w4

\* Every word is four bytes.
LEMMA IsComposed ==
  ASSUME NEW w \in Words
  PROVE  \E b1, b2, b3, b4 \in Byte : w = Compose(b1, b2, b3, b4)
<1> DEFINE R  == Radix
           R2 == R * R
<1>1. R \in Nat \ {0} /\ R2 \in Nat \ {0} /\ Mod = R2 * R2 /\ w \in 0..(R2 * R2 - 1) /\ Byte = 0..(R - 1)
  BY Sizes, Powers DEF Byte
<1> HIDE DEF R
<1>2. ASSUME NEW n \in Nat \ {0}, NEW x1 \in 0..(n * n - 1)
      PROVE  /\ x1 \div n \in 0..(n - 1) /\ x1 % n \in 0..(n - 1) /\ x1 = (x1 \div n) * n + (x1 % n)
  <2> DEFINE q == x1 \div n
             r == x1 % n
             e == n * n
  <2>1. e \in Nat /\ x1 \in Nat /\ x1 < e BY <1>2
  <2>2. q \in Int /\ r \in Int /\ 0 <= r /\ r < n /\ x1 = q * n + r /\ q >= 0 BY <2>1, DivMod
  <2> HIDE DEF q, r
  <2>3. q < n
    <3>1. SUFFICES ASSUME n <= q PROVE FALSE BY <2>2
    <3>2. n * n <= q * n BY <2>2, <3>1, TimesGrows
    <3>3. q * n \in Int BY <2>2
    <3> QED BY <2>1, <2>2, <3>2, <3>3
  <2>4. q \in 0..(n - 1) /\ r \in 0..(n - 1) /\ x1 = q * n + r BY <2>2, <2>3
  <2> QED BY <2>4 DEF q, r
<1> DEFINE u == w \div R2
           v == w % R2
<1> HIDE DEF R2
<1>3. u \in 0..(R2 - 1) /\ v \in 0..(R2 - 1) /\ w = u * R2 + v BY ONLY <1>1, <1>2 DEF u, v
<1> HIDE DEF u, v
<1> DEFINE b1 == u \div R
           b2 == u % R
           b3 == v \div R
           b4 == v % R
<1>4. u \in 0..(R * R - 1) /\ v \in 0..(R * R - 1) BY <1>3 DEF R2
<1>5. b1 \in 0..(R - 1) /\ b2 \in 0..(R - 1) /\ u = b1 * R + b2 BY ONLY <1>1, <1>2, <1>4 DEF b1, b2
<1>6. b3 \in 0..(R - 1) /\ b4 \in 0..(R - 1) /\ v = b3 * R + b4 BY ONLY <1>1, <1>2, <1>4 DEF b3, b4
<1> HIDE DEF b1, b2, b3, b4
<1>7. b1 \in Byte /\ b2 \in Byte /\ b3 \in Byte /\ b4 \in Byte BY <1>1, <1>5, <1>6
<1>8. Compose(b1, b2, b3, b4) = (b1 * R + b2) * Power(2) + (b3 * R + b4)
  BY <1>7, Shapes DEF R
<1>9. Power(2) = R2 BY Powers DEF R, R2
<1>10. w = Compose(b1, b2, b3, b4) BY <1>3, <1>5, <1>6, <1>8, <1>9
<1> QED BY <1>7, <1>10

\* The bytes of a word ...
LEMMA BytesAre ==
  ASSUME NEW b1 \in Byte, NEW b2 \in Byte, NEW b3 \in Byte, NEW b4 \in Byte
  PROVE  LET w == Compose(b1, b2, b3, b4)
         IN  /\ Bytes(w) \in [1..4 -> Byte]
             /\ Bytes(w)[1] = b1 /\ Bytes(w)[2] = b2 /\ Bytes(w)[3] = b3 /\ Bytes(w)[4] = b4
<1> DEFINE w == Compose(b1, b2, b3, b4)
           u == b1 * Radix + b2
           s == u * Radix + b3
<1>1. /\ w \in Nat /\ w \div Power(0) = w /\ w \div Power(1) = s /\ w \div Power(2) = u /\ w \div Power(3) = b1
      /\ w = s * Power(1) + b4
  BY Cuts
<1>2. /\ Radix \in Nat \ {0} /\ Power(1) = Radix /\ b1 \in Int /\ b2 \in Int /\ b3 \in Int /\ b4 \in Int
      /\ 0 <= b1 /\ b1 < Radix /\ 0 <= b2 /\ b2 < Radix /\ 0 <= b3 /\ b3 < Radix /\ 0 <= b4 /\ b4 < Radix
  BY Powers DEF Byte
<1>3. u \in Int BY ONLY <1>2
<1> HIDE DEF w
<1>4. u % Radix = b2 BY ONLY <1>2, DivModIs
<1> HIDE DEF u
<1>5. s \in Int BY ONLY <1>2, <1>3
<1>6. s % Radix = b3 BY ONLY <1>2, <1>3, DivModIs
<1> HIDE DEF s
<1>7. (s * Radix + b4) % Radix = b4 BY ONLY <1>2, <1>5, DivModIs
<1>8. b1 % Radix = b1 BY ONLY <1>2
<1>9. \A i \in 1..4 : (w \div Power(4 - i)) % Radix = <<b1, b2, b3, b4>>[i]
  <2>1. (w \div Power(3)) % Radix = b1 BY <1>1, <1>8
  <2>2. (w \div Power(2)) % Radix = b2 BY <1>1, <1>4
  <2>3. (w \div Power(1)) % Radix = b3 BY <1>1, <1>6
  <2>4. (w \div Power(0)) % Radix = b4 BY <1>1, <1>2, <1>7
  <2> TAKE i \in 1..4
  <2>5. CASE i = 1 BY <2>1, <2>5
  <2>6. CASE i = 2 BY <2>2, <2>6
  <2>7. CASE i = 3 BY <2>3, <2>7
  <2>8. CASE i = 4 BY <2>4, <2>8
  <2> QED BY <2>5, <2>6, <2>7, <2>8
<1>10. Bytes(w) = [i \in 1..4 |-> <<b1, b2, b3, b4>>[i]] BY <1>9 DEF Bytes
<1>11. \A i \in 1..4 : <<b1, b2, b3, b4>>[i] \in Byte OBVIOUS
<1> QED BY <1>10, <1>11 DEF w

\* A function on 1..n is a sequence.
LEMMA FcnSeq ==
  ASSUME NEW S, NEW n \in Nat, NEW f \in [1..n -> S]
  PROVE  f \in Seq(S) /\ Len(f) = n
OBVIOUS

\* ... and of two words in memory.
LEMMA Joined ==
  ASSUME NEW f \in [1..4 -> Byte], NEW g \in [1..4 -> Byte]
  PROVE  /\ f \o g \in [1..8 -> Byte]
         /\ \A i \in 1..8 : (f \o g)[i] = IF i <= 4 THEN f[i] ELSE g[i - 4]
<1>1. f \in Seq(Byte) /\ g \in Seq(Byte) /\ Len(f) = 4 /\ Len(g) = 4
  <2>1. 4 \in Nat OBVIOUS
  <2>2. f \in Seq(Byte) /\ Len(f) = 4 BY ONLY <2>1, FcnSeq, f \in [1..4 -> Byte]
  <2>3. g \in Seq(Byte) /\ Len(g) = 4 BY ONLY <2>1, FcnSeq, g \in [1..4 -> Byte]
  <2> QED BY <2>2, <2>3
<1> DEFINE c == f \o g
<1>2. /\ c \in Seq(Byte) /\ Len(c) = 8
      /\ \A i \in 1..8 : c[i] = IF i <= 4 THEN f[i] ELSE g[i - 4]
  <2>1. c \in Seq(Byte) BY ONLY <1>1, ConcatProperties
  <2>2. Len(c) = Len(f) + Len(g) BY ONLY <1>1, ConcatProperties
  <2>3. \A i \in 1..(Len(f) + Len(g)) : c[i] = IF i <= Len(f) THEN f[i] ELSE g[i - Len(f)]
    BY ONLY <1>1, ConcatProperties
  <2> QED BY ONLY <1>1, <2>1, <2>2, <2>3
<1> HIDE DEF c
<1>3. c \in [1..8 -> Byte] BY ONLY <1>2
<1> QED BY <1>2, <1>3 DEF c

\* The partial loads and stores are these two shapes.
LEMMA PartialsAre ==
  ASSUME NEW w, NEW r, NEW a
  PROVE  /\ LoadResult("lwl", w, a, r) = Low(w, r, a % 4)
         /\ LoadResult("lwr", w, a, r) = High(w, r, 3 - (a % 4))
         /\ StoreResult("swl", w, a, r) = High(r, w, a % 4)
         /\ StoreResult("swr", w, a, r) = Low(r, w, 3 - (a % 4))
BY DEF LoadResult, StoreResult, Low, High, Before, After

\* A word is the word of its bytes.
LEMMA WordBytes ==
  ASSUME NEW w \in Words
  PROVE  Bytes(w) \in Quads /\ Word(Bytes(w)) = w
<1>1. PICK b1, b2, b3, b4 \in Byte : w = Compose(b1, b2, b3, b4) BY IsComposed
<1>2. /\ Bytes(w) \in [1..4 -> Byte]
      /\ Bytes(w)[1] = b1 /\ Bytes(w)[2] = b2 /\ Bytes(w)[3] = b3 /\ Bytes(w)[4] = b4
  BY <1>1, BytesAre
<1> QED BY <1>1, <1>2 DEF Quads, Word

\* Four bytes are the bytes of their word.
LEMMA BytesWord ==
  ASSUME NEW f \in Quads
  PROVE  Word(f) \in Words /\ Bytes(Word(f)) = f
<1> DEFINE b1 == f[1]
           b2 == f[2]
           b3 == f[3]
           b4 == f[4]
<1>1. b1 \in Byte /\ b2 \in Byte /\ b3 \in Byte /\ b4 \in Byte BY DEF Quads
<1>2. f = [i \in 1..4 |-> f[i]] BY DEF Quads
<1> HIDE DEF b1, b2, b3, b4
<1> DEFINE w == Compose(b1, b2, b3, b4)
<1>3. w \in Words BY <1>1, Cuts
<1>4. Bytes(w) \in [1..4 -> Byte] BY <1>1, BytesAre
<1>5. Bytes(w)[1] = b1 /\ Bytes(w)[2] = b2 /\ Bytes(w)[3] = b3 /\ Bytes(w)[4] = b4 BY <1>1, BytesAre
<1> HIDE DEF w
<1>6. \A i \in 1..4 : Bytes(w)[i] = f[i]
  <2> TAKE i \in 1..4
  <2>1. i = 1 \/ i = 2 \/ i = 3 \/ i = 4 OBVIOUS
  <2> QED BY <1>5, <2>1 DEF b1, b2, b3, b4
<1>7. Bytes(w) = f BY <1>4, <1>6 DEF Quads
<1>8. Word(f) = w BY DEF Word, w, b1, b2, b3, b4
<1> QED BY <1>3, <1>7, <1>8

\* The bytes of a word with a new end ...
LEMMA HighBytes ==
  ASSUME NEW r \in Words, NEW w \in Words, NEW n \in 0..3
  PROVE  /\ High(r, w, n) \in Words
         /\ \A i \in 1..4 : Bytes(High(r, w, n))[i] = IF i <= n THEN Bytes(w)[i] ELSE Bytes(r)[i - n]
<1> DEFINE f == Bytes(r)
           g == Bytes(w)
           h == [i \in 1..4 |-> IF i <= n THEN g[i] ELSE f[i - n]]
<1>1. f \in Quads /\ g \in Quads /\ Word(f) = r /\ Word(g) = w BY WordBytes
<1> HIDE DEF f, g
<1>2. h \in Quads BY <1>1 DEF Quads
<1>3. High(r, w, n) = Word(h)
  <2>1. /\ High(r, w, 0) = r /\ High(r, w, 1) = Compose(g[1], f[1], f[2], f[3])
        /\ High(r, w, 2) = Compose(g[1], g[2], f[1], f[2])
        /\ High(r, w, 3) = Compose(g[1], g[2], g[3], f[1])
    BY <1>1, HighIs
  <2>2. CASE n = 0
    <3>1. h[1] = f[1] /\ h[2] = f[2] /\ h[3] = f[3] /\ h[4] = f[4] BY <2>2
    <3> QED BY <1>1, <2>1, <2>2, <3>1 DEF Word
  <2>3. CASE n = 1
    <3>1. h[1] = g[1] /\ h[2] = f[1] /\ h[3] = f[2] /\ h[4] = f[3] BY <2>3
    <3> QED BY <2>1, <2>3, <3>1 DEF Word
  <2>4. CASE n = 2
    <3>1. h[1] = g[1] /\ h[2] = g[2] /\ h[3] = f[1] /\ h[4] = f[2] BY <2>4
    <3> QED BY <2>1, <2>4, <3>1 DEF Word
  <2>5. CASE n = 3
    <3>1. h[1] = g[1] /\ h[2] = g[2] /\ h[3] = g[3] /\ h[4] = f[1] BY <2>5
    <3> QED BY <2>1, <2>5, <3>1 DEF Word
  <2> QED BY <2>2, <2>3, <2>4, <2>5
<1> HIDE DEF h
<1>4. High(r, w, n) \in Words /\ Bytes(High(r, w, n)) = h BY <1>2, <1>3, BytesWord
<1> QED BY <1>4 DEF f, g, h

\* ... and of one with a new beginning.
LEMMA LowBytes ==
  ASSUME NEW r \in Words, NEW w \in Words, NEW n \in 0..3
  PROVE  /\ Low(r, w, n) \in Words
         /\ \A i \in 1..4 : Bytes(Low(r, w, n))[i] = IF i <= 4 - n THEN Bytes(r)[i + n] ELSE Bytes(w)[i]
<1> DEFINE f == Bytes(r)
           g == Bytes(w)
           h == [i \in 1..4 |-> IF i <= 4 - n THEN f[i + n] ELSE g[i]]
<1>1. f \in Quads /\ g \in Quads /\ Word(f) = r /\ Word(g) = w BY WordBytes
<1> HIDE DEF f, g
<1>2. h \in Quads BY <1>1 DEF Quads
<1>3. Low(r, w, n) = Word(h)
  <2>1. /\ Low(r, w, 0) = r /\ Low(r, w, 1) = Compose(f[2], f[3], f[4], g[4])
        /\ Low(r, w, 2) = Compose(f[3], f[4], g[3], g[4])
        /\ Low(r, w, 3) = Compose(f[4], g[2], g[3], g[4])
    BY <1>1, LowIs
  <2>2. CASE n = 0
    <3>1. h[1] = f[1] /\ h[2] = f[2] /\ h[3] = f[3] /\ h[4] = f[4] BY <2>2
    <3> QED BY <1>1, <2>1, <2>2, <3>1 DEF Word
  <2>3. CASE n = 1
    <3>1. h[1] = f[2] /\ h[2] = f[3] /\ h[3] = f[4] /\ h[4] = g[4] BY <2>3
    <3> QED BY <2>1, <2>3, <3>1 DEF Word
  <2>4. CASE n = 2
    <3>1. h[1] = f[3] /\ h[2] = f[4] /\ h[3] = g[3] /\ h[4] = g[4] BY <2>4
    <3> QED BY <2>1, <2>4, <3>1 DEF Word
  <2>5. CASE n = 3
    <3>1. h[1] = f[4] /\ h[2] = g[2] /\ h[3] = g[3] /\ h[4] = g[4] BY <2>5
    <3> QED BY <2>1, <2>5, <3>1 DEF Word
  <2> QED BY <2>2, <2>3, <2>4, <2>5
<1> HIDE DEF h
<1>4. Low(r, w, n) \in Words /\ Bytes(Low(r, w, n)) = h BY <1>2, <1>3, BytesWord
<1> QED BY <1>4 DEF f, g, h

\* Four bytes of memory, from byte n on.
LEMMA Window ==
  ASSUME NEW c \in [1..8 -> Byte], NEW n \in 0..3
  PROVE  /\ SubSeq(c, n + 1, n + 4) \in [1..4 -> Byte]
         /\ \A i \in 1..4 : SubSeq(c, n + 1, n + 4)[i] = c[n + i]
<1> DEFINE d == SubSeq(c, n + 1, n + 4)
<1>1. n \in Nat /\ n + 1 \in Int /\ n + 4 \in Int OBVIOUS
<1>2. \A i \in (n + 1)..(n + 4) : c[i] \in Byte
  <2>1. \A i \in (n + 1)..(n + 4) : i \in 1..8 OBVIOUS
  <2> QED BY <2>1
<1>3. /\ d \in Seq(Byte)
      /\ Len(d) = IF n + 1 <= n + 4 THEN n + 4 - (n + 1) + 1 ELSE 0
      /\ \A i \in 1..(n + 4 - (n + 1) + 1) : d[i] = c[n + 1 + i - 1]
  BY ONLY <1>1, <1>2, SubSeqProperties
<1> HIDE DEF d
<1>4. Len(d) = 4 /\ \A i \in 1..4 : d[i] = c[n + i] BY ONLY <1>1, <1>3
<1>5. d \in [1..4 -> Byte] BY ONLY <1>3, <1>4
<1> QED BY <1>4, <1>5 DEF d

\* A pair of a partial load at the first byte and one at the last loads the
\* word between them, and a pair of partial stores stores it.
LEMMA Unaligned ==
  ASSUME x \in Words, y \in Words, z \in Words, k \in 0..3
  PROVE  UnalignedExact
<1> DEFINE left == LoadResult("lwl", x, k, z)
           whole == LoadResult("lwr", IF k = 0 THEN x ELSE y, k + 3, left)
           w0 == StoreResult("swl", x, k, z)
           v0 == IF k = 0 THEN StoreResult("swr", w0, 3, z) ELSE w0
           v1 == IF k = 0 THEN y ELSE StoreResult("swr", y, k + 3, z)
           X == Bytes(x)
           Y == Bytes(y)
           Z == Bytes(z)
           r == 3 - ((k + 3) % 4)
<1>1. X \in [1..4 -> Byte] /\ Y \in [1..4 -> Byte] /\ Z \in [1..4 -> Byte] BY WordBytes DEF Quads
<1>2. k \in Nat /\ k <= 3 /\ k % 4 = k /\ 3 - (3 % 4) = 0 /\ r = (IF k = 0 THEN 0 ELSE 4 - k) /\ r \in 0..3
  OBVIOUS
<1>3. /\ left = Low(x, z, k) /\ w0 = High(z, x, k)
      /\ whole = High(IF k = 0 THEN x ELSE y, left, r)
      /\ StoreResult("swr", w0, 3, z) = Low(z, w0, 0)
      /\ StoreResult("swr", y, k + 3, z) = Low(z, y, r)
  BY <1>2, PartialsAre
<1>4. left \in Words /\ \A i \in 1..4 : Bytes(left)[i] = IF i <= 4 - k THEN X[i + k] ELSE Z[i]
  BY <1>3, LowBytes
<1>5. w0 \in Words /\ \A i \in 1..4 : Bytes(w0)[i] = IF i <= k THEN X[i] ELSE Z[i - k]
  BY <1>3, HighBytes
<1> HIDE DEF left, w0, r
<1>6. Memory \in [1..8 -> Byte] /\ \A i \in 1..8 : Memory[i] = IF i <= 4 THEN X[i] ELSE Y[i - 4]
  BY <1>1, Joined DEF Memory
<1>7. whole \in Words /\ \A i \in 1..4 : Bytes(whole)[i] = Memory[k + i]
  <2>1. CASE k = 0
    <3>1. whole = High(x, left, 0) BY <1>2, <1>3, <2>1
    <3> HIDE DEF whole
    <3>2. whole \in Words /\ \A i \in 1..4 : Bytes(whole)[i] = IF i <= 0 THEN Bytes(left)[i] ELSE X[i - 0]
      BY <3>1, <1>4, HighBytes
    <3> HIDE DEF X, Y, Z
    <3> QED BY <3>2, <1>6, <2>1
  <2>2. CASE k # 0
    <3>1. whole = High(y, left, 4 - k) /\ 4 - k \in 0..3 BY <1>2, <1>3, <2>2
    <3> HIDE DEF whole
    <3>2. /\ whole \in Words
          /\ \A i \in 1..4 : Bytes(whole)[i] = IF i <= 4 - k THEN Bytes(left)[i] ELSE Y[i - (4 - k)]
      BY <3>1, <1>4, HighBytes
    <3> HIDE DEF X, Y, Z
    <3>3. \A i \in 1..4 : Bytes(whole)[i] = Memory[k + i]
      <4> TAKE i \in 1..4
      <4>1. CASE i <= 4 - k
        <5>1. Bytes(whole)[i] = X[i + k] BY <4>1, <3>2, <1>4
        <5>2. k + i \in 1..8 /\ k + i <= 4 /\ k + i = i + k BY <4>1, <1>2
        <5> QED BY <5>1, <5>2, <1>6
      <4>2. CASE ~(i <= 4 - k)
        <5>1. Bytes(whole)[i] = Y[i - (4 - k)] BY <4>2, <3>2
        <5>2. k + i \in 1..8 /\ ~(k + i <= 4) /\ k + i - 4 = i - (4 - k) BY <4>2, <1>2
        <5> QED BY <5>1, <5>2, <1>6
      <4> QED BY <4>1, <4>2
    <3> QED BY <3>2, <3>3
  <2> QED BY <2>1, <2>2
<1>8. Bytes(whole) = SubSeq(Memory, k + 1, k + 4)
  <2> DEFINE c == Memory
             d == SubSeq(c, k + 1, k + 4)
             f == Bytes(whole)
  <2>1. c \in [1..8 -> Byte] /\ k \in 0..3 BY <1>6
  <2>2. f \in [1..4 -> Byte] /\ \A i \in 1..4 : f[i] = c[k + i] BY <1>7, WordBytes DEF Quads
  <2> HIDE DEF c, f
  <2>3. d \in [1..4 -> Byte] /\ \A i \in 1..4 : d[i] = c[k + i] BY ONLY <2>1, Window
  <2> HIDE DEF d
  <2>4. f = d BY ONLY <2>2, <2>3
  <2> QED BY <2>4 DEF c, d, f
<1>9. Bytes(v0) \in Quads /\ Bytes(v1) \in Quads /\ \A i \in 1..4 :
         /\ Bytes(v0)[i] = IF i <= k THEN X[i] ELSE Z[i - k]
         /\ Bytes(v1)[i] = IF i <= k THEN Z[i + (4 - k)] ELSE Y[i]
  <2>1. CASE k = 0
    <3>1. v0 = Low(z, w0, 0) /\ v1 = y BY <1>3, <2>1
    <3> HIDE DEF v0, v1
    <3>2. v0 \in Words /\ \A i \in 1..4 : Bytes(v0)[i] = IF i <= 4 - 0 THEN Z[i + 0] ELSE Bytes(w0)[i]
      BY <3>1, <1>5, LowBytes
    <3>3. Bytes(v0) \in Quads /\ Bytes(v1) \in Quads BY <3>1, <3>2, WordBytes
    <3>4. \A i \in 1..4 : Bytes(v0)[i] = Z[i] /\ Bytes(v1)[i] = Y[i]
      <4> HIDE DEF Z
      <4> QED BY <3>1, <3>2
    <3> QED BY <3>3, <3>4, <2>1
  <2>2. CASE k # 0
    <3>1. v0 = w0 /\ v1 = Low(z, y, 4 - k) /\ 4 - k \in 0..3 BY <1>2, <1>3, <2>2
    <3> HIDE DEF v0, v1
    <3>2. v1 \in Words /\ \A i \in 1..4 : Bytes(v1)[i] = IF i <= 4 - (4 - k) THEN Z[i + (4 - k)] ELSE Y[i]
      BY <3>1, LowBytes
    <3>3. Bytes(v0) \in Quads /\ Bytes(v1) \in Quads BY <3>1, <3>2, <1>5, WordBytes
    <3>4. 4 - (4 - k) = k BY <1>2
    <3> HIDE DEF X, Y, Z
    <3> QED BY <3>1, <3>2, <3>3, <3>4, <1>5
  <2> QED BY <2>1, <2>2
<1>10. Bytes(v0) \o Bytes(v1) =
         [i \in 1..8 |-> IF i \in (k + 1)..(k + 4) THEN Z[i - k] ELSE Memory[i]]
  <2> DEFINE f == Bytes(v0)
             g == Bytes(v1)
             c == f \o g
  <2>1. f \in [1..4 -> Byte] /\ g \in [1..4 -> Byte] BY <1>9 DEF Quads
  <2>2. \A i \in 1..4 : f[i] = (IF i <= k THEN X[i] ELSE Z[i - k]) /\ g[i] = IF i <= k THEN Z[i + (4 - k)] ELSE Y[i]
    BY <1>9
  <2> HIDE DEF f, g, X, Y, Z
  <2>3. c \in [1..8 -> Byte] /\ \A i \in 1..8 : c[i] = IF i <= 4 THEN f[i] ELSE g[i - 4]
    BY ONLY <2>1, Joined
  <2> HIDE DEF c
  <2>4. ASSUME NEW i \in 1..8
        PROVE  c[i] = IF i \in (k + 1)..(k + 4) THEN Z[i - k] ELSE Memory[i]
    <3>1. CASE i <= 4 BY <3>1, <2>2, <2>3, <1>2, <1>6
    <3>2. CASE ~(i <= 4)
      <4>1. i - 4 \in 1..4 /\ (i - 4 <= k <=> i \in (k + 1)..(k + 4)) /\ i - 4 + (4 - k) = i - k BY <3>2, <1>2
      <4>2. Memory[i] = Y[i - 4] BY <3>2, <1>6
      <4>3. g[i - 4] = IF i - 4 <= k THEN Z[i - 4 + (4 - k)] ELSE Y[i - 4] BY <4>1, <2>2
      <4> QED BY <3>2, <2>3, <4>1, <4>2, <4>3
    <3> QED BY <3>1, <3>2
  <2>5. c = [i \in 1..8 |-> IF i \in (k + 1)..(k + 4) THEN Z[i - k] ELSE Memory[i]] BY ONLY <2>3, <2>4
  <2> QED BY <2>5 DEF c, f, g, X, Y, Z
<1> QED BY <1>8, <1>10 DEF UnalignedExact, left, w0

\* A byte of a word, and the word with another byte in its place.
ByteLane(n) == [values |-> Radix, place |-> Power(3 - n)]

\* The byte is read, or replaced by the lowest byte of v (BEGetByte, BESetByte).
LEMMA ByteLaneIs ==
  ASSUME NEW f \in Quads, NEW n \in 0..3, NEW v \in Words
  PROVE  /\ GetLane(ByteLane(n), Word(f)) = f[n + 1]
         /\ SetLane(ByteLane(n), Word(f), v) = Word([f EXCEPT ![n + 1] = v % Radix])
         /\ v % Radix \in Byte
<1> DEFINE w == Word(f)
           c == v % Radix
           b1 == f[1]
           b2 == f[2]
           b3 == f[3]
           b4 == f[4]
           u == b1 * Radix
           s == (b1 * Radix + b2) * Radix
           P1 == Power(1)
           P2 == Power(2)
           P3 == Power(3)
<1>1. n + 1 \in 1..4 /\ 4 - (n + 1) = 3 - n OBVIOUS
<1>2. GetLane(ByteLane(n), w) = f[n + 1]
  <2>1. Bytes(w) = f BY BytesWord
  <2>2. Bytes(w)[n + 1] = (w \div Power(4 - (n + 1))) % Radix BY ONLY <1>1 DEF Bytes
  <2> HIDE DEF w
  <2> QED BY <1>1, <2>1, <2>2 DEF GetLane, ByteLane
<1>3. c \in Byte /\ c \in Nat
  <2>1. v \in Int /\ Radix \in Nat \ {0} BY WordSize, Powers
  <2> QED BY <2>1, DivMod DEF Byte
<1>4. b1 \in Byte /\ b2 \in Byte /\ b3 \in Byte /\ b4 \in Byte BY DEF Quads
<1> HIDE DEF c, b1, b2, b3, b4
<1>5. b1 \in Int /\ b2 \in Int /\ b3 \in Int /\ b4 \in Int /\ c \in Int /\ Radix \in Int
  BY <1>3, <1>4, Powers DEF Byte
<1>6. P1 \in Int /\ P2 \in Int /\ P3 \in Int /\ Power(0) = 1 BY Powers
<1>7. w = Compose(b1, b2, b3, b4) BY DEF Word, b1, b2, b3, b4
<1>8. w = (s + b3) * P1 + b4 /\ w = (u + b2) * P2 + (b3 * Radix + b4)
      /\ w = b1 * P3 + ((b2 * Radix + b3) * Radix + b4)
  BY <1>4, <1>7, Shapes
<1>9. /\ Compose(c, b2, b3, b4) = c * P3 + ((b2 * Radix + b3) * Radix + b4)
      /\ Compose(b1, c, b3, b4) = (u + c) * P2 + (b3 * Radix + b4)
      /\ Compose(b1, b2, c, b4) = (s + c) * P1 + b4
      /\ Compose(b1, b2, b3, c) = (s + b3) * P1 + c
  BY <1>3, <1>4, Shapes
<1>10. u \in Int /\ s \in Int BY ONLY <1>5
<1> DEFINE t == (b2 * Radix + b3) * Radix + b4
           r == b3 * Radix + b4
           p == (s + b3) * P1
<1>11. t \in Int /\ r \in Int BY ONLY <1>5
<1> HIDE DEF u, s, t, r, P1, P2, P3, w
<1>12. p \in Int BY ONLY <1>5, <1>6, <1>10
<1>13. SetLane(ByteLane(n), w, v) = w - f[n + 1] * Power(3 - n) + c * Power(3 - n)
  BY <1>2 DEF SetLane, ByteLane, c
<1>14. SetLane(ByteLane(n), w, v) = Word([f EXCEPT ![n + 1] = c])
  <2>1. CASE n = 0
    <3>1. SetLane(ByteLane(n), w, v) = (b1 * P3 + t) - b1 * P3 + c * P3
      BY <1>8, <1>13, <2>1 DEF b1, P3, t
    <3>2. b1 * P3 \in Int /\ c * P3 \in Int BY ONLY <1>5, <1>6
    <3>3. SetLane(ByteLane(n), w, v) = c * P3 + t BY ONLY <1>11, <3>1, <3>2
    <3>4. Word([f EXCEPT ![n + 1] = c]) = Compose(c, b2, b3, b4) BY <2>1 DEF Word, Quads, b2, b3, b4
    <3> QED BY <1>9, <3>3, <3>4 DEF t
  <2>2. CASE n = 1
    <3>1. SetLane(ByteLane(n), w, v) = ((u + b2) * P2 + r) - b2 * P2 + c * P2
      BY <1>8, <1>13, <2>2 DEF b2, P2, r
    <3>2. /\ (u + b2) * P2 = u * P2 + b2 * P2 /\ (u + c) * P2 = u * P2 + c * P2
          /\ u * P2 \in Int /\ b2 * P2 \in Int /\ c * P2 \in Int
      BY ONLY <1>5, <1>6, <1>10
    <3>3. SetLane(ByteLane(n), w, v) = (u + c) * P2 + r BY ONLY <1>11, <3>1, <3>2
    <3>4. Word([f EXCEPT ![n + 1] = c]) = Compose(b1, c, b3, b4) BY <2>2 DEF Word, Quads, b1, b3, b4
    <3> QED BY <1>9, <3>3, <3>4 DEF r
  <2>3. CASE n = 2
    <3>1. SetLane(ByteLane(n), w, v) = ((s + b3) * P1 + b4) - b3 * P1 + c * P1
      BY <1>8, <1>13, <2>3 DEF b3, P1
    <3>2. /\ (s + b3) * P1 = s * P1 + b3 * P1 /\ (s + c) * P1 = s * P1 + c * P1
          /\ s * P1 \in Int /\ b3 * P1 \in Int /\ c * P1 \in Int
      BY ONLY <1>5, <1>6, <1>10
    <3>3. SetLane(ByteLane(n), w, v) = (s + c) * P1 + b4 BY ONLY <1>5, <3>1, <3>2
    <3>4. Word([f EXCEPT ![n + 1] = c]) = Compose(b1, b2, c, b4) BY <2>3 DEF Word, Quads, b1, b2, b4
    <3> QED BY <1>9, <3>3, <3>4
  <2>4. CASE n = 3
    <3>1. SetLane(ByteLane(n), w, v) = (p + b4) - b4 * 1 + c * 1
      BY <1>6, <1>8, <1>13, <2>4 DEF b4
    <3>2. SetLane(ByteLane(n), w, v) = p + c BY ONLY <1>5, <1>12, <3>1
    <3>3. Word([f EXCEPT ![n + 1] = c]) = Compose(b1, b2, b3, c) BY <2>4 DEF Word, Quads, b1, b2, b3
    <3> QED BY <1>9, <3>2, <3>3
  <2> QED BY <2>1, <2>2, <2>3, <2>4
<1> QED BY <1>2, <1>3, <1>14 DEF w, c

\* A half word of a word, and the word with another one in its place.
HalfLane(m) == [values |-> Power(2), place |-> Power(2 - 2 * m)]

\* The half word is read, or replaced by the lower half of v (BEGetHalfWord,
\* BESetHalfWord).
LEMMA HalfLaneIs ==
  ASSUME NEW f \in Quads, NEW m \in 0..1, NEW v \in Words, NEW g \in Quads, v = Word(g)
  PROVE  /\ GetLane(HalfLane(m), Word(f)) = f[2 * m + 1] * Radix + f[2 * m + 2]
         /\ SetLane(HalfLane(m), Word(f), v) = Word([f EXCEPT ![2 * m + 1] = g[3], ![2 * m + 2] = g[4]])
         /\ v % Power(2) = g[3] * Radix + g[4] /\ v % Radix = g[4]
<1> DEFINE w == Word(f)
           b1 == f[1]
           b2 == f[2]
           b3 == f[3]
           b4 == f[4]
           u == b1 * Radix + b2
           r == b3 * Radix + b4
           P2 == Power(2)
<1>1. b1 \in Byte /\ b2 \in Byte /\ b3 \in Byte /\ b4 \in Byte BY DEF Quads
<1>2. w = Compose(b1, b2, b3, b4) BY DEF Word
<1> HIDE DEF b1, b2, b3, b4
<1>3. /\ w \div Power(2) = u /\ w \div Power(0) = w /\ w % Power(2) = r /\ w = u * P2 + r
  BY <1>1, <1>2, Cuts
<1>4. Power(2) \in Nat \ {0} /\ P2 = Radix * Radix /\ Radix \in Nat \ {0} /\ Power(0) = 1 BY Powers
<1>5. u \in 0..(Radix * Radix - 1)
  <2>1. Radix \in Nat \ {0} /\ b1 \in 0..(Radix - 1) /\ b2 \in 0..(Radix - 1) BY <1>1, <1>4 DEF Byte
  <2> QED BY ONLY <2>1, Digits
<1> HIDE DEF u, r, P2
<1>6. u % P2 = u BY <1>4, <1>5 DEF P2
<1> DEFINE c == g[3]
           d == g[4]
           a == c * Radix + d
<1>7. v % Power(2) = a /\ v % Radix = d /\ c \in Byte /\ d \in Byte
  <2> DEFINE a1 == g[1]
             a2 == g[2]
  <2>1. a1 \in Byte /\ a2 \in Byte /\ c \in Byte /\ d \in Byte BY DEF Quads
  <2>2. v = Compose(a1, a2, c, d) BY DEF Word
  <2> HIDE DEF a1, a2, c, d
  <2> QED BY <2>1, <2>2, Cuts, Powers
<1> HIDE DEF w, c, d
<1>8. GetLane(HalfLane(m), w) = IF m = 0 THEN u ELSE r
  <2>1. CASE m = 0 BY <2>1, <1>3, <1>6 DEF GetLane, HalfLane, P2
  <2>2. CASE m = 1 BY <2>2, <1>3 DEF GetLane, HalfLane
  <2> QED BY <2>1, <2>2
<1>9. SetLane(HalfLane(m), w, v) = w - GetLane(HalfLane(m), w) * Power(2 - 2 * m) + a * Power(2 - 2 * m)
  BY <1>7 DEF SetLane, HalfLane
<1>10. a \in Int /\ u \in Int /\ r \in Int /\ P2 \in Int
  <2>1. b1 \in Int /\ b2 \in Int /\ b3 \in Int /\ b4 \in Int /\ c \in Int /\ d \in Int /\ Radix \in Int
    BY <1>1, <1>4, <1>7 DEF Byte
  <2> QED BY <2>1, <1>4 DEF u, r, P2
<1>11. Compose(c, d, b3, b4) = a * P2 + r /\ Compose(b1, b2, c, d) = u * P2 + a
  BY <1>1, <1>7, Shapes DEF u, r, P2
<1> HIDE DEF a
<1>12. CASE m = 0
  <2>1. SetLane(HalfLane(m), w, v) = (u * P2 + r) - u * P2 + a * P2 BY <1>3, <1>8, <1>9, <1>12 DEF P2
  <2>2. u * P2 \in Int /\ a * P2 \in Int BY ONLY <1>10
  <2>3. SetLane(HalfLane(m), w, v) = a * P2 + r BY ONLY <1>10, <2>1, <2>2
  <2>4. Word([f EXCEPT ![2 * m + 1] = c, ![2 * m + 2] = d]) = Compose(c, d, b3, b4)
    BY <1>12 DEF Word, Quads, b3, b4
  <2>5. GetLane(HalfLane(m), w) = f[2 * m + 1] * Radix + f[2 * m + 2] BY <1>8, <1>12 DEF u, b1, b2
  <2> QED BY <1>7, <1>11, <2>3, <2>4, <2>5 DEF w, c, d, a
<1>13. CASE m = 1
  <2>1. SetLane(HalfLane(m), w, v) = (u * P2 + r) - r * 1 + a * 1 BY <1>3, <1>4, <1>8, <1>9, <1>13
  <2>2. u * P2 \in Int BY ONLY <1>10
  <2>3. SetLane(HalfLane(m), w, v) = u * P2 + a BY ONLY <1>10, <2>1, <2>2
  <2>4. Word([f EXCEPT ![2 * m + 1] = c, ![2 * m + 2] = d]) = Compose(b1, b2, c, d)
    BY <1>13 DEF Word, Quads, b1, b2
  <2>5. GetLane(HalfLane(m), w) = f[2 * m + 1] * Radix + f[2 * m + 2] BY <1>8, <1>13 DEF r, b3, b4
  <2> QED BY <1>7, <1>11, <2>3, <2>4, <2>5 DEF w, c, d, a
<1> QED BY <1>12, <1>13

\* A sign-extended lane keeps its value, and has the sign of its highest bit.
LEMMA Extended ==
  ASSUME NEW n \in Nat \ {0}, 2 * n <= Mod, n % 2 = 0, NEW v \in 0..(n - 1), NEW l, l.values = n
  PROVE  /\ SignExtend(l, v) >= Least <=> v >= n \div 2
         /\ Signed(SignExtend(l, v)) % n = v
<1> DEFINE m == Mod
           h == Mod \div 2
           e == n \div 2
           s == SignExtend(l, v)
<1>1. m \in Nat /\ h \in Nat /\ m = 2 * h /\ n <= h /\ e \in Nat /\ n = 2 * e BY WordSize
<1>2. s = (IF v >= e THEN v + m - n ELSE v) BY DEF SignExtend
<1>3. Signed(s) = (IF s >= h THEN s - m ELSE s) BY DEF Signed
<1>4. Least = h BY DEF Least
<1> HIDE DEF s, m, h, e
<1>5. CASE v >= e
  <2>1. s = v + m - n /\ s >= h BY <1>1, <1>2, <1>5
  <2>2. Signed(s) = (-1) * n + v BY <1>1, <1>3, <2>1
  <2>3. ((-1) * n + v) % n = v
    <3>1. -1 \in Int /\ v \in Int /\ 0 <= v /\ v < n OBVIOUS
    <3> QED BY ONLY <3>1, n \in Nat \ {0}, DivModIs
  <2> QED BY <1>4, <1>5, <2>1, <2>2, <2>3 DEF s, e
<1>6. CASE ~(v >= e)
  <2>1. s = v /\ ~(s >= h) BY <1>1, <1>2, <1>6
  <2>2. Signed(s) = v /\ v % n = v BY <1>3, <2>1
  <2> QED BY <1>4, <1>6, <2>1, <2>2 DEF s, e
<1> QED BY <1>5, <1>6

\* The lanes of the program are these.
LEMMA LanesAre ==
  ASSUME NEW n \in 0..3
  PROVE  /\ Lane("sb", n) = ByteLane(n) /\ Lane("lb", n) = ByteLane(n) /\ Lane("lbu", n) = ByteLane(n)
         /\ Lane("sh", n) = HalfLane(n \div 2) /\ Lane("lh", n) = HalfLane(n \div 2)
         /\ Lane("lhu", n) = HalfLane(n \div 2)
         /\ n \div 2 \in 0..1
<1>1. n % 4 = n /\ n \div 2 \in 0..1 OBVIOUS
<1> QED BY <1>1 DEF Lane, ByteLane, HalfLane

\* A lane is at most half a word, and splits into halves.
LEMMA LanesFit ==
  /\ Radix \in Nat \ {0} /\ 2 * Radix <= Mod /\ Radix % 2 = 0 /\ Radix <= Mod
  /\ Power(2) \in Nat \ {0} /\ 2 * Power(2) <= Mod /\ Power(2) % 2 = 0 /\ Power(2) <= Mod
<1> DEFINE R == Radix
           P == Power(2)
           e == Radix \div 2
<1>1. R \in Nat \ {0} /\ R >= 2 /\ R % 2 = 0 /\ e \in Nat /\ R = 2 * e /\ P = R * R /\ Mod = P * P
  BY RadixAssumption, Sizes, Powers
<1> HIDE DEF R, P, e
<1>2. P \in Nat \ {0} /\ P >= 4 /\ P >= 2 * R BY ONLY <1>1
<1>3. P = 2 * (e * R) /\ e * R \in Nat BY ONLY <1>1
<1>4. P % 2 = 0
  <2> DEFINE d == e * R
  <2> HIDE DEF d
  <2>1. d \in Int /\ P = 2 * d BY <1>3 DEF d
  <2> QED BY <2>1
<1>5. P * P >= 4 * P BY ONLY <1>2
<1>6. Mod >= 4 * P BY <1>1, <1>5
<1>7. 2 * R <= Mod /\ 2 * P <= Mod /\ R <= Mod /\ P <= Mod BY ONLY <1>1, <1>2, <1>6, WordSize
<1> QED BY <1>1, <1>2, <1>4, <1>7 DEF R, P

\* The powers below a word.
LEMMA PowersSmall == \A n \in 0..3 : Power(n) \in Nat \ {0}
BY Powers

\* What is stored is loaded again.
LEMMA RoundTrip ==
  ASSUME x \in Words, y \in Words, z \in Words, k \in 0..3
  PROVE  PartialRoundTrip
<1> DEFINE b == StoreResult("sb", x, k, z)
           h == StoreResult("sh", x, k, z)
           f == Bytes(x)
           g == Bytes(z)
           m == k \div 2
           fb == [f EXCEPT ![k + 1] = z % Radix]
           fh == [f EXCEPT ![2 * m + 1] = g[3], ![2 * m + 2] = g[4]]
           p == z % Radix
           q == z % Power(2)
<1>1. f \in Quads /\ Word(f) = x /\ g \in Quads /\ z = Word(g) BY WordBytes
<1>2. m \in 0..1 /\ k \in 0..3 /\ k + 1 \in 1..4 /\ 2 * m + 1 \in 1..4 /\ 2 * m + 2 \in 1..4 /\ 2 * m + 1 # 2 * m + 2
  OBVIOUS
<1>3. b = SetLane(ByteLane(k), x, z) /\ h = SetLane(HalfLane(m), x, z)
  BY <1>2, LanesAre DEF StoreResult
<1>4. /\ LoadResult("lbu", b, k, y) = GetLane(ByteLane(k), b)
      /\ LoadResult("lb", b, k, y) = SignExtend(ByteLane(k), GetLane(ByteLane(k), b))
      /\ LoadResult("lhu", h, k, y) = GetLane(HalfLane(m), h)
      /\ LoadResult("lh", h, k, y) = SignExtend(HalfLane(m), GetLane(HalfLane(m), h))
  BY <1>2, LanesAre DEF LoadResult
<1> HIDE DEF b, h, f, g, m
<1>5. b = Word(fb) /\ p \in Byte BY <1>1, <1>2, <1>3, ByteLaneIs
<1>6. h = Word(fh) /\ q = g[3] * Radix + g[4] BY <1>1, <1>2, <1>3, HalfLaneIs
<1>7. fb \in Quads BY <1>1, <1>5 DEF Quads
<1>8. fh \in Quads
  <2> DEFINE c == g[3]
             d == g[4]
             f2 == [f EXCEPT ![2 * m + 1] = c]
  <2>1. c \in Byte /\ d \in Byte /\ f \in [1..4 -> Byte] BY <1>1 DEF Quads
  <2> HIDE DEF c, d
  <2>2. f2 \in [1..4 -> Byte] BY ONLY <2>1
  <2>3. fh = [f2 EXCEPT ![2 * m + 2] = d] BY DEF c, d
  <2> HIDE DEF f2, fh
  <2>4. fh \in [1..4 -> Byte] BY ONLY <2>1, <2>2, <2>3
  <2> QED BY <2>4 DEF Quads
<1>9. fb[k + 1] = p /\ \A i \in 1..4 : i # k + 1 => fb[i] = f[i] BY <1>1, <1>2 DEF Quads
<1>10. /\ fh[2 * m + 1] = g[3] /\ fh[2 * m + 2] = g[4]
       /\ \A i \in 1..4 : i # 2 * m + 1 /\ i # 2 * m + 2 => fh[i] = f[i]
  BY <1>1, <1>2 DEF Quads
<1> HIDE DEF fb, fh
<1>11. GetLane(ByteLane(k), b) = p BY <1>1, <1>5, <1>7, <1>9, ByteLaneIs
<1>12. GetLane(HalfLane(m), h) = q
  <2>1. GetLane(HalfLane(m), Word(fh)) = fh[2 * m + 1] * Radix + fh[2 * m + 2]
    BY <1>1, <1>2, <1>8, HalfLaneIs
  <2> QED BY <1>6, <1>10, <2>1
<1>13. Bytes(b) = fb /\ Bytes(h) = fh BY <1>5, <1>6, <1>7, <1>8, BytesWord
<1>14. p \in 0..(Radix - 1) /\ q \in 0..(Power(2) - 1)
  <2>1. z \in Int /\ Power(2) \in Nat \ {0} BY WordSize, Powers
  <2>2. q \in Int /\ 0 <= q /\ q < Power(2) BY <2>1, DivMod
  <2> HIDE DEF p, q
  <2> QED BY <1>5, <2>1, <2>2 DEF Byte
<1>15. /\ Radix \in Nat \ {0} /\ 2 * Radix <= Mod /\ Radix % 2 = 0
       /\ Power(2) \in Nat \ {0} /\ 2 * Power(2) <= Mod /\ Power(2) % 2 = 0
  BY LanesFit
<1> HIDE DEF p, q
<1>16. /\ LoadResult("lb", b, k, y) >= Least <=> p >= Radix \div 2
       /\ Signed(LoadResult("lb", b, k, y)) % Radix = p
  <2>1. ByteLane(k).values = Radix BY DEF ByteLane
  <2> QED BY <1>4, <1>11, <1>14, <1>15, <2>1, Extended
<1>17. LoadResult("lh", h, k, y) >= Least <=> q >= Power(2) \div 2
  <2>1. HalfLane(m).values = Power(2) BY DEF HalfLane
  <2> QED BY <1>4, <1>12, <1>14, <1>15, <2>1, Extended
<1>18. \A i \in 1..4 : /\ i # k + 1 => Bytes(b)[i] = f[i]
                       /\ (i - 1) \div 2 # k \div 2 => Bytes(h)[i] = f[i]
  <2> TAKE i \in 1..4
  <2>1. (i - 1) \div 2 # m => i # 2 * m + 1 /\ i # 2 * m + 2 BY <1>2
  <2> QED BY <1>9, <1>10, <1>13, <2>1 DEF m
<1> QED BY <1>4, <1>11, <1>12, <1>16, <1>17, <1>18 DEF PartialRoundTrip, b, h, f, p, q

-----------------------------------------------------------------------------
(* The operands are inputs: what holds for all of them always holds.       *)

\* The operands are words, and the offset is within one.
LEMMA OperandsAre == Init => x \in Words /\ y \in Words /\ z \in Words /\ k \in 0..3
BY OperandsAssumption DEF Init

\* func_multu returns the product of its operands, func_mult the signed one
\* wherever the mask 0x7fffffff keeps the magnitudes (exec_helper.cc).
THEOREM AlwaysProductsExact == Spec => []ProductsExact
<1>1. Init => ProductsExact
  <2> SUFFICES ASSUME Init PROVE ProductsExact OBVIOUS
  <2>1. x \in Words /\ y \in Words BY OperandsAre
  <2>2. Wide(MultuHiLo(x, y)) = x * y BY <2>1, MultuIs DEF Wide
  <2>3. x # Least /\ y # Least => Wide(MultHiLo(x, y)) = (Signed(x) * Signed(y)) % (Mod * Mod)
    BY <2>1, MultIs
  <2> QED BY <2>2, <2>3 DEF ProductsExact
<1>2. ProductsExact /\ [Next]_vars => ProductsExact' BY DEF ProductsExact, Next, vars
<1> QED BY <1>1, <1>2, PTL DEF Spec

\* func_div and func_divu return the quotient and the remainder, except for a
\* zero divisor and for the one quotient C gives no value.
THEOREM AlwaysDivExact == Spec => []DivExact
<1>1. Init => DivExact
  <2> SUFFICES ASSUME Init PROVE DivExact OBVIOUS
  <2>1. x \in Words /\ y \in Words BY OperandsAre
  <2> QED BY <2>1, DivuIs, DivIs DEF DivExact
<1>2. DivExact /\ [Next]_vars => DivExact' BY DEF DivExact, Next, vars
<1> QED BY <1>1, <1>2, PTL DEF Spec

\* A pair of partial loads or stores moves an unaligned word, whatever its
\* offset and whatever the other bytes hold.
THEOREM AlwaysUnalignedExact == Spec => []UnalignedExact
<1>1. Init => UnalignedExact BY OperandsAre, Unaligned
<1>2. UnalignedExact /\ [Next]_vars => UnalignedExact' BY DEF UnalignedExact, Memory, Next, vars
<1> QED BY <1>1, <1>2, PTL DEF Spec

\* A byte or half word is loaded as it was stored, and its neighbours keep
\* their value.
THEOREM AlwaysPartialRoundTrip == Spec => []PartialRoundTrip
<1>1. Init => PartialRoundTrip BY OperandsAre, RoundTrip
<1>2. PartialRoundTrip /\ [Next]_vars => PartialRoundTrip' BY DEF PartialRoundTrip, Next, vars
<1> QED BY <1>1, <1>2, PTL DEF Spec

-----------------------------------------------------------------------------
(* What the pipeline assumes of the arithmetic.                            *)

\* The hand-made product is two words.
LEMMA MultWords ==
  ASSUME NEW a \in Words, NEW b \in Words
  PROVE  MultuHiLo(a, b) \in Words \X Words /\ MultHiLo(a, b) \in Words \X Words
<1> DEFINE m == Mod
           h == Mod \div 2
           neg(v) == v >= h
           mag(v) == IF neg(v) THEN (m - v) % h ELSE v
           p == MultuHiLo(mag(a), mag(b))
           lo == (m - p[2]) % m
           hi == (m - 1 - p[1] + NegateCarry(lo)) % m
<1>1. m \in Nat \ {0} /\ h \in Nat \ {0} /\ m = 2 * h /\ Words = 0..(m - 1) BY WordSize
<1>2. MultuHiLo(a, b) \in Words \X Words
  <2> DEFINE r == MultuHiLo(a, b)
  <2>1. r = <<r[1], r[2]>> /\ r[1] \in Words /\ r[2] \in Words BY MultuIs
  <2> HIDE DEF r
  <2> QED BY <2>1 DEF r
<1>3. MultHiLo(a, b) = IF neg(a) # neg(b) THEN <<hi, lo>> ELSE p BY DEF MultHiLo
<1>4. ASSUME NEW v \in Words PROVE mag(v) \in Words
  <2>1. v \in 0..(m - 1) BY <1>1
  <2> HIDE DEF m, h
  <2>2. m - v \in Int BY <1>1, <2>1
  <2>3. (m - v) % h \in 0..(h - 1) BY <1>1, <2>2
  <2> QED BY <1>1, <2>1, <2>3
<1> HIDE DEF mag, neg
<1>5. p = <<p[1], p[2]>> /\ p[1] \in Words /\ p[2] \in Words BY <1>4, MultuIs
<1> HIDE DEF p, m, h
<1>6. lo \in Words
  <2>1. p[2] \in 0..(m - 1) /\ p[1] \in 0..(m - 1) BY <1>1, <1>5
  <2>2. m - p[2] \in Int BY <1>1, <2>1
  <2> QED BY <1>1, <2>2
<1> HIDE DEF lo
<1>7. hi \in Words
  <2>1. NegateCarry(lo) \in Int BY DEF NegateCarry, Bool01
  <2>2. p[1] \in 0..(m - 1) BY <1>1, <1>5
  <2>3. m - 1 - p[1] + NegateCarry(lo) \in Int BY <1>1, <2>1, <2>2
  <2> QED BY <1>1, <2>3
<1> HIDE DEF hi
<1>8. MultHiLo(a, b) \in Words \X Words BY <1>3, <1>5, <1>6, <1>7
<1> QED BY <1>2, <1>8

\* So are a quotient and a remainder, whatever the operands.
LEMMA DivWords ==
  ASSUME NEW op, NEW a \in Words, NEW b \in Words
  PROVE  DivHiLo(op, a, b) \in Words \X Words
<1> DEFINE v == IF op = "div" THEN Signed(a) ELSE a
           w == IF op = "div" THEN Signed(b) ELSE b
           q == Truncated(v, w)
<1>1. /\ Mod \in Nat \ {0} /\ Mod \div 2 \in Nat /\ Mod \div 2 >= 8 /\ Mod = 2 * (Mod \div 2)
      /\ Words = 0..(Mod - 1)
  BY WordSize
<1>2. CASE b = 0
  <2>1. Mod \div 2 - 1 \in Words
    <3> DEFINE h == Mod \div 2
    <3> HIDE DEF h
    <3>1. h - 1 \in 0..(Mod - 1) BY <1>1 DEF h
    <3> QED BY <1>1, <3>1 DEF h
  <2>2. DivHiLo(op, a, b) = <<Mod \div 2 - 1, Mod \div 2 - 1>> BY <1>2 DEF DivHiLo
  <2> QED BY <2>1, <2>2
<1>3. CASE b # 0
  <2>1. DivHiLo(op, a, b) = <<Unsigned(v - q * w), Unsigned(q)>> BY <1>3 DEF DivHiLo
  <2>2. v \in Int /\ w \in Int /\ w # 0 BY <1>1, <1>3, SignedIs
  <2> DEFINE t == q
             r == v - q * w
  <2> HIDE DEF v, w
  <2>3. t = Truncated(v, w) OBVIOUS
  <2> HIDE DEF t
  <2>4. t \in Int /\ v - t * w \in Int BY <2>2, <2>3, TruncatedIs
  <2>5. r \in Int /\ q \in Int BY <2>4 DEF t
  <2> HIDE DEF r, q
  <2>6. Unsigned(r) \in Words /\ Unsigned(q) \in Words BY <1>1, <2>5 DEF Unsigned
  <2> QED BY <2>1, <2>6 DEF r
<1> QED BY <1>2, <1>3

\* The lane of an address.
LEMMA LaneIs ==
  ASSUME NEW op, NEW a \in Words
  PROVE  /\ a % 4 \in 0..3 /\ (a % 4) \div 2 \in 0..1 /\ 3 - (a % 4) \in 0..3
         /\ Lane(op, a) = IF op \in {"lb", "lbu", "sb"} THEN ByteLane(a % 4) ELSE HalfLane((a % 4) \div 2)
<1>1. a \in Nat BY WordSize
<1>2. a % 4 \in 0..3 BY <1>1
<1>3. (a % 4) \div 2 \in 0..1 /\ 3 - (a % 4) \in 0..3 BY <1>2
<1> QED BY <1>2, <1>3 DEF Lane, ByteLane, HalfLane

\* A lane holds a number of its size; extended, or put into a word, it gives
\* a word.
LEMMA LaneWords ==
  ASSUME NEW op, NEW a \in Words, NEW w \in Words, NEW v \in Words
  PROVE  /\ GetLane(Lane(op, a), w) \in Words
         /\ SignExtend(Lane(op, a), GetLane(Lane(op, a), w)) \in Words
         /\ SetLane(Lane(op, a), w, v) \in Words
<1> DEFINE l == Lane(op, a)
           n == l.values
           f == Bytes(w)
           g == Bytes(v)
           k1 == a % 4
           m1 == (a % 4) \div 2
           u == GetLane(l, w)
<1>1. f \in Quads /\ Word(f) = w /\ g \in Quads /\ v = Word(g) BY WordBytes
<1>2. k1 \in 0..3 /\ m1 \in 0..1 BY LaneIs
<1>3. l = ByteLane(k1) \/ l = HalfLane(m1) BY LaneIs
<1> HIDE DEF l, f, g, k1, m1
<1>4. SetLane(l, w, v) \in Words
  <2>1. CASE l = ByteLane(k1)
    <3> DEFINE f2 == [f EXCEPT ![k1 + 1] = v % Radix]
    <3>1. SetLane(l, w, v) = Word(f2) /\ v % Radix \in Byte BY <1>1, <1>2, <2>1, ByteLaneIs
    <3>2. f2 \in Quads BY <1>1, <3>1 DEF Quads
    <3> HIDE DEF f2
    <3> QED BY <3>1, <3>2, BytesWord
  <2>2. CASE l = HalfLane(m1)
    <3> DEFINE c == g[3]
               d == g[4]
               f2 == [f EXCEPT ![2 * m1 + 1] = c]
               f3 == [f2 EXCEPT ![2 * m1 + 2] = d]
    <3>1. SetLane(l, w, v) = Word(f3) BY <1>1, <1>2, <2>2, HalfLaneIs
    <3>2. c \in Byte /\ d \in Byte BY <1>1 DEF Quads
    <3> HIDE DEF c, d
    <3>3. f2 \in Quads BY <1>1, <3>2 DEF Quads
    <3> HIDE DEF f2
    <3>4. f3 \in Quads BY <3>2, <3>3 DEF Quads
    <3> HIDE DEF f3
    <3> QED BY <3>1, <3>4, BytesWord
  <2> QED BY <1>3, <2>1, <2>2
<1>5. n \in Nat \ {0} /\ n <= Mod
  <2>1. Radix <= Mod /\ Power(2) <= Mod BY LanesFit
  <2> QED BY <1>3, <2>1, Powers DEF ByteLane, HalfLane
<1>6. u \in 0..(n - 1)
  <2>1. l.place \in Nat \ {0} BY <1>2, <1>3, PowersSmall DEF ByteLane, HalfLane
  <2>2. w \in Int BY WordSize
  <2> DEFINE c == w \div l.place
  <2>3. c \in Int BY <2>1, <2>2, DivMod
  <2>4. u = c % n BY DEF GetLane
  <2> HIDE DEF c, u, n
  <2> QED BY <1>5, <2>3, <2>4, DivMod
<1>7. SignExtend(l, u) = (IF u >= n \div 2 THEN u + Mod - n ELSE u) BY DEF SignExtend
<1>8. u \in Words /\ SignExtend(l, u) \in Words
  <2>1. Mod \in Nat \ {0} /\ Words = 0..(Mod - 1) BY WordSize
  <2> HIDE DEF u, n
  <2>2. u \in 0..(Mod - 1) /\ u + Mod - n \in 0..(Mod - 1) BY ONLY <1>5, <1>6, <2>1
  <2> QED BY <1>7, <2>1, <2>2
<1> QED BY <1>4, <1>8 DEF l, u

\* Products, quotients, loads and stores give words, as the pipeline assumes
\* of them (ArithmeticOK of MipsInsn): nothing the handlers compute leaves the
\* registers' width.
THEOREM ResultsAreWords ==
  ASSUME NEW op, NEW a \in Words, NEW b \in Words, NEW r \in Words
  PROVE  /\ MulDivHiLo(op, a, b) \in Words \X Words
         /\ LoadResult(op, a, b, r) \in Words /\ StoreResult(op, a, b, r) \in Words
<1>1. MulDivHiLo(op, a, b) \in Words \X Words BY MultWords, DivWords DEF MulDivHiLo
<1>2. b % 4 \in 0..3 /\ 3 - (b % 4) \in 0..3 BY LaneIs
<1> DEFINE l == Lane(op, b)
           u == GetLane(l, a)
<1>3. u \in Words /\ SignExtend(l, u) \in Words /\ SetLane(l, a, r) \in Words BY LaneWords
<1> HIDE DEF l
<1>4. LoadResult(op, a, b, r) \in Words
  <2>1. CASE op = "lwl" BY <2>1, <1>2, PartialsAre, LowBytes
  <2>2. CASE op = "lwr" BY <2>2, <1>2, PartialsAre, HighBytes
  <2>3. CASE op \notin {"lwl", "lwr"}
    <3>1. LoadResult(op, a, b, r) = CASE op \in {"lb", "lh"} -> SignExtend(l, u)
                                      [] op \in {"lbu", "lhu"} -> u
                                      [] OTHER -> a
      BY <2>3 DEF LoadResult, l
    <3> HIDE DEF u
    <3> QED BY <1>3, <3>1
  <2> QED BY <2>1, <2>2, <2>3
<1>5. StoreResult(op, a, b, r) \in Words
  <2>1. CASE op = "swl" BY <2>1, <1>2, PartialsAre, HighBytes
  <2>2. CASE op = "swr" BY <2>2, <1>2, PartialsAre, LowBytes
  <2>3. CASE op \notin {"swl", "swr"}
    <3>1. StoreResult(op, a, b, r) = IF op \in {"sb", "sh"} THEN SetLane(l, a, r) ELSE r
      BY <2>3 DEF StoreResult, l
    <3> QED BY <1>3, <3>1
  <2> QED BY <2>1, <2>2, <2>3
<1> QED BY <1>1, <1>4, <1>5
=============================================================================
