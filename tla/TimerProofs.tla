---------------------------- MODULE TimerProofs ----------------------------
(* Proofs about the timing wheel for any sizes of its levels, any finite   *)
(* set of nodes and any number of rounds of the counter.                   *)
EXTENDS Timer, FiniteSetTheorems, SequenceTheorems, WellFoundedInduction, TLAPS

-----------------------------------------------------------------------------
(* Division is by this property what it is.                                *)
LEMMA Quotient ==
    ASSUME NEW x \in Nat, NEW n \in Nat \ {0}
    PROVE  /\ x \div n \in Nat /\ x % n \in 0 .. n - 1
           /\ x = n * (x \div n) + (x % n)
OBVIOUS

(* and only what it is.                                                    *)
LEMMA QuotientIs ==
    ASSUME NEW x \in Nat, NEW n \in Nat \ {0}, NEW q \in Nat, NEW r \in 0 .. n - 1,
           x = n * q + r
    PROVE  x \div n = q /\ x % n = r
<1>1. x \div n \in Nat /\ x % n \in 0 .. n - 1 /\ x = n * (x \div n) + (x % n)
  BY Quotient
<1> DEFINE p == x \div n
           t == x % n
<1>2. p \in Nat /\ t \in 0 .. n - 1 /\ n * p + t = n * q + r
  BY <1>1
<1> HIDE DEF p, t
<1>3. ~(p < q)
  <2> SUFFICES ASSUME p + 1 <= q PROVE FALSE
    BY <1>2
  <2>1. n * (p + 1) <= n * q
    BY <1>2
  <2>2. n * (p + 1) = n * p + n
    BY <1>2
  <2> QED BY <1>2, <2>1, <2>2
<1>4. ~(q < p)
  <2> SUFFICES ASSUME q + 1 <= p PROVE FALSE
    BY <1>2
  <2>1. n * (q + 1) <= n * p
    BY <1>2
  <2>2. n * (q + 1) = n * q + n
    BY <1>2
  <2> QED BY <1>2, <2>1, <2>2
<1>5. p = q
  BY <1>2, <1>3, <1>4
<1> QED BY <1>2, <1>5 DEF p, t

(* Division keeps the order.                                               *)
LEMMA QuotientMonotone ==
    ASSUME NEW x \in Nat, NEW y \in Nat, NEW n \in Nat \ {0}, x <= y
    PROVE  x \div n <= y \div n
<1> DEFINE p == x \div n
           q == y \div n
           r == x % n
           t == y % n
<1>1. p \in Nat /\ q \in Nat /\ r \in 0 .. n - 1 /\ t \in 0 .. n - 1
      /\ x = n * p + r /\ y = n * q + t
  BY Quotient
<1> HIDE DEF p, q, r, t
<1>2. ASSUME q + 1 <= p PROVE FALSE
  <2>1. n * (q + 1) <= n * p
    BY <1>1, <1>2
  <2>2. n * (q + 1) = n * q + n
    BY <1>1
  <2> QED BY <1>1, <2>1, <2>2
<1> QED BY <1>1, <1>2 DEF p, q

(* Dividing twice is dividing by the product.                              *)
LEMMA QuotientTwice ==
    ASSUME NEW x \in Nat, NEW n \in Nat \ {0}, NEW m \in Nat \ {0}
    PROVE  /\ x \div (n * m) = (x \div n) \div m
           /\ x % (n * m) = 0 <=> x % n = 0 /\ (x \div n) % m = 0
<1> DEFINE p == x \div n
           r == x % n
           q == p \div m
           t == p % m
<1>1. p \in Nat /\ r \in 0 .. n - 1 /\ x = n * p + r
  BY Quotient
<1>2. q \in Nat /\ t \in 0 .. m - 1 /\ p = m * q + t
  BY <1>1, Quotient
<1> HIDE DEF p, q, r, t
<1>3. n * m \in Nat \ {0}
  OBVIOUS
<1>4. n * t + r \in 0 .. n * m - 1
  <2>1. n * t + r \in Nat
    BY <1>1, <1>2
  <2>2. n * t <= n * (m - 1)
    BY <1>2
  <2>3. n * (m - 1) = n * m - n
    OBVIOUS
  <2> QED BY <1>1, <1>2, <1>3, <2>1, <2>2, <2>3
<1>5. x = (n * m) * q + (n * t + r)
  <2>1. n * p = n * (m * q) + n * t
    BY <1>2
  <2>2. n * (m * q) = (n * m) * q
    BY <1>2
  <2> QED BY <1>1, <1>2, <2>1, <2>2
<1>6. x \div (n * m) = q /\ x % (n * m) = n * t + r
  BY <1>2, <1>3, <1>4, <1>5, QuotientIs
<1>7. n * t + r = 0 <=> r = 0 /\ t = 0
  <2>1. n * t \in Nat
    BY <1>2
  <2>2. n * t = 0 <=> t = 0
    BY <1>2
  <2> QED BY <1>1, <1>2, <2>1, <2>2
<1> QED BY <1>6, <1>7 DEF p, q, r, t

(* A quotient by n goes up by one exactly where n divides the successor.   *)
LEMMA QuotientNext ==
    ASSUME NEW x \in Nat, NEW n \in Nat \ {0}
    PROVE  IF (x + 1) % n = 0 THEN (x + 1) \div n = x \div n + 1
                              ELSE (x + 1) \div n = x \div n
<1> DEFINE p == x \div n
           r == x % n
<1>1. p \in Nat /\ r \in 0 .. n - 1 /\ x = n * p + r
  BY Quotient
<1> HIDE DEF p, r
<1>2. CASE r = n - 1
  <2>1. x + 1 = n * (p + 1) + 0
    BY <1>1, <1>2
  <2>2. p + 1 \in Nat /\ 0 \in 0 .. n - 1 /\ x + 1 \in Nat
    BY <1>1
  <2>3. (x + 1) \div n = p + 1 /\ (x + 1) % n = 0
    BY <2>1, <2>2, QuotientIs
  <2> QED BY <2>3 DEF p
<1>3. CASE r < n - 1
  <2>1. x + 1 = n * p + (r + 1)
    BY <1>1, <1>3
  <2>2. r + 1 \in 0 .. n - 1 /\ x + 1 \in Nat /\ r + 1 # 0
    BY <1>1, <1>3
  <2>3. (x + 1) \div n = p /\ (x + 1) % n = r + 1
    BY <1>1, <2>1, <2>2, QuotientIs
  <2> QED BY <2>2, <2>3 DEF p
<1> QED BY <1>1, <1>2, <1>3

-----------------------------------------------------------------------------
(* The blocks of the levels.                                               *)
LEMMA SpanIs ==
    /\ Span(0) = TIME_NEAR
    /\ Span(1) = Span(0) * TIME_LEVEL
    /\ Span(2) = Span(1) * TIME_LEVEL
    /\ Span(3) = Span(2) * TIME_LEVEL
    /\ Span(4) = Span(3) * TIME_LEVEL
<1> DEFINE Eq(f) == f = [k \in 0 .. 4 |-> IF k = 0 THEN TIME_NEAR ELSE f[k - 1] * TIME_LEVEL]
           a == TIME_NEAR
           b == a * TIME_LEVEL
           c == b * TIME_LEVEL
           d == c * TIME_LEVEL
           e == d * TIME_LEVEL
           g == [k \in 0 .. 4 |-> IF k = 0 THEN a ELSE IF k = 1 THEN b
                                  ELSE IF k = 2 THEN c ELSE IF k = 3 THEN d ELSE e]
           f == CHOOSE f : Eq(f)
<1>1. Eq(g)
  <2>1. g[0] = a /\ g[1] = b /\ g[2] = c /\ g[3] = d /\ g[4] = e
    OBVIOUS
  <2>2. \A k \in 0 .. 4 : k = 0 \/ k = 1 \/ k = 2 \/ k = 3 \/ k = 4
    OBVIOUS
  <2>3. \A k \in 0 .. 4 : g[k] = IF k = 0 THEN TIME_NEAR ELSE g[k - 1] * TIME_LEVEL
    <3> HIDE DEF g
    <3> QED BY <2>1, <2>2
  <2> DEFINE h == [k \in 0 .. 4 |-> IF k = 0 THEN TIME_NEAR ELSE g[k - 1] * TIME_LEVEL]
  <2>4. \A k \in 0 .. 4 : g[k] = h[k]
    <3> HIDE DEF g
    <3> QED BY <2>3
  <2>5. g = h
    <3>1. g = [k \in 0 .. 4 |-> g[k]] /\ h = [k \in 0 .. 4 |-> h[k]]
      OBVIOUS
    <3> HIDE DEF g, h
    <3> QED BY <2>4, <3>1
  <2> QED BY <2>5
<1>2. Eq(f)
  <2>1. \E x : Eq(x)
    <3> HIDE DEF Eq, g
    <3> QED BY <1>1
  <2> HIDE DEF Eq
  <2> QED BY <2>1
<1>3. \A i \in 0 .. 4 : Span(i) = f[i]
  BY DEF Span
<1> HIDE DEF f
<1>4. f[0] = TIME_NEAR /\ f[1] = f[0] * TIME_LEVEL /\ f[2] = f[1] * TIME_LEVEL
      /\ f[3] = f[2] * TIME_LEVEL /\ f[4] = f[3] * TIME_LEVEL
  BY <1>2
<1> QED BY <1>3, <1>4

(* The block of level i that x falls into.                                 *)
Block(i, x) == x \div Span(i)

Tick == 0 .. Period - 1
Level == 0 .. 3

LEMMA SpanTyped ==
    /\ \A i \in 0 .. 4 : Span(i) \in Nat \ {0, 1}
    /\ \A i \in Level : Span(i + 1) = Span(i) * TIME_LEVEL
    /\ Period \in Nat /\ Span(0) = TIME_NEAR
<1>1. TIME_NEAR \in Nat \ {0, 1} /\ TIME_LEVEL \in Nat \ {0, 1}
  BY TimerAssumption
<1>2. \A x \in Nat \ {0, 1} : x * TIME_LEVEL \in Nat \ {0, 1}
  <2> SUFFICES ASSUME NEW x \in Nat \ {0, 1} PROVE x * TIME_LEVEL \in Nat \ {0, 1}
    OBVIOUS
  <2>1. x * TIME_LEVEL \in Nat
    BY <1>1
  <2>2. x * TIME_LEVEL >= x * 2
    BY <1>1
  <2> QED BY <2>1, <2>2
<1>3. Span(0) \in Nat \ {0, 1}
  BY <1>1, SpanIs
<1>4. Span(1) \in Nat \ {0, 1}
  BY <1>2, <1>3, SpanIs
<1>5. Span(2) \in Nat \ {0, 1}
  BY <1>2, <1>4, SpanIs
<1>6. Span(3) \in Nat \ {0, 1}
  BY <1>2, <1>5, SpanIs
<1>7. Span(4) \in Nat \ {0, 1}
  BY <1>2, <1>6, SpanIs
<1>8. \A i \in 0 .. 4 : i = 0 \/ i = 1 \/ i = 2 \/ i = 3 \/ i = 4
  OBVIOUS
<1>9. \A i \in Level : i = 0 \/ i = 1 \/ i = 2 \/ i = 3
  BY DEF Level
<1>10. \A i \in 0 .. 4 : Span(i) \in Nat \ {0, 1}
  BY <1>3, <1>4, <1>5, <1>6, <1>7, <1>8
<1>11. \A i \in Level : Span(i + 1) = Span(i) * TIME_LEVEL
  BY <1>9, SpanIs
<1> QED BY <1>7, <1>10, <1>11, SpanIs DEF Period

(* What the blocks of two levels have to do with each other.               *)
LEMMA BlockTyped ==
    ASSUME NEW x \in Nat, NEW i \in 0 .. 4
    PROVE  Block(i, x) \in Nat
BY SpanTyped, Quotient DEF Block

LEMMA BlockAbove ==
    ASSUME NEW x \in Nat, NEW i \in Level
    PROVE  /\ Block(i + 1, x) = Block(i, x) \div TIME_LEVEL
           /\ Block(i, x) = TIME_LEVEL * Block(i + 1, x) + (Block(i, x) % TIME_LEVEL)
           /\ Block(i, x) % TIME_LEVEL \in 0 .. TIME_LEVEL - 1
<1>1. i \in 0 .. 4 /\ Span(i) \in Nat \ {0} /\ TIME_LEVEL \in Nat \ {0}
      /\ Span(i + 1) = Span(i) * TIME_LEVEL
  BY SpanTyped, TimerAssumption DEF Level
<1>2. Block(i + 1, x) = Block(i, x) \div TIME_LEVEL
  BY <1>1, QuotientTwice DEF Block
<1>3. Block(i, x) \in Nat
  BY <1>1, BlockTyped
<1> QED BY <1>1, <1>2, <1>3, Quotient

LEMMA BlockTop == \A x \in Tick : Block(4, x) = 0
<1> SUFFICES ASSUME NEW x \in Tick PROVE Block(4, x) = 0
  OBVIOUS
<1>1. x \in Nat /\ Span(4) \in Nat \ {0} /\ 0 \in Nat /\ x \in 0 .. Span(4) - 1
  BY SpanTyped DEF Tick, Period
<1>2. x = Span(4) * 0 + x
  BY <1>1
<1> QED BY <1>1, <1>2, QuotientIs DEF Block

LEMMA BlockMonotone ==
    ASSUME NEW x \in Nat, NEW y \in Nat, x <= y, NEW i \in 0 .. 4
    PROVE  Block(i, x) <= Block(i, y)
BY SpanTyped, QuotientMonotone DEF Block

(* The four levels and the near lists in one expression.                   *)
LEMMA SlotForIs ==
    ASSUME NEW e \in Tick, NEW now \in Tick
    PROVE  SlotFor(e, now) =
             IF Block(0, e) = Block(0, now) THEN <<NEAR, e % TIME_NEAR>>
             ELSE IF Block(1, e) = Block(1, now) THEN <<0, Block(0, e) % TIME_LEVEL>>
             ELSE IF Block(2, e) = Block(2, now) THEN <<1, Block(1, e) % TIME_LEVEL>>
             ELSE IF Block(3, e) = Block(3, now) THEN <<2, Block(2, e) % TIME_LEVEL>>
             ELSE <<3, Block(3, e) % TIME_LEVEL>>
<1> DEFINE P(i) == /\ i = 3 \/ Block(i + 1, e) = Block(i + 1, now)
                   /\ \A j \in 0 .. i - 1 : Block(j + 1, e) # Block(j + 1, now)
           c == CHOOSE i \in 0 .. 3 : P(i)
<1>1. SlotFor(e, now) = IF Block(0, e) = Block(0, now) THEN <<NEAR, e % TIME_NEAR>>
                        ELSE <<c, Block(c, e) % TIME_LEVEL>>
  BY SpanIs DEF SlotFor, Block
<1>2. \A i, j \in 0 .. 3 : P(i) /\ P(j) => i = j
  <2> SUFFICES ASSUME NEW i \in 0 .. 3, NEW j \in 0 .. 3, P(i), P(j), i < j PROVE FALSE
    BY DEF P
  <2>1. i \in 0 .. j - 1 /\ i # 3
    OBVIOUS
  <2> QED BY <2>1
<1>3. ASSUME NEW i \in 0 .. 3, P(i) PROVE c = i
  <2> HIDE DEF P
  <2> QED BY <1>2, <1>3
<1>4. CASE Block(1, e) = Block(1, now)
  <2>1. P(0)
    BY <1>4
  <2>2. c = 0
    BY <1>3, <2>1
  <2> QED BY <1>1, <1>4, <2>2
<1>5. CASE Block(1, e) # Block(1, now) /\ Block(2, e) = Block(2, now)
  <2>1. P(1)
    BY <1>5
  <2>2. c = 1
    BY <1>3, <2>1
  <2> QED BY <1>1, <1>5, <2>2
<1>6. CASE Block(1, e) # Block(1, now) /\ Block(2, e) # Block(2, now)
           /\ Block(3, e) = Block(3, now)
  <2>0. \A j \in 0 .. 2 - 1 : j = 0 \/ j = 1
    OBVIOUS
  <2>1. P(2)
    BY <1>6, <2>0
  <2>2. c = 2
    BY <1>3, <2>1
  <2> QED BY <1>1, <1>6, <2>2
<1>7. CASE Block(1, e) # Block(1, now) /\ Block(2, e) # Block(2, now)
           /\ Block(3, e) # Block(3, now)
  <2>0. \A j \in 0 .. 3 - 1 : j = 0 \/ j = 1 \/ j = 2
    OBVIOUS
  <2>1. P(3)
    BY <1>7, <2>0
  <2>2. c = 3
    BY <1>3, <2>1
  <2> QED BY <1>1, <1>7, <2>2
<1> QED BY <1>4, <1>5, <1>6, <1>7

(* Ticks in one block are in one block of every higher level.              *)
LEMMA BlockUp ==
    ASSUME NEW x \in Nat, NEW y \in Nat, NEW i \in 0 .. 4, NEW k \in i .. 4,
           Block(i, x) = Block(i, y)
    PROVE  Block(k, x) = Block(k, y)
<1>1. \A h \in Level : Block(h, x) = Block(h, y) => Block(h + 1, x) = Block(h + 1, y)
  BY BlockAbove
<1>2. Block(0, x) = Block(0, y) => Block(1, x) = Block(1, y)
  BY <1>1 DEF Level
<1>3. Block(1, x) = Block(1, y) => Block(2, x) = Block(2, y)
  BY <1>1 DEF Level
<1>4. Block(2, x) = Block(2, y) => Block(3, x) = Block(3, y)
  BY <1>1 DEF Level
<1>5. Block(3, x) = Block(3, y) => Block(4, x) = Block(4, y)
  BY <1>1 DEF Level
<1>6. /\ i = 0 \/ i = 1 \/ i = 2 \/ i = 3 \/ i = 4
      /\ k = 0 \/ k = 1 \/ k = 2 \/ k = 3 \/ k = 4
      /\ i <= k
  OBVIOUS
<1> QED BY <1>2, <1>3, <1>4, <1>5, <1>6

(* Ticks in one block are less than its span apart.                        *)
LEMMA SameBlockClose ==
    ASSUME NEW x \in Nat, NEW y \in Nat, NEW i \in 0 .. 4, Block(i, x) = Block(i, y)
    PROVE  x - y < Span(i)
<1> DEFINE n == Span(i)
           p == x \div n
           q == y \div n
           r == x % n
           t == y % n
<1>1. n \in Nat \ {0}
  BY SpanTyped
<1>2. /\ p \in Nat /\ r \in 0 .. n - 1 /\ x = n * p + r
      /\ q \in Nat /\ t \in 0 .. n - 1 /\ y = n * q + t
  BY <1>1, Quotient
<1>3. p = q
  BY DEF Block
<1> HIDE DEF n, p, q, r, t
<1>4. n * p = n * q /\ n * p \in Int
  BY <1>1, <1>2, <1>3
<1> QED BY <1>1, <1>2, <1>4 DEF n

(* The wheel is more than one list of the highest level longer than a      *)
(* delay.                                                                  *)
LEMMA DelayIsShort ==
    /\ MaxDelay \in Nat \ {0} /\ MaxDelay + Span(3) < Period /\ 2 * MaxDelay < Period
<1> DEFINE m == Span(3)
<1>1. m \in Nat \ {0, 1} /\ Period = m * TIME_LEVEL /\ TIME_LEVEL \in Nat \ {0, 1}
      /\ Period \in Nat
  BY SpanTyped, SpanIs, TimerAssumption DEF Period
<1> HIDE DEF m
<1>2. m * TIME_LEVEL >= m * 2
  BY <1>1
<1>3. 2 * m <= Period /\ 4 <= Period
  BY <1>1, <1>2
<1> DEFINE d == Period \div 2
<1>4. d \in Nat /\ 2 * d <= Period /\ Period <= 2 * d + 1
  BY <1>1
<1>5. MaxDelay = d - 1
  BY DEF MaxDelay
<1> HIDE DEF d
<1>6. d >= 2 /\ m <= d
  BY <1>1, <1>3, <1>4
<1> QED BY <1>1, <1>4, <1>5, <1>6 DEF m

(* A tick that is w later has come round at most once,                     *)
LEMMA Later ==
    ASSUME NEW now \in Tick, NEW w \in 0 .. MaxDelay
    PROVE  /\ (now + w) % Period \in Tick
           /\ \/ (now + w) % Period = now + w
              \/ (now + w) % Period = now + w - Period /\ now + w >= Period
<1>1. Period \in Nat \ {0} /\ MaxDelay < Period /\ MaxDelay \in Nat
  BY DelayIsShort, SpanTyped
<1>2. now + w \in Nat
  BY <1>1 DEF Tick
<1>3. CASE now + w < Period
  <2>1. now + w = Period * 0 + (now + w) /\ now + w \in 0 .. Period - 1 /\ 0 \in Nat
    BY <1>1, <1>2, <1>3
  <2>2. (now + w) % Period = now + w
    BY <1>1, <1>2, <2>1, QuotientIs
  <2> QED BY <2>1, <2>2 DEF Tick
<1>4. CASE now + w >= Period
  <2>1. now + w = Period * 1 + (now + w - Period) /\ now + w - Period \in 0 .. Period - 1
        /\ 1 \in Nat
    BY <1>1, <1>2, <1>4 DEF Tick
  <2>2. (now + w) % Period = now + w - Period
    BY <1>1, <1>2, <2>1, QuotientIs
  <2> QED BY <1>4, <2>1, <2>2 DEF Tick
<1> QED BY <1>1, <1>2, <1>3, <1>4

(* and then it lies in an earlier list of the highest level.               *)
LEMMA RoundIsFar ==
    ASSUME NEW now \in Tick, NEW e \in Tick, now - e > Span(3), NEW i \in Level
    PROVE  Block(i, e) # Block(i, now)
<1>1. e \in Nat /\ now \in Nat /\ i \in 0 .. 4 /\ 3 \in i .. 4 /\ 3 \in 0 .. 4
  BY DEF Tick, Level
<1>2. Block(3, e) # Block(3, now)
  <2>1. Span(3) \in Nat
    BY SpanTyped
  <2> QED BY <1>1, <2>1, SameBlockClose
<1> QED BY <1>1, <1>2, BlockUp

LEMMA SlotSame ==
    ASSUME NEW e \in Tick, NEW now \in Tick, NEW ct \in Tick,
           \A i \in Level : Block(i, e) = Block(i, now) <=> Block(i, e) = Block(i, ct)
    PROVE  SlotFor(e, now) = SlotFor(e, ct)
<1>1. 0 \in Level /\ 1 \in Level /\ 2 \in Level /\ 3 \in Level
  BY DEF Level
<1> QED BY <1>1, SlotForIs

(* The list of a level that a tick opens is redistributed at that tick.    *)
LEMMA OpensShifted ==
    ASSUME NEW ct \in Tick, ct # 0, NEW i \in Level, ct % Span(i) = 0,
           Block(i, ct) % TIME_LEVEL # 0
    PROVE  <<i, Block(i, ct) % TIME_LEVEL>> \in ShiftedLists(ct)
<1>1. Block(i, ct) % TIME_LEVEL \in 0 .. TIME_LEVEL - 1
  BY BlockAbove DEF Tick
<1>2. <<i, Block(i, ct) % TIME_LEVEL>> \in Slot /\ i # NEAR
  BY <1>1 DEF Slot, Level, NEAR
<1> QED BY <1>2 DEF ShiftedLists, Block

(* Where higher levels turn, all lower ones stand at 0.                    *)
LEMMA LowerStandAtZero ==
    ASSUME NEW ct \in Tick, NEW i \in Level, NEW k \in Level, i < k, ct % Span(k) = 0
    PROVE  Block(i, ct) % TIME_LEVEL = 0
<1>1. \A h \in Level : ct % Span(h + 1) = 0 =>
         ct % Span(h) = 0 /\ Block(h, ct) % TIME_LEVEL = 0
  <2> SUFFICES ASSUME NEW h \in Level, ct % Span(h + 1) = 0
               PROVE  ct % Span(h) = 0 /\ Block(h, ct) % TIME_LEVEL = 0
    OBVIOUS
  <2>1. Span(h) \in Nat \ {0} /\ TIME_LEVEL \in Nat \ {0} /\ ct \in Nat
        /\ Span(h + 1) = Span(h) * TIME_LEVEL
    BY SpanTyped, TimerAssumption DEF Level, Tick
  <2> QED BY <2>1, QuotientTwice DEF Block
<1>2. ct % Span(3) = 0 => ct % Span(2) = 0 /\ Block(2, ct) % TIME_LEVEL = 0
  BY <1>1 DEF Level
<1>3. ct % Span(2) = 0 => ct % Span(1) = 0 /\ Block(1, ct) % TIME_LEVEL = 0
  BY <1>1 DEF Level
<1>4. ct % Span(1) = 0 => ct % Span(0) = 0 /\ Block(0, ct) % TIME_LEVEL = 0
  BY <1>1 DEF Level
<1>5. (i = 0 \/ i = 1 \/ i = 2 \/ i = 3) /\ (k = 0 \/ k = 1 \/ k = 2 \/ k = 3)
  BY DEF Level
<1> QED BY <1>2, <1>3, <1>4, <1>5

(* A tick opens one list at most.                                          *)
LEMMA OneShifted ==
    ASSUME NEW ct \in Tick, NEW s \in ShiftedLists(ct), NEW t \in ShiftedLists(ct)
    PROVE  s = t
<1>1. CASE ct = 0
  BY <1>1 DEF ShiftedLists
<1>2. CASE ct # 0
  <2>1. ASSUME NEW q \in ShiftedLists(ct)
        PROVE  /\ q = <<q[1], Block(q[1], ct) % TIME_LEVEL>> /\ q[1] \in Level
               /\ ct % Span(q[1]) = 0 /\ Block(q[1], ct) % TIME_LEVEL # 0
    <3>1. q \in Slot /\ q[1] # NEAR /\ ct % Span(q[1]) = 0 /\ q[2] # 0
          /\ q[2] = Block(q[1], ct) % TIME_LEVEL
      BY <1>2 DEF ShiftedLists, Block
    <3>2. q \in Level \X (0 .. TIME_LEVEL - 1)
      BY <3>1 DEF Slot, Level
    <3> QED BY <3>1, <3>2
  <2>2. ~(s[1] < t[1]) /\ ~(t[1] < s[1])
    BY <2>1, LowerStandAtZero
  <2>3. s[1] = t[1]
    BY <2>1, <2>2 DEF Level
  <2> QED BY <2>1, <2>3
<1> QED BY <1>1, <1>2

(* A node that is not in the list a tick opens stands right at that tick.  *)
LEMMA ShiftKeeps ==
    ASSUME NEW now \in Tick, NEW ct, ct = (now + 1) % Period,
           NEW w \in 1 .. MaxDelay, NEW e, e = (now + w) % Period,
           SlotFor(e, now) \notin ShiftedLists(ct)
    PROVE  SlotFor(e, ct) = SlotFor(e, now)
<1>1. /\ 1 \in 0 .. MaxDelay /\ w \in 0 .. MaxDelay /\ MaxDelay \in Nat
      /\ MaxDelay + Span(3) < Period /\ Period \in Nat /\ Span(3) \in Nat
  BY DelayIsShort, SpanTyped
<1>2. /\ ct \in Tick /\ e \in Tick
      /\ ct = now + 1 \/ (ct = now + 1 - Period /\ now + 1 >= Period)
      /\ e = now + w \/ (e = now + w - Period /\ now + w >= Period)
  BY <1>1, Later
<1>3. now \in Nat /\ ct \in Nat /\ e \in Nat /\ now < Period /\ ct < Period /\ e < Period
  BY <1>1, <1>2 DEF Tick
<1>4. Level \subseteq 0 .. 4 /\ \A i \in Level : i + 1 \in 0 .. 4
  BY DEF Level
<1>5. CASE e < now
  <2>1. now - e > Span(3)
    BY <1>1, <1>2, <1>3, <1>5
  <2>2. \A i \in Level : Block(i, e) # Block(i, now)
    BY <1>2, <2>1, RoundIsFar
  <2>3. CASE ct = now + 1
    <3>1. ct - e > Span(3)
      BY <1>1, <1>3, <2>1, <2>3
    <3>2. \A i \in Level : Block(i, e) # Block(i, ct)
      BY <1>2, <3>1, RoundIsFar
    <3> QED BY <1>2, <2>2, <3>2, SlotSame
  <2>4. CASE ct # now + 1
    <3>1. ct = 0
      BY <1>1, <1>2, <1>3, <2>4
    <3>2. SlotFor(e, now) = <<3, Block(3, e) % TIME_LEVEL>>
      <4>1. 0 \in Level /\ 1 \in Level /\ 2 \in Level /\ 3 \in Level
        BY DEF Level
      <4> QED BY <1>2, <2>2, <4>1, SlotForIs
    <3>3. Block(3, e) % TIME_LEVEL # 0
      BY <3>1, <3>2 DEF ShiftedLists
    <3>4. \A i \in 0 .. 4 : Block(i, 0) = 0
      <4> SUFFICES ASSUME NEW i \in 0 .. 4 PROVE Block(i, 0) = 0
        OBVIOUS
      <4>1. Span(i) \in Nat \ {0} /\ 0 = Span(i) * 0 + 0
        BY SpanTyped
      <4> QED BY <4>1, QuotientIs DEF Block
    <3>5. TIME_LEVEL \in Nat \ {0} /\ 0 % TIME_LEVEL = 0
      <4>1. TIME_LEVEL \in Nat \ {0}
        BY TimerAssumption
      <4>2. 0 = TIME_LEVEL * 0 + 0 /\ 0 \in 0 .. TIME_LEVEL - 1
        BY <4>1
      <4> QED BY <4>1, <4>2, QuotientIs
    <3>6. Block(3, e) # Block(3, ct)
      BY <3>1, <3>3, <3>4, <3>5
    <3>7. \A i \in Level : Block(i, e) # Block(i, ct)
      <4> SUFFICES ASSUME NEW i \in Level, Block(i, e) = Block(i, ct) PROVE FALSE
        OBVIOUS
      <4>1. i \in 0 .. 4 /\ 3 \in i .. 4
        BY DEF Level
      <4> QED BY <1>3, <3>6, <4>1, BlockUp
    <3> QED BY <1>2, <2>2, <3>7, SlotSame
  <2> QED BY <2>3, <2>4
<1>6. CASE ~(e < now)
  <2>1. ct = now + 1 /\ ct <= e
    BY <1>1, <1>2, <1>3, <1>6
  <2>2. \A i \in 0 .. 4 : Block(i, ct) # Block(i, now) =>
            ct % Span(i) = 0 /\ Block(i, ct) = Block(i, now) + 1
    <3> SUFFICES ASSUME NEW i \in 0 .. 4, Block(i, ct) # Block(i, now)
                 PROVE  ct % Span(i) = 0 /\ Block(i, ct) = Block(i, now) + 1
      OBVIOUS
    <3>1. Span(i) \in Nat \ {0}
      BY SpanTyped
    <3> QED BY <1>3, <2>1, <3>1, QuotientNext DEF Block
  <2>3. CASE \A i \in Level : Block(i, ct) = Block(i, now)
    BY <1>2, <2>3, SlotSame
  <2>4. CASE \E i \in Level : Block(i, ct) # Block(i, now)
    <3>1. PICK j \in Level : /\ Block(j, ct) # Block(j, now)
                             /\ Block(j + 1, ct) = Block(j + 1, now)
      <4>1. Block(4, ct) = Block(4, now)
        BY <1>2, BlockTop
      <4> QED BY <2>4, <4>1 DEF Level
    <3>2. \A i \in Level : i <= j => Block(i, ct) # Block(i, now)
      <4> SUFFICES ASSUME NEW i \in Level, i <= j, Block(i, ct) = Block(i, now) PROVE FALSE
        OBVIOUS
      <4>1. i \in 0 .. 4 /\ j \in i .. 4
        BY DEF Level
      <4> QED BY <1>3, <3>1, <4>1, BlockUp
    <3>3. \A i \in Level : i > j => Block(i, ct) = Block(i, now)
      <4> SUFFICES ASSUME NEW i \in Level, i > j PROVE Block(i, ct) = Block(i, now)
        OBVIOUS
      <4>1. j + 1 \in 0 .. 4 /\ i \in (j + 1) .. 4
        BY DEF Level
      <4> QED BY <1>3, <3>1, <4>1, BlockUp
    <3>4. Block(j, ct) % TIME_LEVEL # 0
      <4> DEFINE c == Block(j, ct) % TIME_LEVEL
                 n == Block(j, now) % TIME_LEVEL
                 x == TIME_LEVEL * Block(j + 1, ct)
                 y == TIME_LEVEL * Block(j + 1, now)
      <4>1. Block(j, ct) = x + c /\ Block(j, now) = y + n /\ c \in Nat /\ n \in Nat
        BY <1>3, BlockAbove
      <4>2. x = y /\ x \in Int
        <5>1. Block(j + 1, ct) \in Nat /\ TIME_LEVEL \in Nat
          BY <1>3, <1>4, BlockTyped, TimerAssumption
        <5> QED BY <3>1, <5>1
      <4>3. Block(j, ct) = Block(j, now) + 1
        BY <1>4, <2>2, <3>1
      <4> HIDE DEF c, n, x, y
      <4>4. c # 0
        BY <4>1, <4>2, <4>3
      <4> QED BY <4>4 DEF c
    <3>5. <<j, Block(j, ct) % TIME_LEVEL>> \in ShiftedLists(ct)
      <4>1. ct # 0 /\ ct % Span(j) = 0
        BY <1>3, <1>4, <2>1, <2>2, <3>1
      <4> QED BY <1>2, <3>4, <4>1, OpensShifted
    <3>6. \A i \in Level : i <= j => Block(i, e) # Block(i, now)
      <4> SUFFICES ASSUME NEW i \in Level, i <= j PROVE Block(i, e) # Block(i, now)
        OBVIOUS
      <4>1. Block(i, ct) = Block(i, now) + 1
        BY <1>4, <2>2, <3>2
      <4>2. Block(i, ct) <= Block(i, e)
        BY <1>3, <1>4, <2>1, BlockMonotone
      <4>3. Block(i, ct) \in Nat /\ Block(i, e) \in Nat /\ Block(i, now) \in Nat
        BY <1>3, <1>4, BlockTyped
      <4> QED BY <4>1, <4>2, <4>3
    <3>7. \A i \in Level : i <= j => Block(i, e) # Block(i, ct)
      <4> SUFFICES ASSUME NEW i \in Level, i <= j, Block(i, e) = Block(i, ct) PROVE FALSE
        OBVIOUS
      <4>1. Block(j, e) = Block(j, ct) /\ Block(j + 1, e) = Block(j + 1, now)
        <5>1. i \in 0 .. 4 /\ j \in i .. 4 /\ j + 1 \in i .. 4
          BY DEF Level
        <5>2. Block(j, e) = Block(j, ct)
          BY <1>3, <5>1, BlockUp
        <5>3. Block(j + 1, e) = Block(j + 1, ct)
          BY <1>3, <5>1, BlockUp
        <5> QED BY <3>1, <5>2, <5>3
      <4>2. SlotFor(e, now) = <<j, Block(j, e) % TIME_LEVEL>>
        <5>1. 0 \in Level /\ 1 \in Level /\ 2 \in Level /\ 3 \in Level
          BY DEF Level
        <5>2. j = 0 \/ j = 1 \/ j = 2 \/ j = 3
          BY DEF Level
        <5>3. CASE j = 0
          BY <1>2, <3>6, <4>1, <5>1, <5>3, SlotForIs
        <5>4. CASE j = 1
          BY <1>2, <3>6, <4>1, <5>1, <5>4, SlotForIs
        <5>5. CASE j = 2
          BY <1>2, <3>6, <4>1, <5>1, <5>5, SlotForIs
        <5>6. CASE j = 3
          BY <1>2, <3>6, <4>1, <5>1, <5>6, SlotForIs
        <5> QED BY <5>2, <5>3, <5>4, <5>5, <5>6
      <4> QED BY <3>5, <4>1, <4>2
    <3>8. \A i \in Level : Block(i, e) = Block(i, now) <=> Block(i, e) = Block(i, ct)
      <4> SUFFICES ASSUME NEW i \in Level
                   PROVE  Block(i, e) = Block(i, now) <=> Block(i, e) = Block(i, ct)
        OBVIOUS
      <4>1. i <= j \/ i > j
        BY DEF Level
      <4> QED BY <3>3, <3>6, <3>7, <4>1
    <3> QED BY <1>2, <3>8, SlotSame
  <2> QED BY <2>3, <2>4
<1> QED BY <1>5, <1>6
-----------------------------------------------------------------------------
(* The lists.                                                              *)
LEMMA SlotTyped ==
    ASSUME NEW e \in Tick, NEW now \in Tick
    PROVE  SlotFor(e, now) \in Slot
<1>1. TIME_LEVEL \in Nat \ {0} /\ TIME_NEAR \in Nat \ {0} /\ e \in Nat
  BY TimerAssumption DEF Tick
<1>2. e % TIME_NEAR \in 0 .. TIME_NEAR - 1
  BY <1>1
<1>3. \A i \in Level : Block(i, e) % TIME_LEVEL \in 0 .. TIME_LEVEL - 1
  BY <1>1, BlockAbove
<1>4. 0 \in Level /\ 1 \in Level /\ 2 \in Level /\ 3 \in Level
  BY DEF Level
<1> QED BY <1>2, <1>3, <1>4, SlotForIs DEF Slot

(* The list of this tick holds nodes that are due now.                     *)
LEMMA DueNow ==
    ASSUME NEW e \in Tick, NEW now \in Tick
    PROVE  SlotFor(e, now) = <<NEAR, now % TIME_NEAR>> <=> e = now
<1>1. TIME_NEAR \in Nat \ {0} /\ e \in Nat /\ now \in Nat
  BY TimerAssumption DEF Tick
<1>2. Block(0, e) = e \div TIME_NEAR /\ Block(0, now) = now \div TIME_NEAR
  BY SpanIs DEF Block
<1>3. e = TIME_NEAR * (e \div TIME_NEAR) + (e % TIME_NEAR)
  BY <1>1, Quotient
<1>3a. now = TIME_NEAR * (now \div TIME_NEAR) + (now % TIME_NEAR)
  BY <1>1, Quotient
<1>4. SlotFor(e, now) = <<NEAR, now % TIME_NEAR>> =>
         Block(0, e) = Block(0, now) /\ e % TIME_NEAR = now % TIME_NEAR
  BY SlotForIs DEF NEAR
<1>5. e = now => SlotFor(e, now) = <<NEAR, now % TIME_NEAR>>
  BY SlotForIs
<1>6. SlotFor(e, now) = <<NEAR, now % TIME_NEAR>> => e = now
  BY <1>2, <1>3, <1>3a, <1>4
<1> QED BY <1>5, <1>6

(* a stands before b in o.                                                 *)
Before(o, a, b) == \E i, j \in DOMAIN o : i < j /\ o[i] = a /\ o[j] = b

(* A list names no node twice, and has nodes for one tick in the order o.  *)
Ordered(s, ex, o) ==
    \A i, j \in DOMAIN s :
       i < j => s[i] # s[j] /\ (ex[s[i]] = ex[s[j]] => Before(o, s[i], s[j]))

LEMMA SequenceIs ==
    ASSUME NEW S, NEW s \in Seq(S)
    PROVE  /\ Len(s) \in Nat /\ DOMAIN s = 1 .. Len(s)
           /\ \A i \in 1 .. Len(s) : s[i] \in S /\ s[i] \in Range(s)
           /\ \A x : x \in Range(s) <=> \E i \in 1 .. Len(s) : s[i] = x
           /\ Range(s) \subseteq S
           /\ s = <<>> <=> Range(s) = {}
<1>1. Len(s) \in Nat /\ DOMAIN s = 1 .. Len(s) /\ \A i \in 1 .. Len(s) : s[i] \in S
  OBVIOUS
<1>2. \A x : x \in Range(s) <=> \E i \in 1 .. Len(s) : s[i] = x
  BY <1>1 DEF Range
<1>3. s = <<>> <=> Len(s) = 0
  OBVIOUS
<1>4. Range(s) = {} => Len(s) = 0
  <2> SUFFICES ASSUME Len(s) # 0, Range(s) = {} PROVE FALSE
    OBVIOUS
  <2>1. 1 \in 1 .. Len(s)
    BY <1>1
  <2> QED BY <1>2, <2>1
<1>5. Len(s) = 0 => Range(s) = {}
  <2> SUFFICES ASSUME Len(s) = 0, NEW x \in Range(s) PROVE FALSE
    OBVIOUS
  <2> QED BY <1>2
<1> QED BY <1>1, <1>2, <1>3, <1>4, <1>5

LEMMA AppendIs ==
    ASSUME NEW S, NEW s \in Seq(S), NEW n \in S
    PROVE  /\ Append(s, n) \in Seq(S) /\ Len(Append(s, n)) = Len(s) + 1
           /\ \A i \in 1 .. Len(s) : Append(s, n)[i] = s[i]
           /\ Append(s, n)[Len(s) + 1] = n
           /\ \A x : x \in Range(Append(s, n)) <=> x \in Range(s) \/ x = n
<1> DEFINE t == Append(s, n)
<1>1. /\ t \in Seq(S) /\ Len(t) = Len(s) + 1 /\ t[Len(s) + 1] = n
      /\ \A i \in 1 .. Len(s) : t[i] = s[i]
  OBVIOUS
<1> HIDE DEF t
<1>2. /\ Len(s) \in Nat
      /\ \A x : x \in Range(s) <=> \E i \in 1 .. Len(s) : s[i] = x
      /\ \A x : x \in Range(t) <=> \E i \in 1 .. Len(t) : t[i] = x
  BY <1>1, SequenceIs
<1>3. \A i \in 1 .. Len(t) : i \in 1 .. Len(s) \/ i = Len(s) + 1
  BY <1>1, <1>2
<1>4. Len(s) + 1 \in 1 .. Len(t) /\ \A i \in 1 .. Len(s) : i \in 1 .. Len(t)
  BY <1>1, <1>2
<1>5. ASSUME NEW x PROVE x \in Range(t) <=> x \in Range(s) \/ x = n
  BY <1>1, <1>2, <1>3, <1>4
<1> QED BY <1>1, <1>5 DEF t

(* A node that stands after its equals is linked at the tail.              *)
LEMMA AppendOrdered ==
    ASSUME NEW s \in Seq(Node), NEW n \in Node, NEW ex, NEW o,
           Ordered(s, ex, o), n \notin Range(s),
           \A a \in Range(s) : ex[a] = ex[n] => Before(o, a, n)
    PROVE  Ordered(Append(s, n), ex, o)
<1> DEFINE t == Append(s, n)
<1>1. /\ t \in Seq(Node) /\ Len(t) = Len(s) + 1 /\ t[Len(s) + 1] = n
      /\ \A i \in 1 .. Len(s) : t[i] = s[i]
  BY AppendIs
<1> HIDE DEF t
<1>2. /\ DOMAIN t = 1 .. Len(t) /\ DOMAIN s = 1 .. Len(s) /\ Len(s) \in Nat
      /\ \A i \in 1 .. Len(s) : s[i] \in Range(s)
  BY <1>1, SequenceIs
<1> SUFFICES ASSUME NEW i \in 1 .. Len(t), NEW j \in 1 .. Len(t), i < j
             PROVE  t[i] # t[j] /\ (ex[t[i]] = ex[t[j]] => Before(o, t[i], t[j]))
  BY <1>2 DEF Ordered, t
<1>3. i \in 1 .. Len(s)
  BY <1>1, <1>2
<1>4. CASE j = Len(s) + 1
  BY <1>1, <1>2, <1>3, <1>4
<1>5. CASE j # Len(s) + 1
  <2>1. j \in 1 .. Len(s)
    BY <1>1, <1>2, <1>5
  <2>2. t[i] = s[i] /\ t[j] = s[j]
    BY <1>1, <1>3, <2>1
  <2> QED BY <1>2, <1>3, <2>1, <2>2 DEF Ordered
<1> QED BY <1>4, <1>5

-----------------------------------------------------------------------------
(* move_list.                                                              *)
Below == {p \in Nat \X Nat : p[1] < p[2]}

(* Every set of numbers that is not empty has a least one,                 *)
LEMMA Least ==
    ASSUME NEW T \in SUBSET Nat, T # {}
    PROVE  \E x \in T : \A y \in T : x <= y
<1>1. IsWellFoundedOn(Below, Nat)
  BY NatLessThanWellFounded DEF OpToRel, Below
<1>2. PICK x \in T : \A y \in T : ~(<<y, x>> \in Below)
  BY <1>1, WFMin
<1>3. ASSUME NEW y \in T PROVE x <= y
  <2>1. y \in Nat /\ x \in Nat
    OBVIOUS
  <2>2. <<y, x>> \in Below <=> y < x
    BY <2>1 DEF Below
  <2> QED BY <1>2, <2>1, <2>2
<1> QED BY <1>3

(* which is induction about a set.                                         *)
LEMMA Inductive ==
    ASSUME NEW T, NEW m \in Nat, 0 \in T,
           \A k \in 0 .. m - 1 : k \in T => k + 1 \in T
    PROVE  \A k \in 0 .. m : k \in T
<1> SUFFICES ASSUME NEW n \in 0 .. m, n \notin T PROVE FALSE
  OBVIOUS
<1> DEFINE Bad == {k \in 0 .. m : k \notin T}
<1>1. PICK k \in Bad : \A y \in Bad : k <= y
  <2>1. Bad \in SUBSET Nat /\ Bad # {}
    OBVIOUS
  <2> QED BY <2>1, Least
<1>2. k \in Nat /\ k # 0 /\ k - 1 \in 0 .. m - 1
  OBVIOUS
<1>3. k - 1 \in T
  <2>1. k - 1 \notin Bad
    BY <1>1, <1>2
  <2> QED BY <1>2, <2>1
<1> QED BY <1>2, <1>3

(* The wheel after the first nodes of a list have been linked again.       *)
Moved(w, s, now) == CHOOSE moved : moved = [k \in 0 .. Len(w[s]) |->
    IF k = 0 THEN [w EXCEPT ![s] = <<>>]
    ELSE add_node(moved[k - 1], w[s][k], expire[w[s][k]], now)]

LEMMA MoveIs == \A w, s, now : move_list(w, s, now) = Moved(w, s, now)[Len(w[s])]
BY DEF move_list, Relinked, Moved

(* There is such a function: one for fewer nodes can be continued.         *)
LEMMA MovedIs ==
    ASSUME NEW w, NEW s, NEW now, Len(w[s]) \in Nat
    PROVE  Moved(w, s, now) = [k \in 0 .. Len(w[s]) |->
              IF k = 0 THEN [w EXCEPT ![s] = <<>>]
              ELSE add_node(Moved(w, s, now)[k - 1], w[s][k], expire[w[s][k]], now)]
<1> DEFINE Add(v, k) == add_node(v, w[s][k], expire[w[s][k]], now)
           z == [w EXCEPT ![s] = <<>>]
           Is(g, m) == g = [k \in 0 .. m |-> IF k = 0 THEN z ELSE Add(g[k - 1], k)]
           Missing == {m \in Nat : ~ \E g : Is(g, m)}
<1>0. Moved(w, s, now) = CHOOSE g : Is(g, Len(w[s]))
  BY DEF Moved
<1> HIDE DEF Add, z
<1>1. Missing = {}
  <2> SUFFICES ASSUME Missing # {} PROVE FALSE
    OBVIOUS
  <2>1. PICK m \in Missing : \A y \in Missing : m <= y
    BY Least
  <2>2. m \in Nat
    OBVIOUS
  <2>3. m # 0
    <3>1. Is([k \in 0 .. 0 |-> z], 0)
      OBVIOUS
    <3> QED BY <3>1
  <2>4. m - 1 \in Nat /\ m - 1 \notin Missing
    <3> HIDE DEF Missing
    <3> QED BY <2>1, <2>2, <2>3
  <2>5. \E g : Is(g, m - 1)
    <3> HIDE DEF Is
    <3> QED BY <2>4
  <2>6. PICK g : Is(g, m - 1)
    BY <2>5
  <2> DEFINE x == Add(g[m - 1], m)
             g2 == [k \in 0 .. m |-> IF k = m THEN x ELSE g[k]]
  <2>7. \A k \in 0 .. m - 1 : g2[k] = g[k]
    BY <2>2
  <2>8. g2[m] = x /\ g2[m - 1] = g[m - 1]
    BY <2>2, <2>3
  <2> DEFINE y(k) == IF k = 0 THEN z ELSE Add(g2[k - 1], k)
  <2>9. ASSUME NEW k \in 0 .. m PROVE g2[k] = y(k)
    <3>1. CASE k = m
      <4> HIDE DEF g2
      <4> QED BY <3>1, <2>3, <2>8
    <3>2. CASE k # m /\ k = 0
      <4>1. 0 \in 0 .. m - 1
        BY <2>2, <2>3
      <4>2. g[0] = z
        BY <2>6, <4>1
      <4> HIDE DEF g2
      <4> QED BY <3>2, <4>1, <4>2, <2>7
    <3>3. CASE k # m /\ k # 0
      <4>1. k \in 0 .. m - 1 /\ k - 1 \in 0 .. m - 1
        BY <3>3, <2>2
      <4>2. g2[k] = g[k] /\ g2[k - 1] = g[k - 1]
        BY <4>1, <2>7
      <4>3. g[k] = Add(g[k - 1], k)
        BY <4>1, <3>3, <2>6
      <4> HIDE DEF g2
      <4> QED BY <4>2, <4>3, <3>3
    <3> QED BY <3>1, <3>2, <3>3
  <2>10. g2 = [k \in 0 .. m |-> y(k)]
    BY <2>9
  <2>11. Is(g2, m)
    BY <2>10
  <2> QED BY <2>1, <2>11
<1>2. \E g : Is(g, Len(w[s]))
  BY <1>1
<1> HIDE DEF Missing
<1>3. Is(CHOOSE g : Is(g, Len(w[s])), Len(w[s]))
  <2> HIDE DEF Is
  <2> QED BY <1>2
<1>4. Is(Moved(w, s, now), Len(w[s]))
  BY <1>0, <1>3
<1> QED BY <1>4 DEF Is, Add, z

(* The list is cleared,                                                    *)
LEMMA MovedStart ==
    ASSUME NEW w, NEW s, NEW now, Len(w[s]) \in Nat
    PROVE  Moved(w, s, now)[0] = [w EXCEPT ![s] = <<>>]
<1> DEFINE F == Moved(w, s, now)
           Add(v, k) == add_node(v, w[s][k], expire[w[s][k]], now)
           z == [w EXCEPT ![s] = <<>>]
<1>1. F = [k \in 0 .. Len(w[s]) |-> IF k = 0 THEN z ELSE Add(F[k - 1], k)]
  BY MovedIs
<1> HIDE DEF F, Add, z
<1>2. F[0] = z
  BY <1>1
<1> QED BY <1>2 DEF F, z

(* and its nodes are linked one by one.                                    *)
LEMMA MovedAt ==
    ASSUME NEW w, NEW s, NEW now, Len(w[s]) \in Nat
    PROVE  \A k \in 1 .. Len(w[s]) : Moved(w, s, now)[k] =
              add_node(Moved(w, s, now)[k - 1], w[s][k], expire[w[s][k]], now)
<1> DEFINE F == Moved(w, s, now)
           Add(v, k) == add_node(v, w[s][k], expire[w[s][k]], now)
           z == [w EXCEPT ![s] = <<>>]
<1>1. F = [k \in 0 .. Len(w[s]) |-> IF k = 0 THEN z ELSE Add(F[k - 1], k)]
  BY MovedIs
<1> HIDE DEF F, Add, z
<1>2. \A k \in 1 .. Len(w[s]) : F[k] = Add(F[k - 1], k)
  BY <1>1
<1> QED BY <1>2 DEF F, Add

(* One node of the list into which it belongs at tick now.                 *)
LEMMA LinkIs ==
    ASSUME NEW v \in [Slot -> Seq(Node)], NEW t \in Slot, NEW n \in Node
    PROVE  /\ link(v, t, n) \in [Slot -> Seq(Node)]
           /\ link(v, t, n)[t] = Append(v[t], n)
           /\ \A u \in Slot : u # t => link(v, t, n)[u] = v[u]
<1>1. Append(v[t], n) \in Seq(Node)
  BY AppendIs
<1> QED BY <1>1 DEF link

(* After k nodes of s: the other lists, each continued with those of the   *)
(* k that belong to it at tick now, nothing doubled and no order lost.     *)
MovedTo(v, w, s, now, k) ==
    /\ v \in [Slot -> Seq(Node)]
    /\ \A t \in Slot : Ordered(v[t], expire, order)
    /\ \A t \in Slot : \A n :
         n \in Range(v[t]) <=> \/ t # s /\ n \in Range(w[t])
                               \/ \E j \in 1 .. k : /\ n = w[s][j]
                                                    /\ t = SlotFor(expire[n], now)

LEMMA MoveKeeps ==
    ASSUME NEW w \in [Slot -> Seq(Node)], NEW s \in Slot, NEW now \in Tick, NEW ct \in Tick,
           expire \in [Node -> Tick],
           \A t \in Slot : Ordered(w[t], expire, order),
           \A t \in Slot : \A n \in Range(w[t]) : t = SlotFor(expire[n], now)
    PROVE  MovedTo(move_list(w, s, ct), w, s, ct, Len(w[s]))
<1> DEFINE F == Moved(w, s, ct)
           m == Len(w[s])
           T == {k \in 0 .. m : MovedTo(F[k], w, s, ct, k)}
<1>0. w[s] \in Seq(Node)
  OBVIOUS
<1>1. /\ m \in Nat /\ \A k \in 1 .. m : w[s][k] \in Node /\ w[s][k] \in Range(w[s])
      /\ DOMAIN w[s] = 1 .. m
  BY <1>0, SequenceIs
<1>2. /\ F[0] = [w EXCEPT ![s] = <<>>]
      /\ \A k \in 0 .. m - 1 : F[k + 1] = add_node(F[k], w[s][k + 1], expire[w[s][k + 1]], ct)
  <2>1. Len(w[s]) \in Nat
    BY <1>1
  <2>2. F[0] = [w EXCEPT ![s] = <<>>]
    BY <2>1, MovedStart
  <2>3. ASSUME NEW k \in 0 .. m - 1
        PROVE  F[k + 1] = add_node(F[k], w[s][k + 1], expire[w[s][k + 1]], ct)
    <3>1. k + 1 \in 1 .. Len(w[s]) /\ (k + 1) - 1 = k
      BY <1>1
    <3>2. \A i \in 1 .. Len(w[s]) : F[i] = add_node(F[i - 1], w[s][i], expire[w[s][i]], ct)
      BY <2>1, MovedAt
    <3> HIDE DEF F
    <3> QED BY <3>1, <3>2
  <2> HIDE DEF F, m
  <2> QED BY <2>2, <2>3
<1>3. move_list(w, s, ct) = F[m]
  BY MoveIs
<1> HIDE DEF F
<1>4. 0 \in T
  <2>1. F[0] \in [Slot -> Seq(Node)] /\ F[0][s] = <<>>
        /\ \A t \in Slot : t # s => F[0][t] = w[t]
    <3>1. <<>> \in Seq(Node)
      OBVIOUS
    <3> QED BY <1>2, <3>1
  <2>2. Range(<<>>) = {} /\ Ordered(<<>>, expire, order)
    <3>1. DOMAIN <<>> = {}
      OBVIOUS
    <3> QED BY <3>1 DEF Range, Ordered
  <2>3. 1 .. 0 = {}
    OBVIOUS
  <2>4. MovedTo(F[0], w, s, ct, 0)
    BY <2>1, <2>2, <2>3 DEF MovedTo
  <2> QED BY <1>1, <2>4
<1>5. ASSUME NEW k \in 0 .. m - 1, k \in T PROVE k + 1 \in T
  <2> DEFINE v == F[k]
             n == w[s][k + 1]
             t == SlotFor(expire[n], ct)
             v2 == F[k + 1]
  <2>0. k + 1 \in 1 .. m /\ k \in Nat
    BY <1>1
  <2>1. n \in Node /\ n \in Range(w[s]) /\ expire[n] \in Tick /\ t \in Slot
    <3>1. n \in Node /\ n \in Range(w[s])
      BY <1>1, <2>0
    <3> HIDE DEF n
    <3>2. expire[n] \in Tick
      BY <3>1
    <3> QED BY <3>1, <3>2, SlotTyped
  <2>2. MovedTo(v, w, s, ct, k)
    BY <1>5
  <2>3. v \in [Slot -> Seq(Node)]
    BY <2>2 DEF MovedTo
  <2>4. v2 = link(v, t, n)
    BY <1>2 DEF add_node
  <2> HIDE DEF v, n, t, v2
  <2>5. /\ v2 \in [Slot -> Seq(Node)] /\ v2[t] = Append(v[t], n)
        /\ \A u \in Slot : u # t => v2[u] = v[u]
    <3>1. /\ link(v, t, n) \in [Slot -> Seq(Node)]
          /\ link(v, t, n)[t] = Append(v[t], n)
          /\ \A u \in Slot : u # t => link(v, t, n)[u] = v[u]
      BY <2>1, <2>3, LinkIs
    <3> QED BY <2>4, <3>1
  <2>6. v[t] \in Seq(Node)
    BY <2>1, <2>3
  <2>7. ASSUME NEW a \in Range(v[t])
        PROVE  a # n /\ (expire[a] = expire[n] => Before(order, a, n))
    <3>1. CASE t # s /\ a \in Range(w[t])
      <4>1. t = SlotFor(expire[a], now) /\ s = SlotFor(expire[n], now)
        BY <2>1, <3>1
      <4> QED BY <3>1, <4>1
    <3>2. ASSUME NEW j \in 1 .. k, a = w[s][j]
          PROVE  a # n /\ (expire[a] = expire[n] => Before(order, a, n))
      <4>1. j \in 1 .. m /\ j < k + 1
        BY <1>1
      <4> QED BY <1>1, <2>0, <3>2, <4>1 DEF Ordered, n
    <3> QED BY <2>1, <2>2, <3>1, <3>2 DEF MovedTo
  <2>8. ASSUME NEW u \in Slot PROVE Ordered(v2[u], expire, order)
    <3>1. Ordered(v[u], expire, order)
      BY <2>2 DEF MovedTo
    <3>2. CASE u = t
      <4>1. n \notin Range(v[t])
        BY <2>7
      <4>2. \A a \in Range(v[t]) : expire[a] = expire[n] => Before(order, a, n)
        BY <2>7
      <4>3. Ordered(v[t], expire, order)
        BY <3>1, <3>2
      <4>4. Ordered(Append(v[t], n), expire, order)
        BY <2>1, <2>6, <4>1, <4>2, <4>3, AppendOrdered
      <4> QED BY <2>5, <3>2, <4>4
    <3> QED BY <2>5, <3>1, <3>2
  <2>9. ASSUME NEW u \in Slot, NEW a
        PROVE  a \in Range(v2[u]) <=> \/ u # s /\ a \in Range(w[u])
                                      \/ \E j \in 1 .. k + 1 : /\ a = w[s][j]
                                                               /\ u = SlotFor(expire[a], ct)
    <3>1. a \in Range(v2[u]) <=> a \in Range(v[u]) \/ (u = t /\ a = n)
      <4>1. CASE u = t
        <5>1. a \in Range(Append(v[t], n)) <=> a \in Range(v[t]) \/ a = n
          BY <2>1, <2>6, AppendIs
        <5> QED BY <2>5, <4>1, <5>1
      <4>2. CASE u # t
        BY <2>5, <4>2
      <4> QED BY <4>1, <4>2
    <3>2. a \in Range(v[u]) <=> \/ u # s /\ a \in Range(w[u])
                                \/ \E j \in 1 .. k : a = w[s][j] /\ u = SlotFor(expire[a], ct)
      BY <2>2 DEF MovedTo
    <3>3. (u = t /\ a = n) <=> a = w[s][k + 1] /\ u = SlotFor(expire[a], ct)
      BY DEF n, t
    <3>4. k + 1 \in 1 .. k + 1 /\ \A j \in 1 .. k + 1 : j \in 1 .. k \/ j = k + 1
      BY <2>0
    <3>5. \A j \in 1 .. k : j \in 1 .. k + 1
      BY <2>0
    <3> QED BY <3>1, <3>2, <3>3, <3>4, <3>5
  <2>10. MovedTo(v2, w, s, ct, k + 1)
    BY <2>5, <2>8, <2>9 DEF MovedTo
  <2> QED BY <1>1, <2>10 DEF v2
<1>6. \A k \in 0 .. m : k \in T
  <2> HIDE DEF T, m
  <2> QED BY <1>1, <1>4, <1>5, Inductive
<1>7. m \in T
  <2> HIDE DEF T
  <2> QED BY <1>1, <1>6
<1> QED BY <1>3, <1>7
-----------------------------------------------------------------------------
(* The order in which the nodes were added.                                *)
Unique(o) == \A i, j \in DOMAIN o : i < j => o[i] # o[j]

LEMMA AppendBefore ==
    ASSUME NEW o \in Seq(Node), NEW n \in Node, Unique(o), n \notin Range(o)
    PROVE  /\ Unique(Append(o, n))
           /\ \A a, b : Before(o, a, b) => Before(Append(o, n), a, b)
           /\ \A a \in Range(o) : Before(Append(o, n), a, n)
<1> DEFINE p == Append(o, n)
<1>1. /\ p \in Seq(Node) /\ Len(p) = Len(o) + 1 /\ p[Len(o) + 1] = n
      /\ \A i \in 1 .. Len(o) : p[i] = o[i]
  BY AppendIs
<1> HIDE DEF p
<1>2. /\ DOMAIN p = 1 .. Len(p) /\ DOMAIN o = 1 .. Len(o) /\ Len(o) \in Nat
      /\ \A i \in 1 .. Len(o) : o[i] \in Range(o)
      /\ \A x : x \in Range(o) <=> \E i \in 1 .. Len(o) : o[i] = x
  BY <1>1, SequenceIs
<1>3. /\ \A i \in 1 .. Len(p) : i \in 1 .. Len(o) \/ i = Len(o) + 1
      /\ \A i \in 1 .. Len(o) : i \in 1 .. Len(p) /\ i < Len(o) + 1
      /\ Len(o) + 1 \in 1 .. Len(p)
  BY <1>1, <1>2
<1>4. ASSUME NEW i \in 1 .. Len(p), NEW j \in 1 .. Len(p), i < j PROVE p[i] # p[j]
  <2>1. i \in 1 .. Len(o)
    BY <1>1, <1>2, <1>4
  <2>2. CASE j \in 1 .. Len(o)
    BY <1>1, <1>2, <1>4, <2>1, <2>2 DEF Unique
  <2>3. CASE j = Len(o) + 1
    BY <1>1, <1>2, <2>1, <2>3
  <2> QED BY <1>3, <2>2, <2>3
<1>5. ASSUME NEW a, NEW b, Before(o, a, b) PROVE Before(p, a, b)
  <2>1. PICK i \in 1 .. Len(o), j \in 1 .. Len(o) : i < j /\ o[i] = a /\ o[j] = b
    BY <1>2, <1>5 DEF Before
  <2>2. i \in 1 .. Len(p) /\ j \in 1 .. Len(p) /\ p[i] = a /\ p[j] = b
    BY <1>1, <1>3, <2>1
  <2> QED BY <1>2, <2>1, <2>2 DEF Before
<1>6. ASSUME NEW a \in Range(o) PROVE Before(p, a, n)
  <2>1. PICK i \in 1 .. Len(o) : o[i] = a
    BY <1>2
  <2>2. i \in 1 .. Len(p) /\ i < Len(o) + 1 /\ p[i] = a
    BY <1>1, <1>3, <2>1
  <2> QED BY <1>1, <1>2, <1>3, <2>2 DEF Before
<1> QED BY <1>2, <1>4, <1>5, <1>6 DEF Unique, p

(* A dispatched node leaves the order as it was for the others.            *)
LEMMA RemovedIs ==
    ASSUME NEW o \in Seq(Node), Unique(o), NEW h \in Range(o)
    PROVE  /\ RemoveFirst(o, h) \in Seq(Node) /\ Unique(RemoveFirst(o, h))
           /\ \A x : x \in Range(RemoveFirst(o, h)) <=> x \in Range(o) /\ x # h
           /\ \A a, b : a # h /\ b # h /\ Before(o, a, b) => Before(RemoveFirst(o, h), a, b)
<1> DEFINE r == RemoveFirst(o, h)
           m == Len(o)
<1>1. /\ m \in Nat /\ DOMAIN o = 1 .. m /\ \A i \in 1 .. m : o[i] \in Node
      /\ \A x : x \in Range(o) <=> \E i \in 1 .. m : o[i] = x
  BY SequenceIs
<1>2. PICK k \in 1 .. m : o[k] = h
  BY <1>1
<1>3. \A i \in 1 .. m : o[i] = h => i = k
  BY <1>1, <1>2 DEF Unique
<1>4. r = SubSeq(o, 1, k - 1) \o SubSeq(o, k + 1, m)
  <2>1. {i \in 1 .. Len(o) : o[i] = h} = {k}
    BY <1>2, <1>3
  <2>2. Min({k}) = k
    BY <1>2 DEF Min
  <2>3. SelectInSeq(o, LAMBDA v : v = h) = k
    BY <2>1, <2>2 DEF SelectInSeq
  <2>4. r = RemoveAt(o, k)
    BY <1>2, <2>3 DEF RemoveFirst
  <2> QED BY <2>4 DEF RemoveAt
<1> HIDE DEF r
<1>5. /\ r \in Seq(Node) /\ Len(r) = m - 1
      /\ \A i \in 1 .. m - 1 : r[i] = IF i < k THEN o[i] ELSE o[i + 1]
  <2> DEFINE u == SubSeq(o, 1, k - 1)
             v == SubSeq(o, k + 1, m)
  <2>1. u \in Seq(Node) /\ Len(u) = k - 1 /\ \A i \in 1 .. k - 1 : u[i] = o[i]
    BY <1>1, <1>2
  <2>2. v \in Seq(Node) /\ Len(v) = m - k /\ \A i \in 1 .. m - k : v[i] = o[k + i]
    <3>1. /\ k + 1 \in 1 .. m + 1 /\ m \in k .. m
          /\ \A i \in (k + 1) .. m : i \in 1 .. m
      BY <1>1, <1>2
    <3>2. v \in Seq(Node) /\ Len(v) = IF k + 1 <= m THEN m - (k + 1) + 1 ELSE 0
      BY <1>1, <3>1, SubSeqProperties
    <3>3. \A i \in 1 .. m - (k + 1) + 1 : v[i] = o[(k + 1) + i - 1]
      BY <1>1, <3>1, SubSeqProperties
    <3> HIDE DEF v
    <3>4. Len(v) = m - k
      <4>1. k \in Nat /\ m \in Nat /\ k <= m
        BY <1>1, <1>2
      <4>2. CASE k + 1 <= m
        <5>1. Len(v) = m - (k + 1) + 1
          BY <3>2, <4>2
        <5> QED BY <4>1, <5>1
      <4>3. CASE ~(k + 1 <= m)
        <5>1. Len(v) = 0
          BY <3>2, <4>3
        <5> QED BY <4>1, <4>3, <5>1
      <4> QED BY <4>2, <4>3
    <3>5. ASSUME NEW i \in 1 .. m - k PROVE v[i] = o[k + i]
      <4>1. i \in 1 .. m - (k + 1) + 1 /\ (k + 1) + i - 1 = k + i
        BY <1>1, <1>2
      <4> QED BY <3>3, <4>1
    <3> QED BY <3>2, <3>4, <3>5
  <2> HIDE DEF u, v
  <2>3. /\ u \o v \in Seq(Node) /\ Len(u \o v) = (k - 1) + (m - k)
        /\ \A i \in 1 .. (k - 1) + (m - k) :
              (u \o v)[i] = IF i <= k - 1 THEN u[i] ELSE v[i - (k - 1)]
    <3>1. /\ u \o v \in Seq(Node) /\ Len(u \o v) = Len(u) + Len(v)
          /\ \A i \in 1 .. Len(u) + Len(v) :
                (u \o v)[i] = IF i <= Len(u) THEN u[i] ELSE v[i - Len(u)]
      BY <2>1, <2>2, ConcatProperties
    <3>2. Len(u) = k - 1 /\ Len(v) = m - k
      BY <2>1, <2>2
    <3> HIDE DEF m
    <3> QED BY <3>1, <3>2
  <2>4. r = u \o v
    BY <1>4 DEF u, v
  <2>5. ASSUME NEW i \in 1 .. m - 1
        PROVE  r[i] = IF i < k THEN o[i] ELSE o[i + 1]
    <3>1. i \in 1 .. (k - 1) + (m - k)
      BY <1>1, <1>2
    <3>2. CASE i < k
      <4>1. i \in 1 .. k - 1 /\ i <= k - 1
        BY <1>1, <1>2, <3>2
      <4> QED BY <2>1, <2>3, <2>4, <3>1, <3>2, <4>1
    <3>3. CASE ~(i < k)
      <4>1. i - (k - 1) \in 1 .. m - k /\ ~(i <= k - 1) /\ k + (i - (k - 1)) = i + 1
        BY <1>1, <1>2, <3>3
      <4>2. r[i] = v[i - (k - 1)]
        BY <2>3, <2>4, <3>1, <4>1
      <4> QED BY <2>2, <3>3, <4>1, <4>2
    <3> QED BY <3>2, <3>3
  <2>6. (k - 1) + (m - k) = m - 1
    BY <1>1, <1>2
  <2> QED BY <2>3, <2>4, <2>5, <2>6
<1>6. /\ DOMAIN r = 1 .. m - 1
      /\ \A x : x \in Range(r) <=> \E i \in 1 .. m - 1 : r[i] = x
  BY <1>5, SequenceIs
<1> DEFINE At(i) == IF i < k THEN i ELSE i + 1
           Back(i) == IF i < k THEN i ELSE i - 1
<1>7. \A i \in 1 .. m - 1 : At(i) \in 1 .. m /\ At(i) # k /\ r[i] = o[At(i)]
  BY <1>1, <1>2, <1>5
<1>8. \A i \in 1 .. m : i # k => Back(i) \in 1 .. m - 1 /\ r[Back(i)] = o[i]
  <2> SUFFICES ASSUME NEW i \in 1 .. m, i # k
               PROVE  Back(i) \in 1 .. m - 1 /\ r[Back(i)] = o[i]
    OBVIOUS
  <2>1. CASE i < k
    BY <1>1, <1>2, <1>5, <2>1
  <2>2. CASE i > k
    <3>1. i - 1 \in 1 .. m - 1 /\ ~(i - 1 < k) /\ (i - 1) + 1 = i /\ ~(i < k)
      BY <1>1, <1>2, <2>2
    <3> QED BY <1>5, <3>1
  <2> QED BY <1>1, <1>2, <2>1, <2>2
<1>9. ASSUME NEW i \in 1 .. m - 1, NEW j \in 1 .. m - 1, i < j PROVE r[i] # r[j]
  <2>1. At(i) < At(j)
    BY <1>1, <1>2, <1>9
  <2> HIDE DEF At
  <2> QED BY <1>1, <1>7, <2>1 DEF Unique
<1>10. ASSUME NEW x PROVE x \in Range(r) <=> x \in Range(o) /\ x # h
  <2> HIDE DEF At, Back
  <2> QED BY <1>1, <1>2, <1>3, <1>6, <1>7, <1>8
<1>11. ASSUME NEW a, NEW b, a # h, b # h, Before(o, a, b) PROVE Before(r, a, b)
  <2>1. PICK i \in 1 .. m, j \in 1 .. m : i < j /\ o[i] = a /\ o[j] = b
    BY <1>1, <1>11 DEF Before
  <2>2. i # k /\ j # k
    BY <1>2, <1>11, <2>1
  <2>3. Back(i) < Back(j)
    BY <1>1, <1>2, <2>1, <2>2
  <2> HIDE DEF Back
  <2> QED BY <1>6, <1>8, <2>1, <2>2, <2>3 DEF Before
<1> QED BY <1>5, <1>6, <1>9, <1>10, <1>11 DEF Unique, r

(* A list stays in order when expire and order do not change for its nodes.*)
LEMMA OrderedStill ==
    ASSUME NEW s \in Seq(Node), NEW ex, NEW o, NEW ex2, NEW o2, Ordered(s, ex, o),
           \A a \in Range(s) : ex2[a] = ex[a],
           \A a, b \in Range(s) : Before(o, a, b) => Before(o2, a, b)
    PROVE  Ordered(s, ex2, o2)
<1>1. DOMAIN s = 1 .. Len(s) /\ \A i \in 1 .. Len(s) : s[i] \in Range(s)
  BY SequenceIs
<1> QED BY <1>1 DEF Ordered

LEMMA TailIs ==
    ASSUME NEW s \in Seq(Node), s # <<>>, NEW ex, NEW o, Ordered(s, ex, o)
    PROVE  /\ Tail(s) \in Seq(Node) /\ Head(s) \in Node
           /\ Head(s) \in Range(s) /\ Head(s) \notin Range(Tail(s))
           /\ \A x : x \in Range(s) <=> x = Head(s) \/ x \in Range(Tail(s))
           /\ Ordered(Tail(s), ex, o)
           /\ \A x \in Range(Tail(s)) : ex[Head(s)] = ex[x] => Before(o, Head(s), x)
<1> DEFINE t == Tail(s)
           m == Len(s)
<1>1. /\ m \in Nat /\ DOMAIN s = 1 .. m /\ \A i \in 1 .. m : s[i] \in Node
      /\ \A x : x \in Range(s) <=> \E i \in 1 .. m : s[i] = x
  BY SequenceIs
<1>2. m # 0 /\ Head(s) = s[1]
  OBVIOUS
<1>3. t \in Seq(Node) /\ Len(t) = m - 1 /\ \A i \in 1 .. m - 1 : t[i] = s[i + 1]
  OBVIOUS
<1> HIDE DEF t
<1>4. DOMAIN t = 1 .. m - 1 /\ \A x : x \in Range(t) <=> \E i \in 1 .. m - 1 : t[i] = x
  BY <1>3, SequenceIs
<1>5. 1 \in 1 .. m /\ \A i \in 1 .. m - 1 : i + 1 \in 1 .. m /\ 1 < i + 1
  BY <1>1, <1>2
<1>6. ASSUME NEW x \in Range(t)
      PROVE  x # Head(s) /\ (ex[Head(s)] = ex[x] => Before(o, Head(s), x))
  <2>1. PICK i \in 1 .. m - 1 : s[i + 1] = x
    BY <1>3, <1>4
  <2> QED BY <1>1, <1>2, <1>5, <2>1 DEF Ordered
<1>7. ASSUME NEW x PROVE x \in Range(s) <=> x = Head(s) \/ x \in Range(t)
  <2>1. \A i \in 1 .. m : i = 1 \/ (i - 1 \in 1 .. m - 1 /\ (i - 1) + 1 = i)
    BY <1>1
  <2>2. ASSUME NEW i \in 1 .. m, s[i] = x PROVE x = Head(s) \/ x \in Range(t)
    BY <1>2, <1>3, <1>4, <2>1, <2>2
  <2>3. ASSUME x \in Range(t) PROVE x \in Range(s)
    BY <1>1, <1>3, <1>4, <1>5, <2>3
  <2>4. Head(s) \in Range(s)
    BY <1>1, <1>2, <1>5
  <2> QED BY <1>1, <2>2, <2>3, <2>4
<1>8. Ordered(t, ex, o)
  <2>1. ASSUME NEW i \in 1 .. m - 1, NEW j \in 1 .. m - 1, i < j
        PROVE  t[i] # t[j] /\ (ex[t[i]] = ex[t[j]] => Before(o, t[i], t[j]))
    <3>1. i + 1 < j + 1
      BY <2>1
    <3>2. t[i] = s[i + 1] /\ t[j] = s[j + 1] /\ i + 1 \in 1 .. m /\ j + 1 \in 1 .. m
      BY <1>3, <1>5
    <3> QED BY <1>1, <3>1, <3>2 DEF Ordered
  <2> QED BY <1>4, <2>1 DEF Ordered
<1> QED BY <1>1, <1>2, <1>3, <1>5, <1>6, <1>7, <1>8 DEF t
-----------------------------------------------------------------------------
(* The inductive invariant.                                                *)
Typed ==
    /\ time \in Tick
    /\ wheel \in [Slot -> Seq(Node)]
    /\ expire \in [Node -> Tick]
    /\ lock \in BOOLEAN
    /\ pc \in {"loop", "before", "after"}
    /\ todo \in 0 .. MaxTicks
    /\ running \in Seq(Node)
    /\ wait \in [Node -> Int]
    /\ order \in Seq(Node)

(* A node stands in the list that its expiry belongs to at this tick.      *)
Placed == \A t \in Slot : \A n \in Range(wheel[t]) : t = SlotFor(expire[n], time)

(* No node stands twice in a list, nor in the wheel and the running list,  *)
(* and nodes of a list that are due together stand as they were added.     *)
Lined ==
    /\ \A t \in Slot : Ordered(wheel[t], expire, order)
    /\ Ordered(running, expire, order)
    /\ \A t \in Slot : \A n \in Range(wheel[t]) : n \notin Range(running)
    /\ Unique(order)

(* The pending nodes are those of the lists.                               *)
Linked ==
    \A n : n \in Range(order) <=> \/ n \in Range(running)
                                  \/ \E t \in Slot : n \in Range(wheel[t])

(* What a pending node still waits is what is left until its expiry.       *)
Due ==
    \A n \in Range(order) :
       /\ wait[n] \in 0 .. MaxDelay
       /\ expire[n] = (time + wait[n]) % Period
       /\ wait[n] = 0 => pc = "after"
       /\ n \in Range(running) => wait[n] = 0

(* The timer thread dispatches what it has taken without the lock, and     *)
(* nothing new is linked into the list of this tick meanwhile.             *)
Phase ==
    /\ lock => pc # "loop" /\ running = <<>>
    /\ pc = "loop" => running = <<>>
    /\ running # <<>> => wheel[NearNow] = <<>>

TimerInv == Typed /\ Placed /\ Lined /\ Linked /\ Due /\ Phase

(* A delay never comes back to the tick it starts from.                    *)
LEMMA NotDue ==
    ASSUME NEW now \in Tick, NEW w \in 1 .. MaxDelay
    PROVE  (now + w) % Period # now
<1>1. MaxDelay \in Nat /\ MaxDelay < Period /\ Period \in Nat
  BY DelayIsShort, SpanTyped
<1>2. w \in 0 .. MaxDelay /\ now \in Int
  BY <1>1 DEF Tick
<1>3. (now + w) % Period = now + w \/ (now + w) % Period = now + w - Period
  BY <1>2, Later
<1> QED BY <1>1, <1>2, <1>3

(* One tick on, one tick less to wait.                                     *)
LEMMA OneLess ==
    ASSUME NEW now \in Tick, NEW w \in 1 .. MaxDelay
    PROVE  (now + w) % Period = (((now + 1) % Period) + (w - 1)) % Period
<1> DEFINE ct == (now + 1) % Period
<1>1. MaxDelay \in Nat /\ MaxDelay < Period /\ Period \in Nat
  BY DelayIsShort, SpanTyped
<1>2. 1 \in 0 .. MaxDelay /\ w \in 0 .. MaxDelay /\ w - 1 \in 0 .. MaxDelay /\ now \in Nat
      /\ now < Period
  BY <1>1 DEF Tick
<1>3. ct \in Tick /\ (ct = now + 1 \/ (ct = now + 1 - Period /\ now + 1 >= Period))
  BY <1>2, Later
<1>4. /\ (now + w) % Period \in Tick
      /\ \/ (now + w) % Period = now + w
         \/ (now + w) % Period = now + w - Period /\ now + w >= Period
  BY <1>2, Later
<1> HIDE DEF ct
<1>5. /\ (ct + (w - 1)) % Period \in Tick
      /\ \/ (ct + (w - 1)) % Period = ct + (w - 1)
         \/ (ct + (w - 1)) % Period = ct + (w - 1) - Period /\ ct + (w - 1) >= Period
  BY <1>2, <1>3, Later
<1> DEFINE e == (now + w) % Period
           f == (ct + (w - 1)) % Period
<1>6. e \in 0 .. Period - 1 /\ f \in 0 .. Period - 1
  BY <1>4, <1>5 DEF Tick
<1>7. e = now + w \/ e = now + w - Period
  BY <1>4
<1>8. f = ct + (w - 1) \/ f = ct + (w - 1) - Period
  BY <1>5
<1> HIDE DEF e, f
<1>9. ct = now + 1 \/ ct = now + 1 - Period
  BY <1>3
<1>10. ct \in Nat
  BY <1>3 DEF Tick
<1>11. e = f
  BY <1>1, <1>2, <1>6, <1>7, <1>8, <1>9, <1>10
<1> QED BY <1>11 DEF e, f, ct

(* A pending node is due at this tick exactly when it stands in its list   *)
(* or in the running one.                                                  *)
LEMMA DueStands ==
    ASSUME TimerInv, NEW n \in Range(order)
    PROVE  /\ n \in Node
           /\ wait[n] = 0 <=> expire[n] = time
           /\ wait[n] = 0 <=> n \in Range(running) \/ n \in Range(wheel[NearNow])
<1>1. /\ n \in Node /\ expire[n] \in Tick /\ time \in Tick
      /\ wait[n] \in 0 .. MaxDelay /\ expire[n] = (time + wait[n]) % Period
  BY SequenceIs DEF TimerInv, Typed, Due
<1>2. wait[n] # 0 => expire[n] # time
  <2>1. wait[n] # 0 => wait[n] \in 1 .. MaxDelay
    BY <1>1, DelayIsShort
  <2> QED BY <1>1, <2>1, NotDue
<1>3. wait[n] = 0 => expire[n] = time
  <2>1. Period \in Nat \ {0} /\ time = Period * 0 + time /\ time \in 0 .. Period - 1
        /\ time \in Nat
    BY <1>1, SpanTyped DEF Tick
  <2>2. time % Period = time
    BY <2>1, QuotientIs
  <2> QED BY <1>1, <2>1, <2>2
<1>4. SlotFor(expire[n], time) = NearNow <=> expire[n] = time
  BY <1>1, DueNow DEF NearNow
<1>5. wait[n] = 0 => n \in Range(running) \/ n \in Range(wheel[NearNow])
  <2> SUFFICES ASSUME wait[n] = 0, n \notin Range(running)
               PROVE  n \in Range(wheel[NearNow])
    OBVIOUS
  <2>1. PICK t \in Slot : n \in Range(wheel[t])
    BY DEF TimerInv, Linked
  <2>2. t = SlotFor(expire[n], time)
    BY <2>1 DEF TimerInv, Placed
  <2> QED BY <1>3, <1>4, <2>1, <2>2
<1>6. n \in Range(running) => wait[n] = 0
  BY DEF TimerInv, Due
<1>7. n \in Range(wheel[NearNow]) => wait[n] = 0
  <2>1. NearNow \in Slot
    <3>1. time % TIME_NEAR \in 0 .. TIME_NEAR - 1
      BY <1>1, TimerAssumption DEF Tick
    <3> QED BY <3>1 DEF NearNow, Slot
  <2> QED BY <1>2, <1>4, <2>1 DEF TimerInv, Placed
<1> QED BY <1>1, <1>2, <1>3, <1>5, <1>6, <1>7

LEMMA NearTyped == time \in Tick => NearNow \in Slot
<1> SUFFICES ASSUME time \in Tick PROVE NearNow \in Slot
  OBVIOUS
<1>1. time \in Nat /\ TIME_NEAR \in Nat \ {0}
  BY TimerAssumption DEF Tick
<1>2. time % TIME_NEAR \in 0 .. TIME_NEAR - 1
  BY <1>1
<1> QED BY <1>2 DEF NearNow, Slot

LEMMA TimerInit == Init => TimerInv
<1> SUFFICES ASSUME Init PROVE TimerInv
  OBVIOUS
<1>1. <<>> \in Seq(Node) /\ DOMAIN <<>> = {} /\ Range(<<>>) = {}
  BY DEF Range
<1>2. 0 \in Tick /\ MaxTicks \in Nat
  BY DelayIsShort, SpanTyped, TimerAssumption DEF Tick
<1>3. \A t \in Slot : wheel[t] = <<>>
  BY DEF Init
<1>4. Typed
  <2>1. wheel \in [Slot -> Seq(Node)]
    <3>1. wheel = [s \in Slot |-> <<>>]
      BY DEF Init
    <3> QED BY <1>1, <3>1
  <2>2. expire \in [Node -> Tick] /\ wait \in [Node -> Int]
    BY <1>2 DEF Init
  <2>3. lock \in BOOLEAN /\ pc \in {"loop", "before", "after"}
    BY DEF Init
  <2>4. time \in Tick /\ todo \in 0 .. MaxTicks
    BY <1>2 DEF Init
  <2>5. running \in Seq(Node) /\ order \in Seq(Node)
    BY <1>1 DEF Init
  <2> QED BY <2>1, <2>2, <2>3, <2>4, <2>5 DEF Typed
<1>5. \A ex, o : Ordered(<<>>, ex, o) /\ Unique(<<>>)
  BY <1>1 DEF Ordered, Unique
<1> QED BY <1>1, <1>3, <1>4, <1>5
     DEF Init, TimerInv, Placed, Lined, Linked, Due, Phase

-----------------------------------------------------------------------------
(* A worker adds a timer.                                                  *)
LEMMA AddKeeps ==
    ASSUME TimerInv, NEW n \in Node, NEW delay \in 1 .. MaxDelay, timer_add(n, delay)
    PROVE  TimerInv'
<1> DEFINE e == (time + delay) % Period
           t == SlotFor(e, time)
<1>0. /\ ~lock /\ n \notin Range(order) /\ expire' = [expire EXCEPT ![n] = e]
      /\ wheel' = link(wheel, t, n) /\ wait' = [wait EXCEPT ![n] = delay]
      /\ order' = Append(order, n)
      /\ UNCHANGED <<time, lock, pc, todo, running>>
  BY DEF timer_add, TickAfter, add_node, Pending
<1>1. Typed /\ Placed /\ Lined /\ Linked /\ Due /\ Phase
  BY DEF TimerInv
<1>2. /\ time \in Tick /\ wheel \in [Slot -> Seq(Node)] /\ expire \in [Node -> Tick]
      /\ running \in Seq(Node) /\ wait \in [Node -> Int] /\ order \in Seq(Node)
  BY <1>1 DEF Typed
<1>3. e \in Tick /\ t \in Slot /\ e # time /\ delay \in Int /\ delay \in 0 .. MaxDelay
      /\ delay # 0
  <2>1. delay \in 0 .. MaxDelay /\ delay \in Int /\ delay # 0
    BY DelayIsShort
  <2>2. e \in Tick /\ e # time
    BY <1>2, <2>1, Later, NotDue
  <2> HIDE DEF e
  <2> QED BY <1>2, <2>1, <2>2, SlotTyped
<1> HIDE DEF e, t
<1>4. /\ wheel' \in [Slot -> Seq(Node)] /\ wheel'[t] = Append(wheel[t], n)
      /\ \A u \in Slot : u # t => wheel'[u] = wheel[u]
  <2>1. /\ link(wheel, t, n) \in [Slot -> Seq(Node)]
        /\ link(wheel, t, n)[t] = Append(wheel[t], n)
        /\ \A u \in Slot : u # t => link(wheel, t, n)[u] = wheel[u]
    BY <1>2, <1>3, LinkIs
  <2> QED BY <1>0, <2>1
<1>5. /\ order' \in Seq(Node) /\ Unique(order')
      /\ \A x : x \in Range(order') <=> x \in Range(order) \/ x = n
      /\ \A a, b : Before(order, a, b) => Before(order', a, b)
      /\ \A a \in Range(order) : Before(order', a, n)
  <2>1. Unique(order)
    BY <1>1 DEF Lined
  <2> QED BY <1>0, <1>2, <2>1, AppendIs, AppendBefore
<1>6. /\ expire' \in [Node -> Tick] /\ expire'[n] = e
      /\ \A a \in Node : a # n => expire'[a] = expire[a]
      /\ wait' \in [Node -> Int] /\ wait'[n] = delay
      /\ \A a \in Node : a # n => wait'[a] = wait[a]
  BY <1>0, <1>2, <1>3
<1>7. /\ \A u \in Slot : Range(wheel[u]) \subseteq Node /\ n \notin Range(wheel[u])
      /\ Range(running) \subseteq Node /\ n \notin Range(running)
  <2>1. \A u \in Slot : Range(wheel[u]) \subseteq Node
    BY <1>2, SequenceIs
  <2>2. Range(running) \subseteq Node
    BY <1>2, SequenceIs
  <2> QED BY <1>0, <1>1, <2>1, <2>2 DEF Linked
<1>8. \A u \in Slot : \A x : x \in Range(wheel'[u]) <=> x \in Range(wheel[u]) \/ (u = t /\ x = n)
  <2>1. wheel[t] \in Seq(Node)
    BY <1>2, <1>3
  <2>2. \A x : x \in Range(Append(wheel[t], n)) <=> x \in Range(wheel[t]) \/ x = n
    BY <2>1, AppendIs
  <2> QED BY <1>4, <2>2
<1>9. Typed'
  BY <1>0, <1>1, <1>4, <1>5, <1>6 DEF Typed
<1>10. Placed'
  <2> SUFFICES ASSUME NEW u \in Slot, NEW a \in Range(wheel'[u])
               PROVE  u = SlotFor(expire'[a], time)
    BY <1>0 DEF Placed
  <2>1. CASE u = t /\ a = n
    BY <1>6, <2>1 DEF t
  <2>2. CASE a \in Range(wheel[u])
    <3>1. a \in Node /\ a # n
      BY <1>7, <2>2
    <3> QED BY <1>1, <1>6, <2>2, <3>1 DEF Placed
  <2> QED BY <1>8, <2>1, <2>2
<1>11. Lined'
  <2>1. ASSUME NEW s \in Seq(Node), Ordered(s, expire, order), n \notin Range(s)
        PROVE  Ordered(s, expire', order')
    <3>1. \A a \in Range(s) : expire'[a] = expire[a]
      <4>1. Range(s) \subseteq Node
        BY SequenceIs
      <4> QED BY <1>6, <2>1, <4>1
    <3> QED BY <1>5, <2>1, <3>1, OrderedStill
  <2>2. \A u \in Slot : Ordered(wheel[u], expire', order')
    BY <1>1, <1>2, <1>7, <2>1 DEF Lined
  <2>3. Ordered(running, expire', order')
    BY <1>1, <1>2, <1>7, <2>1 DEF Lined
  <2>4. Ordered(Append(wheel[t], n), expire', order')
    <3>1. \A a \in Range(wheel[t]) : Before(order', a, n)
      BY <1>1, <1>3, <1>5 DEF Linked
    <3>2. wheel[t] \in Seq(Node) /\ Ordered(wheel[t], expire', order') /\ n \notin Range(wheel[t])
      BY <1>2, <1>3, <1>7, <2>2
    <3> QED BY <3>1, <3>2, AppendOrdered
  <2>5. \A u \in Slot : Ordered(wheel'[u], expire', order')
    BY <1>4, <2>2, <2>4
  <2>6. \A u \in Slot : \A a \in Range(wheel'[u]) : a \notin Range(running)
    BY <1>1, <1>7, <1>8 DEF Lined
  <2> QED BY <1>0, <1>5, <2>3, <2>5, <2>6 DEF Lined
<1>12. Linked'
  <2> SUFFICES ASSUME NEW x
               PROVE  x \in Range(order') <=> \/ x \in Range(running)
                                              \/ \E u \in Slot : x \in Range(wheel'[u])
    BY <1>0 DEF Linked
  <2>1. x \in Range(order) <=> \/ x \in Range(running)
                               \/ \E u \in Slot : x \in Range(wheel[u])
    BY <1>1 DEF Linked
  <2> QED BY <1>3, <1>5, <1>8, <2>1
<1>13. Due'
  <2> SUFFICES ASSUME NEW a \in Range(order')
               PROVE  /\ wait'[a] \in 0 .. MaxDelay
                      /\ expire'[a] = (time + wait'[a]) % Period
                      /\ wait'[a] = 0 => pc = "after"
                      /\ a \in Range(running) => wait'[a] = 0
    BY <1>0 DEF Due
  <2>1. CASE a = n
    BY <1>3, <1>6, <1>7, <2>1 DEF e
  <2>2. CASE a # n
    <3>1. a \in Range(order) /\ a \in Node
      <4>1. a \in Range(order)
        BY <1>5, <2>2
      <4> QED BY <1>2, <4>1, SequenceIs
    <3> QED BY <1>1, <1>6, <2>2, <3>1 DEF Due
  <2> QED BY <2>1, <2>2
<1>14. Phase'
  <2>1. NearNow \in Slot /\ NearNow' = NearNow
    BY <1>0, <1>2, NearTyped DEF NearNow
  <2>2. t # NearNow
    BY <1>2, <1>3, DueNow DEF t, NearNow
  <2>3. wheel'[NearNow] = wheel[NearNow]
    BY <1>4, <2>1, <2>2
  <2> QED BY <1>0, <1>1, <2>1, <2>3 DEF Phase
<1> QED BY <1>9, <1>10, <1>11, <1>12, <1>13, <1>14 DEF TimerInv
-----------------------------------------------------------------------------
(* The timer thread takes the list of this tick,                           *)
LEMMA ExecuteKeeps ==
    ASSUME TimerInv, Execute
    PROVE  TimerInv'
<1>0. /\ lock /\ wheel[NearNow] # <<>> /\ running' = wheel[NearNow]
      /\ wheel' = [wheel EXCEPT ![NearNow] = <<>>] /\ lock' = FALSE
      /\ UNCHANGED <<time, expire, pc, todo, wait, order>>
  BY DEF Execute
<1>1. Typed /\ Placed /\ Lined /\ Linked /\ Due /\ Phase
  BY DEF TimerInv
<1>2. /\ wheel \in [Slot -> Seq(Node)] /\ NearNow \in Slot /\ wheel[NearNow] \in Seq(Node)
      /\ NearNow' = NearNow
  BY <1>0, <1>1, NearTyped DEF Typed, NearNow
<1>3. running = <<>> /\ pc # "loop" /\ Range(running) = {}
  <2>1. running = <<>> /\ pc # "loop"
    BY <1>0, <1>1 DEF Phase
  <2> QED BY <1>1, <2>1, SequenceIs DEF Typed
<1>4. /\ wheel' \in [Slot -> Seq(Node)] /\ wheel'[NearNow] = <<>>
      /\ \A u \in Slot : u # NearNow => wheel'[u] = wheel[u]
  <2>1. <<>> \in Seq(Node)
    OBVIOUS
  <2> QED BY <1>0, <1>2, <2>1
<1>5. \A u \in Slot : \A x : x \in Range(wheel'[u]) <=> u # NearNow /\ x \in Range(wheel[u])
  <2>1. Range(<<>>) = {}
    BY DEF Range
  <2> QED BY <1>4, <2>1
<1>6. \A x : x \in Range(running') <=> x \in Range(wheel[NearNow])
  BY <1>0
<1>7. Typed'
  BY <1>0, <1>1, <1>2, <1>4 DEF Typed
<1>8. Placed'
  BY <1>0, <1>1, <1>5 DEF Placed
<1>9. Lined'
  <2>1. \A u \in Slot : Ordered(wheel'[u], expire, order)
    <3>1. Ordered(<<>>, expire, order)
      BY DEF Ordered
    <3> QED BY <1>1, <1>4, <3>1 DEF Lined
  <2>2. Ordered(running', expire, order)
    BY <1>0, <1>1, <1>2 DEF Lined
  <2>3. \A u \in Slot : \A a \in Range(wheel'[u]) : a \notin Range(running')
    BY <1>1, <1>2, <1>5, <1>6 DEF Placed
  <2> QED BY <1>0, <1>1, <2>1, <2>2, <2>3 DEF Lined
<1>10. Linked'
  <2> SUFFICES ASSUME NEW x
               PROVE  x \in Range(order) <=> \/ x \in Range(running')
                                             \/ \E u \in Slot : x \in Range(wheel'[u])
    BY <1>0 DEF Linked
  <2>1. x \in Range(order) <=> \E u \in Slot : x \in Range(wheel[u])
    BY <1>1, <1>3 DEF Linked
  <2> QED BY <1>2, <1>5, <1>6, <2>1
<1>11. Due'
  <2> SUFFICES ASSUME NEW a \in Range(order)
               PROVE  a \in Range(running') => wait[a] = 0
    BY <1>0, <1>1 DEF Due
  <2> QED BY <1>6, DueStands
<1>12. Phase'
  <2>1. PICK a : a \in Range(wheel[NearNow])
    BY <1>0, <1>2, SequenceIs
  <2>2. a \in Range(order) /\ wait[a] = 0
    <3>1. a \in Range(order)
      BY <1>1, <1>2, <2>1 DEF Linked
    <3> QED BY <2>1, <3>1, DueStands
  <2> QED BY <1>0, <1>1, <1>2, <1>3, <1>4, <2>2 DEF Phase
<1> QED BY <1>7, <1>8, <1>9, <1>10, <1>11, <1>12 DEF TimerInv

(* and dispatches its first node.                                          *)
LEMMA DispatchKeeps ==
    ASSUME TimerInv, dispatch_list
    PROVE  TimerInv'
<1> DEFINE h == Head(running)
<1>0. /\ running # <<>> /\ running' = Tail(running) /\ order' = RemoveFirst(order, h)
      /\ expire' = [expire EXCEPT ![h] = 0] /\ wait' = [wait EXCEPT ![h] = 0]
      /\ UNCHANGED <<time, wheel, lock, pc, todo>>
  BY DEF dispatch_list
<1>1. Typed /\ Placed /\ Lined /\ Linked /\ Due /\ Phase
  BY DEF TimerInv
<1>2. /\ time \in Tick /\ wheel \in [Slot -> Seq(Node)] /\ expire \in [Node -> Tick]
      /\ running \in Seq(Node) /\ wait \in [Node -> Int] /\ order \in Seq(Node)
      /\ Unique(order) /\ Ordered(running, expire, order)
  BY <1>1 DEF Typed, Lined
<1>3. /\ running' \in Seq(Node) /\ h \in Node /\ h \in Range(running)
      /\ h \notin Range(running')
      /\ \A x : x \in Range(running) <=> x = h \/ x \in Range(running')
      /\ Ordered(running', expire, order)
  BY <1>0, <1>2, TailIs
<1>4. h \in Range(order) /\ \A u \in Slot : h \notin Range(wheel[u])
  BY <1>1, <1>3 DEF Linked, Lined
<1> HIDE DEF h
<1>5. /\ order' \in Seq(Node) /\ Unique(order')
      /\ \A x : x \in Range(order') <=> x \in Range(order) /\ x # h
      /\ \A a, b : a # h /\ b # h /\ Before(order, a, b) => Before(order', a, b)
  BY <1>0, <1>2, <1>4, RemovedIs
<1>6. /\ expire' \in [Node -> Tick] /\ wait' \in [Node -> Int]
      /\ \A a \in Node : a # h => expire'[a] = expire[a] /\ wait'[a] = wait[a]
  <2>1. 0 \in Tick
    BY <1>2, SpanTyped DEF Tick
  <2> QED BY <1>0, <1>2, <1>3, <2>1
<1>7. ASSUME NEW s \in Seq(Node), Ordered(s, expire, order), h \notin Range(s)
      PROVE  Ordered(s, expire', order')
  <2>1. \A a \in Range(s) : expire'[a] = expire[a]
    <3>1. Range(s) \subseteq Node
      BY SequenceIs
    <3> QED BY <1>6, <1>7, <3>1
  <2>2. \A a, b \in Range(s) : Before(order, a, b) => Before(order', a, b)
    BY <1>5, <1>7
  <2> QED BY <1>7, <2>1, <2>2, OrderedStill
<1>8. Typed'
  BY <1>0, <1>1, <1>3, <1>5, <1>6 DEF Typed
<1>9. Placed'
  <2> SUFFICES ASSUME NEW u \in Slot, NEW a \in Range(wheel[u])
               PROVE  u = SlotFor(expire'[a], time)
    BY <1>0 DEF Placed
  <2>1. a # h /\ a \in Node
    <3>1. wheel[u] \in Seq(Node)
      BY <1>2
    <3> QED BY <1>4, <3>1, SequenceIs
  <2> QED BY <1>1, <1>6, <2>1 DEF Placed
<1>10. Lined'
  <2>1. \A u \in Slot : Ordered(wheel[u], expire', order')
    BY <1>1, <1>2, <1>4, <1>7 DEF Lined
  <2>2. Ordered(running', expire', order')
    BY <1>3, <1>7
  <2>3. \A u \in Slot : \A a \in Range(wheel[u]) : a \notin Range(running')
    BY <1>1, <1>3 DEF Lined
  <2> QED BY <1>0, <1>5, <2>1, <2>2, <2>3 DEF Lined
<1>11. Linked'
  <2> SUFFICES ASSUME NEW x
               PROVE  x \in Range(order') <=> \/ x \in Range(running')
                                              \/ \E u \in Slot : x \in Range(wheel[u])
    BY <1>0 DEF Linked
  <2>1. x \in Range(order) <=> \/ x \in Range(running)
                               \/ \E u \in Slot : x \in Range(wheel[u])
    BY <1>1 DEF Linked
  <2> QED BY <1>3, <1>4, <1>5, <2>1
<1>12. Due'
  <2> SUFFICES ASSUME NEW a \in Range(order')
               PROVE  /\ wait'[a] \in 0 .. MaxDelay
                      /\ expire'[a] = (time + wait'[a]) % Period
                      /\ wait'[a] = 0 => pc = "after"
                      /\ a \in Range(running') => wait'[a] = 0
    BY <1>0 DEF Due
  <2>1. a \in Range(order) /\ a # h
    BY <1>5
  <2>2. a \in Node
    BY <1>2, <2>1, SequenceIs
  <2> QED BY <1>1, <1>3, <1>6, <2>1, <2>2 DEF Due
<1>13. Phase'
  <2>1. NearNow' = NearNow
    BY <1>0 DEF NearNow
  <2>2. ~lock /\ pc # "loop"
    BY <1>0, <1>1 DEF Phase
  <2> QED BY <1>0, <1>1, <2>1, <2>2 DEF Phase
<1> QED BY <1>8, <1>9, <1>10, <1>11, <1>12, <1>13 DEF TimerInv

-----------------------------------------------------------------------------
(* The counter goes on by one tick and one list is redistributed.          *)
LEMMA ShiftKeepsInv ==
    ASSUME TimerInv, timer_shift
    PROVE  TimerInv'
<1> DEFINE ct == (time + 1) % Period
           lists == ShiftedLists(ct)
           s == CHOOSE s \in lists : TRUE
<1>0. /\ pc = "before" /\ lock /\ wheel[NearNow] = <<>> /\ time' = ct
      /\ wheel' = IF lists = {} THEN wheel ELSE move_list(wheel, s, ct)
      /\ wait' = [n \in Node |-> IF n \in Range(order) /\ wait[n] >= 0 THEN wait[n] - 1
                                 ELSE wait[n]]
      /\ pc' = "after"
      /\ UNCHANGED <<expire, lock, todo, running, order>>
  BY DEF timer_shift, TickAfter, Pending
<1>1. Typed /\ Placed /\ Lined /\ Linked /\ Due /\ Phase
  BY DEF TimerInv
<1>2. /\ time \in Tick /\ wheel \in [Slot -> Seq(Node)] /\ expire \in [Node -> Tick]
      /\ wait \in [Node -> Int] /\ order \in Seq(Node)
  BY <1>1 DEF Typed
<1>3. running = <<>> /\ Range(running) = {}
  <2>1. running = <<>>
    BY <1>0, <1>1 DEF Phase
  <2> QED BY <1>1, <2>1, SequenceIs DEF Typed
<1>4. ct \in Tick
  <2>1. 1 \in 0 .. MaxDelay
    BY DelayIsShort, SpanTyped
  <2> QED BY <1>2, <2>1, Later
<1>5. \A a \in Range(order) : /\ a \in Node /\ wait[a] \in 1 .. MaxDelay
                              /\ expire[a] = (time + wait[a]) % Period
                              /\ expire[a] \in Tick
                              /\ expire[a] = (ct + (wait[a] - 1)) % Period
  <2> SUFFICES ASSUME NEW a \in Range(order)
               PROVE  /\ a \in Node /\ wait[a] \in 1 .. MaxDelay
                      /\ expire[a] = (time + wait[a]) % Period
                      /\ expire[a] \in Tick
                      /\ expire[a] = (ct + (wait[a] - 1)) % Period
    OBVIOUS
  <2>1. a \in Node
    BY <1>2, SequenceIs
  <2>2. wait[a] \in 0 .. MaxDelay /\ wait[a] # 0 /\ expire[a] = (time + wait[a]) % Period
    BY <1>0, <1>1 DEF Due
  <2>3. wait[a] \in 1 .. MaxDelay
    BY <2>2, DelayIsShort
  <2>4. (time + wait[a]) % Period = (ct + (wait[a] - 1)) % Period
    BY <1>2, <2>3, OneLess
  <2> QED BY <1>2, <2>1, <2>2, <2>3, <2>4
<1>6. \A u \in Slot : \A a \in Range(wheel[u]) : a \in Range(order) /\ u = SlotFor(expire[a], time)
  BY <1>1 DEF Linked, Placed
<1>7. ASSUME NEW u \in Slot, NEW a \in Range(wheel[u]), u \notin lists
      PROVE  u = SlotFor(expire[a], ct)
  <2>1. /\ wait[a] \in 1 .. MaxDelay /\ expire[a] = (time + wait[a]) % Period
        /\ SlotFor(expire[a], time) \notin ShiftedLists(ct)
    BY <1>5, <1>6, <1>7
  <2> QED BY <1>2, <1>6, <2>1, ShiftKeeps
<1>8. lists # {} => s \in lists /\ \A u \in lists : u = s
  <2> SUFFICES ASSUME lists # {} PROVE s \in lists /\ \A u \in lists : u = s
    OBVIOUS
  <2>1. s \in lists
    <3> HIDE DEF lists
    <3> QED OBVIOUS
  <2> HIDE DEF s
  <2> QED BY <1>4, <2>1, OneShifted
<1>9. lists # {} => s \in Slot
  <2> SUFFICES ASSUME lists # {} PROVE s \in Slot
    OBVIOUS
  <2>1. s \in lists
    BY <1>8
  <2> HIDE DEF s
  <2>2. <<3, 0>> \in Slot
    BY TimerAssumption DEF Slot
  <2> QED BY <2>1, <2>2 DEF ShiftedLists
<1> HIDE DEF ct, lists, s
<1>10. lists # {} => MovedTo(wheel', wheel, s, ct, Len(wheel[s]))
  <2> SUFFICES ASSUME lists # {} PROVE MovedTo(wheel', wheel, s, ct, Len(wheel[s]))
    OBVIOUS
  <2>1. wheel' = move_list(wheel, s, ct)
    BY <1>0
  <2>2. /\ \A u \in Slot : Ordered(wheel[u], expire, order)
        /\ \A u \in Slot : \A a \in Range(wheel[u]) : u = SlotFor(expire[a], time)
    BY <1>1 DEF Lined, Placed
  <2>3. MovedTo(move_list(wheel, s, ct), wheel, s, ct, Len(wheel[s]))
    BY <1>2, <1>4, <1>9, <2>2, MoveKeeps
  <2> QED BY <2>1, <2>3
<1>11. wheel' \in [Slot -> Seq(Node)] /\ \A u \in Slot : Ordered(wheel'[u], expire, order)
  <2>1. CASE lists = {}
    BY <1>0, <1>1, <1>2, <2>1 DEF Lined
  <2>2. CASE lists # {}
    BY <1>10, <2>2 DEF MovedTo
  <2> QED BY <2>1, <2>2
<1>12. \A u \in Slot : \A a \in Range(wheel'[u]) :
          u = SlotFor(expire[a], ct) /\ \E v \in Slot : a \in Range(wheel[v])
  <2> SUFFICES ASSUME NEW u \in Slot, NEW a \in Range(wheel'[u])
               PROVE  u = SlotFor(expire[a], ct) /\ \E v \in Slot : a \in Range(wheel[v])
    OBVIOUS
  <2>1. CASE lists = {}
    BY <1>0, <1>7, <2>1
  <2>2. CASE lists # {} /\ u # s /\ a \in Range(wheel[u])
    BY <1>7, <1>8, <2>2
  <2>3. ASSUME lists # {}, NEW j \in 1 .. Len(wheel[s]), a = wheel[s][j],
               u = SlotFor(expire[a], ct)
        PROVE  \E v \in Slot : a \in Range(wheel[v])
    <3>1. wheel[s] \in Seq(Node) /\ s \in Slot
      BY <1>2, <1>9, <2>3
    <3>2. a \in Range(wheel[s])
      BY <2>3, <3>1, SequenceIs
    <3> QED BY <3>1, <3>2
  <2>4. lists # {} => \/ u # s /\ a \in Range(wheel[u])
                      \/ \E j \in 1 .. Len(wheel[s]) : a = wheel[s][j] /\ u = SlotFor(expire[a], ct)
    BY <1>10 DEF MovedTo
  <2> QED BY <2>1, <2>2, <2>3, <2>4
<1>13. \A v \in Slot : \A a \in Range(wheel[v]) : \E u \in Slot : a \in Range(wheel'[u])
  <2> SUFFICES ASSUME NEW v \in Slot, NEW a \in Range(wheel[v])
               PROVE  \E u \in Slot : a \in Range(wheel'[u])
    OBVIOUS
  <2>1. CASE lists = {}
    BY <1>0, <2>1
  <2>2. CASE lists # {} /\ v # s
    BY <1>10, <2>2 DEF MovedTo
  <2>3. CASE lists # {} /\ v = s
    <3>1. wheel[s] \in Seq(Node)
      BY <1>2, <1>9, <2>3
    <3>2. PICK j \in 1 .. Len(wheel[s]) : wheel[s][j] = a
      BY <2>3, <3>1, SequenceIs
    <3>3. SlotFor(expire[a], ct) \in Slot
      <4>1. expire[a] \in Tick
        BY <1>5, <1>6
      <4> QED BY <1>4, <4>1, SlotTyped
    <3> QED BY <1>10, <2>3, <3>2, <3>3 DEF MovedTo
  <2> QED BY <2>1, <2>2, <2>3
<1>14. wait' \in [Node -> Int] /\ \A a \in Range(order) : wait'[a] = wait[a] - 1
  <2>1. \A a \in Range(order) : a \in Node /\ wait[a] >= 0
    BY <1>5, DelayIsShort
  <2> QED BY <1>0, <1>2, <2>1
<1>15. Typed'
  BY <1>0, <1>1, <1>4, <1>11, <1>14 DEF Typed
<1>16. Placed'
  BY <1>0, <1>12 DEF Placed
<1>17. Lined'
  BY <1>0, <1>1, <1>3, <1>11 DEF Lined
<1>18. Linked'
  <2> SUFFICES ASSUME NEW x
               PROVE  x \in Range(order) <=> \/ x \in Range(running)
                                             \/ \E u \in Slot : x \in Range(wheel'[u])
    BY <1>0 DEF Linked
  <2> QED BY <1>1, <1>3, <1>12, <1>13 DEF Linked
<1>19. Due'
  <2> SUFFICES ASSUME NEW a \in Range(order)
               PROVE  wait'[a] \in 0 .. MaxDelay /\ expire[a] = (ct + wait'[a]) % Period
    BY <1>0, <1>3 DEF Due
  <2> QED BY <1>5, <1>14, DelayIsShort
<1>20. Phase'
  BY <1>0, <1>3 DEF Phase
<1> QED BY <1>15, <1>16, <1>17, <1>18, <1>19, <1>20 DEF TimerInv
-----------------------------------------------------------------------------
(* Every step keeps the invariant.                                         *)
LEMMA TimerStep == TimerInv /\ [Next]_vars => TimerInv'
<1> SUFFICES ASSUME TimerInv, [Next]_vars PROVE TimerInv'
  OBVIOUS
<1>1. Typed /\ Placed /\ Lined /\ Linked /\ Due /\ Phase
  BY DEF TimerInv
<1>2. ASSUME UNCHANGED <<time, wheel, expire, running, wait, order>>, Typed',
             pc' = pc \/ \A n \in Range(order) : wait[n] # 0, Phase'
      PROVE  TimerInv'
  <2>1. Placed'
    BY <1>1, <1>2 DEF Placed
  <2>2. Lined'
    BY <1>1, <1>2 DEF Lined
  <2>3. Linked'
    BY <1>1, <1>2 DEF Linked
  <2>4. Due'
    BY <1>1, <1>2 DEF Due
  <2> QED BY <1>2, <2>1, <2>2, <2>3, <2>4 DEF TimerInv
<1>3. NearNow' = NearNow \/ time' # time
  BY DEF NearNow
<1>4. ASSUME NEW n \in Node, NEW delay \in 1 .. MaxDelay, timer_add(n, delay)
      PROVE  TimerInv'
  BY <1>4, AddKeeps
<1>5. ASSUME NEW diff \in 1 .. MaxTicks, skynet_updatetime(diff) PROVE TimerInv'
  <2>1. Typed'
    BY <1>1, <1>5, TimerAssumption DEF skynet_updatetime, Typed
  <2>2. Phase'
    BY <1>1, <1>3, <1>5 DEF skynet_updatetime, Phase
  <2> QED BY <1>2, <1>5, <2>1, <2>2 DEF skynet_updatetime
<1>6. CASE BeginUpdate
  <2>1. Typed'
    <3>1. todo' \in 0 .. MaxTicks
      BY <1>1, <1>6, TimerAssumption DEF BeginUpdate, Typed
    <3>2. lock' \in BOOLEAN /\ pc' \in {"loop", "before", "after"}
      BY <1>6 DEF BeginUpdate
    <3> QED BY <1>1, <1>6, <3>1, <3>2 DEF BeginUpdate, Typed
  <2>2. Phase'
    BY <1>1, <1>3, <1>6 DEF BeginUpdate, Phase
  <2>3. \A n \in Range(order) : wait[n] # 0
    BY <1>1, <1>6 DEF BeginUpdate, Due
  <2> QED BY <1>2, <1>6, <2>1, <2>2, <2>3 DEF BeginUpdate
<1>7. CASE Execute
  BY <1>7, ExecuteKeeps
<1>8. CASE dispatch_list
  BY <1>8, DispatchKeeps
<1>9. CASE Relock
  <2>1. Typed'
    BY <1>1, <1>9 DEF Relock, Typed
  <2>2. Phase'
    BY <1>1, <1>3, <1>9 DEF Relock, Phase
  <2> QED BY <1>2, <1>9, <2>1, <2>2 DEF Relock
<1>10. CASE timer_shift
  BY <1>10, ShiftKeepsInv
<1>11. CASE EndUpdate
  <2>1. Typed'
    BY <1>1, <1>11 DEF EndUpdate, Typed
  <2>2. running = <<>> /\ wheel[NearNow] = <<>>
    BY <1>1, <1>11 DEF EndUpdate, Phase
  <2>3. Phase'
    BY <1>11, <2>2 DEF EndUpdate, Phase
  <2>4. \A n \in Range(order) : wait[n] # 0
    <3>1. Range(<<>>) = {}
      BY DEF Range
    <3> QED BY <2>2, <3>1, DueStands
  <2> QED BY <1>2, <1>11, <2>1, <2>3, <2>4 DEF EndUpdate
<1>12. CASE UNCHANGED vars
  <2>1. Typed'
    BY <1>1, <1>12 DEF vars, Typed
  <2>2. Phase'
    BY <1>1, <1>3, <1>12 DEF vars, Phase
  <2> QED BY <1>2, <1>12, <2>1, <2>2 DEF vars
<1> QED BY <1>4, <1>5, <1>6, <1>7, <1>8, <1>9, <1>10, <1>11, <1>12 DEF Next, TimerThread

(* The invariant holds in every state of the wheel.                        *)
THEOREM WheelInvariant == FairSpec => []TimerInv
<1>1. Init => TimerInv
  BY TimerInit
<1>2. TimerInv /\ [Next]_vars => TimerInv'
  BY TimerStep
<1> QED BY <1>1, <1>2, PTL DEF FairSpec

-----------------------------------------------------------------------------
(* A list without repetition is no longer than there are nodes.            *)
LEMMA ListShort ==
    ASSUME NEW s \in Seq(Node), NEW ex, NEW o, Ordered(s, ex, o)
    PROVE  Len(s) <= Cardinality(Node) /\ Cardinality(Node) \in Nat
<1>1. Len(s) \in Nat /\ DOMAIN s = 1 .. Len(s) /\ \A i \in 1 .. Len(s) : s[i] \in Node
  BY SequenceIs
<1>2. s \in Injection(1 .. Len(s), Node)
  <2>1. s \in [1 .. Len(s) -> Node]
    OBVIOUS
  <2>2. \A i, j \in 1 .. Len(s) : s[i] = s[j] => i = j
    <3> SUFFICES ASSUME NEW i \in 1 .. Len(s), NEW j \in 1 .. Len(s), s[i] = s[j], i # j
                 PROVE  FALSE
      OBVIOUS
    <3>1. i < j \/ j < i
      BY <1>1
    <3> QED BY <1>1, <3>1 DEF Ordered
  <2> QED BY <2>1, <2>2 DEF Injection, IsInjective
<1>3. Cardinality(1 .. Len(s)) <= Cardinality(Node)
  BY <1>2, FS_Injection, TimerAssumption
<1>4. Cardinality(1 .. Len(s)) = Len(s)
  <2>1. 1 \in Int /\ Len(s) \in Int
    BY <1>1
  <2>2. Cardinality(1 .. Len(s)) = IF 1 > Len(s) THEN 0 ELSE Len(s) - 1 + 1
    BY <2>1, FS_Interval
  <2> QED BY <1>1, <2>2
<1>5. Cardinality(Node) \in Nat
  BY TimerAssumption, FS_CardinalityType
<1> QED BY <1>3, <1>4, <1>5

(* Where a node stands in an ordered list, if it does.                     *)
LEMMA StandsOnce ==
    ASSUME NEW s \in Seq(Node), NEW ex, NEW o, Ordered(s, ex, o), NEW n
    PROVE  IF n \in Range(s) THEN \E k \in 1 .. Len(s) : \A i \in 1 .. Len(s) : s[i] = n <=> i = k
                             ELSE \A i \in 1 .. Len(s) : s[i] # n
<1>1. /\ Len(s) \in Nat /\ DOMAIN s = 1 .. Len(s)
      /\ \A x : x \in Range(s) <=> \E i \in 1 .. Len(s) : s[i] = x
  BY SequenceIs
<1>2. CASE n \in Range(s)
  <2>1. PICK k \in 1 .. Len(s) : s[k] = n
    BY <1>1, <1>2
  <2>2. ASSUME NEW i \in 1 .. Len(s), s[i] = n PROVE i = k
    <3>1. i < k \/ k < i \/ i = k
      BY <1>1
    <3> QED BY <1>1, <2>1, <2>2, <3>1 DEF Ordered
  <2> QED BY <1>2, <2>1, <2>2
<1> QED BY <1>1, <1>2

(* No timer is lost and none is doubled, in any number of redistributions. *)
THEOREM EveryTimerLinked == FairSpec => []LinkedOnce
<1>1. TimerInv => LinkedOnce
  <2> SUFFICES ASSUME TimerInv PROVE LinkedOnce
    OBVIOUS
  <2>1. Typed /\ Placed /\ Lined /\ Linked
    BY DEF TimerInv
  <2>2. wheel \in [Slot -> Seq(Node)] /\ running \in Seq(Node) /\ order \in Seq(Node)
    BY <2>1 DEF Typed
  <2>3. TypeOK
    <3>1. \A t \in Slot : Range(wheel[t]) \subseteq Node
      BY <2>2, SequenceIs
    <3>2. Range(running) \subseteq Node
      BY <2>2, SequenceIs
    <3>3. Range(order) \subseteq Node
      BY <2>2, SequenceIs
    <3> QED BY <2>1, <3>1, <3>2, <3>3 DEF Typed, TypeOK, Tick
  <2> SUFFICES ASSUME NEW n \in Node
               PROVE  Places(n) = IF n \in Range(order) THEN 1 ELSE 0
    BY <2>3 DEF LinkedOnce, Pending
  <2> DEFINE c == Cardinality(Node)
             A == {p \in Slot \X (1 .. c) : p[2] \in DOMAIN wheel[p[1]] /\ wheel[p[1]][p[2]] = n}
             B == {k \in DOMAIN running : running[k] = n}
  <2>4. Places(n) = Cardinality(A) + Cardinality(B)
    BY DEF Places
  <2>5. \A t \in Slot : /\ wheel[t] \in Seq(Node) /\ Ordered(wheel[t], expire, order)
                        /\ DOMAIN wheel[t] = 1 .. Len(wheel[t]) /\ Len(wheel[t]) \in Nat
                        /\ Len(wheel[t]) <= c /\ c \in Nat
    <3> SUFFICES ASSUME NEW t \in Slot
                 PROVE  /\ wheel[t] \in Seq(Node) /\ Ordered(wheel[t], expire, order)
                        /\ DOMAIN wheel[t] = 1 .. Len(wheel[t]) /\ Len(wheel[t]) \in Nat
                        /\ Len(wheel[t]) <= c /\ c \in Nat
      OBVIOUS
    <3>1. wheel[t] \in Seq(Node) /\ Ordered(wheel[t], expire, order)
      BY <2>1, <2>2 DEF Lined
    <3> QED BY <3>1, SequenceIs, ListShort
  <2>6. Ordered(running, expire, order) /\ DOMAIN running = 1 .. Len(running)
    BY <2>1, <2>2, SequenceIs DEF Lined
  <2> HIDE DEF c
  <2>7. ASSUME NEW t \in Slot, n \in Range(wheel[t]) PROVE Cardinality(A) = 1
    <3>1. PICK k \in 1 .. Len(wheel[t]) : \A i \in 1 .. Len(wheel[t]) : wheel[t][i] = n <=> i = k
      BY <2>5, <2>7, StandsOnce
    <3>2. <<t, k>> \in A
      BY <2>5, <3>1
    <3>3. ASSUME NEW p \in A PROVE p = <<t, k>>
      <4>1. p \in Slot \X (1 .. c) /\ p[1] \in Slot /\ p[2] \in 1 .. Len(wheel[p[1]])
            /\ wheel[p[1]][p[2]] = n
        BY <2>5
      <4>2. n \in Range(wheel[p[1]])
        <5>1. wheel[p[1]] \in Seq(Node)
          BY <2>5, <4>1
        <5> QED BY <4>1, <5>1, SequenceIs
      <4>3. p[1] = t
        BY <2>1, <2>7, <4>1, <4>2 DEF Placed
      <4>4. p[2] = k
        BY <3>1, <4>1, <4>3
      <4> QED BY <4>1, <4>3, <4>4
    <3>4. A = {<<t, k>>}
      <4> HIDE DEF A
      <4> QED BY <3>2, <3>3
    <3> QED BY <3>4, FS_Singleton
  <2>8. ASSUME \A t \in Slot : n \notin Range(wheel[t]) PROVE Cardinality(A) = 0
    <3>1. ASSUME NEW p \in A PROVE FALSE
      <4>1. p[1] \in Slot /\ p[2] \in 1 .. Len(wheel[p[1]]) /\ wheel[p[1]][p[2]] = n
        BY <2>5
      <4>2. wheel[p[1]] \in Seq(Node)
        BY <2>5, <4>1
      <4> QED BY <2>8, <4>1, <4>2, SequenceIs
    <3>2. A = {}
      <4> HIDE DEF A
      <4> QED BY <3>1
    <3> QED BY <3>2, FS_EmptySet
  <2>9. ASSUME n \in Range(running) PROVE Cardinality(B) = 1
    <3>1. PICK k \in 1 .. Len(running) : \A i \in 1 .. Len(running) : running[i] = n <=> i = k
      BY <2>2, <2>6, <2>9, StandsOnce
    <3>2. B = {k}
      BY <2>6, <3>1
    <3> QED BY <3>2, FS_Singleton
  <2>10. ASSUME n \notin Range(running) PROVE Cardinality(B) = 0
    <3>1. \A i \in 1 .. Len(running) : running[i] # n
      BY <2>2, <2>6, <2>10, StandsOnce
    <3>2. B = {}
      BY <2>6, <3>1
    <3> QED BY <3>2, FS_EmptySet
  <2> HIDE DEF A, B
  <2>11. n \in Range(order) <=> n \in Range(running) \/ \E t \in Slot : n \in Range(wheel[t])
    BY <2>1 DEF Linked
  <2>12. \A t \in Slot : n \in Range(wheel[t]) => n \notin Range(running)
    BY <2>1 DEF Lined
  <2>13. CASE n \in Range(running)
    <3>1. Cardinality(A) = 0 /\ Cardinality(B) = 1
      BY <2>8, <2>9, <2>12, <2>13
    <3> QED BY <2>4, <2>11, <2>13, <3>1
  <2>14. CASE n \notin Range(running) /\ \E t \in Slot : n \in Range(wheel[t])
    <3>1. Cardinality(A) = 1 /\ Cardinality(B) = 0
      BY <2>7, <2>10, <2>14
    <3> QED BY <2>4, <2>11, <2>14, <3>1
  <2>15. CASE n \notin Range(running) /\ ~ \E t \in Slot : n \in Range(wheel[t])
    <3>1. Cardinality(A) = 0 /\ Cardinality(B) = 0
      BY <2>8, <2>10, <2>15
    <3> QED BY <2>4, <2>11, <2>15, <3>1
  <2> QED BY <2>13, <2>14, <2>15
<1> QED BY <1>1, WheelInvariant, PTL

(* A timer is dispatched at the tick it was set for, across every          *)
(* redistribution and the wrap of the counter.                             *)
THEOREM TimersOnTime == FairSpec => []OnTime
<1>1. TimerInv => OnTime
  <2> SUFFICES ASSUME TimerInv, NEW n \in Range(order)
               PROVE  /\ wait[n] >= 0
                      /\ n \in Range(running) => wait[n] = 0
                      /\ wait[n] = 0 => pc = "after"
    BY DEF OnTime, Pending
  <2> QED BY DelayIsShort DEF TimerInv, Due
<1> QED BY <1>1, WheelInvariant, PTL

(* Timers for one tick are dispatched in the order they were added.        *)
THEOREM TiesInOrder == FairSpec => FifoWhenTied
<1> DEFINE Tie == running # <<>> /\ running' = Tail(running) =>
                    \A m \in Pending \ {Head(running)} :
                       wait[m] = wait[Head(running)] =>
                         \E i, j \in DOMAIN order :
                            i < j /\ order[i] = Head(running) /\ order[j] = m
<1>1. TimerInv => Tie
  <2> SUFFICES ASSUME TimerInv, running # <<>>,
                      NEW m \in Range(order), m # Head(running), wait[m] = wait[Head(running)]
               PROVE  Before(order, Head(running), m)
    BY DEF Before, Pending
  <2> DEFINE h == Head(running)
  <2>1. running \in Seq(Node) /\ Ordered(running, expire, order)
    BY DEF TimerInv, Typed, Lined
  <2>2. /\ h \in Range(running)
        /\ \A x : x \in Range(running) <=> x = h \/ x \in Range(Tail(running))
        /\ \A x \in Range(Tail(running)) : expire[h] = expire[x] => Before(order, h, x)
    BY <2>1, TailIs
  <2> HIDE DEF h
  <2>3. h \in Range(order)
    BY <2>2 DEF TimerInv, Linked
  <2>4. wait[h] = 0 /\ expire[h] = time
    BY <2>2, <2>3, DueStands
  <2>5. wait[m] = 0 /\ expire[m] = time
    BY <2>4, DueStands DEF h
  <2>6. m \in Range(running)
    <3>1. wheel[NearNow] = <<>> /\ Range(<<>>) = {}
      BY DEF TimerInv, Phase, Range
    <3> QED BY <2>5, <3>1, DueStands
  <2> QED BY <2>2, <2>4, <2>5, <2>6 DEF h
<1>2. TimerInv /\ [Next]_vars => [Tie]_vars
  BY <1>1
<1> QED BY <1>2, WheelInvariant, PTL DEF FifoWhenTied, FairSpec
=============================================================================
