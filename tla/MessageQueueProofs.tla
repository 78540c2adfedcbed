------------------------- MODULE MessageQueueProofs -------------------------
(* The ring buffer is a FIFO, and its overload mark is right, for any      *)
(* messages and sizes.  The last section is about the threads that sleep   *)
(* while the global queue is empty, for any number of workers.             *)
EXTENDS MessageQueue, Threads, FunctionTheorems, FiniteSetTheorems, TLAPS

(* The variables of the buffer.                                            *)
RingOK ==
    /\ cap \in Nat \ {0}
    /\ buf \in [Index -> Msg]
    /\ head \in Index /\ tail \in Index
    /\ popped \in Msg

LEMMA BlankOK == Blank \in Msg
BY SizeAssumption DEF Blank

(* An index that has run past the end comes back at the start.             *)
Turned(x) == IF x < cap THEN x ELSE x - cap

LEMMA Turn ==
    ASSUME cap \in Nat \ {0}, NEW x \in 0 .. 2 * cap - 1
    PROVE  x % cap = Turned(x)
BY DEF Turned

(* Where the i-th message is.                                              *)
Place(i) == Turned(head + i - 1)

ContentsOK ==
    /\ Length \in 0 .. cap - 1
    /\ \A i \in 1 .. Length + 1 : Place(i) \in Index
    /\ \A i \in 1 .. Length : Place(i) # tail
    /\ Place(Length + 1) = tail
    /\ Contents \in Seq(Msg) /\ Len(Contents) = Length
    /\ \A i \in 1 .. Length : Contents[i] = buf[Place(i)]

LEMMA ContentsPlace == RingOK => ContentsOK
<1> SUFFICES ASSUME RingOK PROVE ContentsOK
  OBVIOUS
<1>1. Length \in 0 .. cap - 1
  BY DEF RingOK, Length, skynet_mq_length, Index
<1>2. \A i \in 1 .. Length + 1 : Place(i) \in Index
  BY <1>1 DEF RingOK, Place, Turned, Index
<1>3. \A i \in 1 .. Length : Place(i) # tail
  BY <1>1 DEF RingOK, Length, skynet_mq_length, Index, Place, Turned
<1>4. Place(Length + 1) = tail
  BY <1>1 DEF RingOK, Length, skynet_mq_length, Index, Place, Turned
<1>5. ASSUME NEW i \in 1 .. Length
      PROVE  (head + i - 1) % cap = Place(i)
  <2>1. head + i - 1 \in 0 .. 2 * cap - 1 /\ cap \in Nat \ {0}
    BY <1>1 DEF RingOK, Index
  <2> QED BY <2>1, Turn, Zenon DEF Place
<1>6. \A i \in 1 .. Length : Contents[i] = buf[Place(i)]
  BY <1>5 DEF Contents
<1>7. Contents \in [1 .. Length -> Msg]
  BY <1>1, <1>2, <1>5 DEF Contents, RingOK
<1>8. Contents \in Seq(Msg) /\ Len(Contents) = Length
  BY <1>1, <1>7
<1> QED BY <1>1, <1>2, <1>3, <1>4, <1>6, <1>8 DEF ContentsOK

LEMMA ContentsPlaceNext == RingOK' => ContentsOK'
BY ContentsPlace, PTL

USE DEF ContentsOK

(* The empty ring and the empty sequence.                                  *)
LEMMA EmptyRing == ASSUME RingOK PROVE head = tail <=> Contents = << >>
<1>1. head = tail <=> Length = 0
  BY DEF RingOK, Length, skynet_mq_length, Index
<1> QED BY <1>1, ContentsPlace

(* A push that finds room.                                                 *)
LEMMA PushStores ==
    ASSUME RingOK, NEW m \in Msg, head # Wrap(tail + 1),
           buf' = [buf EXCEPT ![tail] = m], tail' = Wrap(tail + 1),
           UNCHANGED <<head, cap, popped>>
    PROVE  RingOK' /\ Contents' = Append(Contents, m)
<1>1. RingOK'
  BY DEF RingOK, Wrap, Index
<1>2. Length' = Length + 1
  BY DEF RingOK, Wrap, Index, Length, skynet_mq_length
<1>3. \A i \in 1 .. Length' : Place(i)' = Place(i)
  BY DEF Place, Turned
<1>4. /\ Contents' \in Seq(Msg) /\ Len(Contents') = Length + 1
      /\ \A i \in 1 .. Length + 1 : Contents'[i] = buf'[Place(i)]
  BY <1>1, <1>2, <1>3, ContentsPlace, ContentsPlaceNext
<1>5. \A i \in 1 .. Length : Contents'[i] = Contents[i]
  BY <1>4, ContentsPlace DEF RingOK
<1>6. Contents'[Length + 1] = m
  BY <1>4, ContentsPlace DEF RingOK
<1>7. /\ Append(Contents, m) \in Seq(Msg) /\ Len(Append(Contents, m)) = Length + 1
      /\ \A i \in 1 .. Length : Append(Contents, m)[i] = Contents[i]
      /\ Append(Contents, m)[Length + 1] = m
  BY ContentsPlace
<1>8. \A i \in 1 .. Length + 1 : Contents'[i] = Append(Contents, m)[i]
  BY <1>5, <1>6, <1>7, ContentsPlace
<1> QED BY <1>1, <1>4, <1>7, <1>8

(* A push that fills the buffer: it grows.                                 *)
LEMMA PushGrows ==
    ASSUME RingOK, NEW m \in Msg, head = Wrap(tail + 1),
           expand_queue([buf EXCEPT ![tail] = m]), UNCHANGED popped
    PROVE  RingOK' /\ Contents' = Append(Contents, m)
<1> DEFINE b == [buf EXCEPT ![tail] = m]
<1>1. /\ cap' = 2 * cap /\ head' = 0 /\ tail' = cap
      /\ buf' = [i \in 0 .. 2 * cap - 1 |-> IF i < cap THEN b[(head + i) % cap] ELSE Blank]
  BY DEF expand_queue
<1>2. \A i \in 0 .. cap - 1 : (head + i) % cap = Place(i + 1) /\ Place(i + 1) \in Index
  <2> SUFFICES ASSUME NEW i \in 0 .. cap - 1
               PROVE  (head + i) % cap = Place(i + 1) /\ Place(i + 1) \in Index
    OBVIOUS
  <2>1. head + i \in 0 .. 2 * cap - 1 /\ cap \in Nat \ {0}
    BY DEF RingOK, Index
  <2>2. (head + i) % cap = Turned(head + i)
    BY <2>1, Turn, Zenon
  <2>3. head + (i + 1) - 1 = head + i
    BY DEF RingOK, Index
  <2> QED BY <2>1, <2>2, <2>3 DEF Place, Turned, Index
<1>3. RingOK'
  <2>1. \A i \in 0 .. 2 * cap - 1 : buf'[i] \in Msg
    BY <1>1, <1>2, BlankOK DEF RingOK
  <2> QED BY <1>1, <2>1 DEF RingOK, Index
<1>4. Length = cap - 1 /\ Length' = cap
  BY <1>1 DEF RingOK, Index, Wrap, Length, skynet_mq_length
<1>5. \A i \in 1 .. cap : Place(i)' = i - 1
  BY <1>1 DEF RingOK, Place, Turned
<1>6. /\ Contents' \in Seq(Msg) /\ Len(Contents') = cap
      /\ \A i \in 1 .. cap : Contents'[i] = buf'[i - 1]
  BY <1>3, <1>4, <1>5, ContentsPlace, ContentsPlaceNext
<1>7. \A i \in 1 .. cap : buf'[i - 1] = b[Place(i)]
  BY <1>1, <1>2 DEF RingOK
<1>8. \A i \in 1 .. cap - 1 : Contents'[i] = Contents[i]
  <2> SUFFICES ASSUME NEW i \in 1 .. cap - 1 PROVE Contents'[i] = Contents[i]
    OBVIOUS
  <2>1. Contents'[i] = b[Place(i)]
    BY <1>6, <1>7 DEF RingOK
  <2>2. Place(i) \in Index /\ Place(i) # tail /\ Contents[i] = buf[Place(i)]
    BY <1>4, ContentsPlace
  <2> QED BY <2>1, <2>2 DEF RingOK
<1>9. Contents'[cap] = m
  BY <1>4, <1>6, <1>7, ContentsPlace DEF RingOK
<1>10. /\ Append(Contents, m) \in Seq(Msg) /\ Len(Append(Contents, m)) = cap
       /\ \A i \in 1 .. cap - 1 : Append(Contents, m)[i] = Contents[i]
       /\ Append(Contents, m)[cap] = m
  BY <1>4, ContentsPlace DEF RingOK
<1>11. \A i \in 1 .. cap : Contents'[i] = Append(Contents, m)[i]
  BY <1>8, <1>9, <1>10 DEF RingOK
<1> QED BY <1>3, <1>6, <1>10, <1>11

(* A pop from a buffer that holds something.                               *)
LEMMA PopTakes ==
    ASSUME RingOK, head # tail, popped' = buf[head], head' = Wrap(head + 1),
           UNCHANGED <<buf, cap, tail>>
    PROVE  /\ RingOK' /\ Contents # << >>
           /\ popped' = Head(Contents) /\ Contents' = Tail(Contents)
<1>1. RingOK'
  BY DEF RingOK, Wrap, Index
<1>2. Length' = Length - 1 /\ Length > 0
  BY DEF RingOK, Wrap, Index, Length, skynet_mq_length
<1>3. \A i \in 1 .. Length - 1 : Place(i)' = Place(i + 1)
  BY ContentsPlace DEF RingOK, Place, Turned, Wrap, Index
<1>4. /\ Contents' \in Seq(Msg) /\ Len(Contents') = Length - 1
      /\ \A i \in 1 .. Length - 1 : Contents'[i] = buf[Place(i + 1)]
  BY <1>1, <1>2, <1>3, ContentsPlace, ContentsPlaceNext
<1>5. Contents # << >> /\ Contents[1] = buf[head]
  BY <1>2, ContentsPlace DEF RingOK, Place, Turned, Index
<1>6. /\ Tail(Contents) \in Seq(Msg) /\ Len(Tail(Contents)) = Length - 1
      /\ \A i \in 1 .. Length - 1 : Tail(Contents)[i] = Contents[i + 1]
  BY <1>5, ContentsPlace
<1>7. \A i \in 1 .. Length - 1 : Contents'[i] = Tail(Contents)[i]
  <2>1. Length \in Nat /\ \A i \in 1 .. Length : Contents[i] = buf[Place(i)]
    BY ContentsPlace
  <2>2. \A i \in 1 .. Length - 1 : Contents[i + 1] = buf[Place(i + 1)]
    BY <2>1
  <2> QED BY <1>4, <1>6, <2>2
<1> QED BY <1>1, <1>4, <1>5, <1>6, <1>7

LEMMA RingInit == Init => RingOK /\ Fifo!Init
<1> SUFFICES ASSUME Init PROVE RingOK /\ Fifo!Init
  OBVIOUS
<1>1. RingOK
  BY SizeAssumption, BlankOK DEF Init, RingOK, Index
<1> QED BY <1>1, EmptyRing DEF Init, RingOK, Fifo!Init

LEMMA RingStep == RingOK /\ [Next]_vars => RingOK' /\ [Fifo!Next]_(Fifo!vars)
<1> SUFFICES ASSUME RingOK, [Next]_vars PROVE RingOK' /\ [Fifo!Next]_(Fifo!vars)
  OBVIOUS
<1>1. ASSUME NEW m \in Msg, skynet_mq_push(m) PROVE RingOK' /\ Fifo!Push(m)
  <2>1. RingOK' /\ Contents' = Append(Contents, m)
    BY <1>1, PushStores, PushGrows DEF skynet_mq_push
  <2> QED BY <1>1, <2>1 DEF skynet_mq_push, Fifo!Push
<1>2. ASSUME UNCHANGED <<buf, cap, head, tail, popped>>
      PROVE  RingOK' /\ UNCHANGED Fifo!vars
  BY <1>2 DEF RingOK, Index, Fifo!vars, Contents, Length
<1>3. CASE skynet_mq_pop
  <2>1. CASE head # tail
    BY <1>3, <2>1, PopTakes DEF skynet_mq_pop, Fifo!Next, Fifo!Pop
  <2>2. CASE head = tail
    BY <1>2, <1>3, <2>2 DEF skynet_mq_pop
  <2> QED BY <2>1, <2>2
<1>4. CASE skynet_mq_overload
  BY <1>2, <1>4 DEF skynet_mq_overload
<1>5. CASE UNCHANGED vars
  BY <1>2, <1>5 DEF vars
<1> QED BY <1>1, <1>3, <1>4, <1>5 DEF Next, Fifo!Next

(* For any messages and sizes, the ring buffer of skynet_mq.c implements   *)
(* the FIFO: pushes append, pops take the oldest, growth is not seen.      *)
THEOREM RingIsFifo == Spec => FifoSpec
<1>1. Spec => []RingOK
  BY RingInit, RingStep, PTL DEF Spec
<1> QED BY <1>1, RingInit, RingStep, PTL DEF Spec, FifoSpec, Fifo!Spec

-----------------------------------------------------------------------------
(* The overload mark.  Two facts about powers of two come from the number  *)
(* of subsets.                                                             *)
LEMMA Subsets ==
    ASSUME NEW k \in Nat
    PROVE  /\ IsFiniteSet(SUBSET (1 .. k)) /\ Cardinality(SUBSET (1 .. k)) = 2 ^ k
           /\ 2 ^ k \in Nat
<1>1. IsFiniteSet(1 .. k) /\ Cardinality(1 .. k) = k
  BY FS_Interval
<1> QED BY <1>1, FS_SUBSET, FS_CardinalityType

LEMMA Doubling ==
    ASSUME NEW k \in Nat \ {0}
    PROVE  2 ^ k = 2 * 2 ^ (k - 1)
<1> DEFINE Without == SUBSET (1 .. k - 1)
           With == {S \cup {k} : S \in Without}
           f == [S \in Without |-> S \cup {k}]
<1>1. IsFiniteSet(Without) /\ Cardinality(Without) = 2 ^ (k - 1) /\ 2 ^ (k - 1) \in Nat
  BY Subsets
<1>2. IsFiniteSet(With) /\ Cardinality(With) = Cardinality(Without)
  <2>1. \A S \in Without : k \notin S
    OBVIOUS
  <2>2. f \in [Without -> With] /\ \A S \in With : \E T \in Without : f[T] = S
    OBVIOUS
  <2>3. ASSUME NEW S \in Without, NEW T \in Without, f[S] = f[T]
        PROVE  S = T
    <3>1. S = f[S] \ {k} /\ T = f[T] \ {k}
      BY <2>1
    <3> QED BY <2>3, <3>1
  <2> HIDE DEF f, Without, With
  <2>4. f \in Bijection(Without, With)
    BY <2>2, <2>3 DEF Bijection, Injection, Surjection, IsInjective
  <2>5. ExistsBijection(Without, With)
    BY <2>4 DEF ExistsBijection
  <2> QED BY <1>1, <2>5, FS_Bijection
<1>3. Without \cap With = {}
  OBVIOUS
<1>4. Without \cup With = SUBSET (1 .. k)
  <2>1. \A S \in SUBSET (1 .. k) : S \in Without \/ S \in With
    <3> SUFFICES ASSUME NEW S \in SUBSET (1 .. k), S \notin Without PROVE S \in With
      OBVIOUS
    <3>1. k \in S
      OBVIOUS
    <3>2. S \ {k} \in Without /\ S = (S \ {k}) \cup {k}
      BY <3>1
    <3> QED BY <3>2
  <2>2. \A S \in Without : S \in SUBSET (1 .. k) /\ S \cup {k} \in SUBSET (1 .. k)
    <3>1. \A i \in 1 .. k - 1 : i \in 1 .. k
      OBVIOUS
    <3> QED BY <3>1
  <2>3. \A S \in With : S \in SUBSET (1 .. k)
    BY <2>2
  <2> HIDE DEF Without, With
  <2>4. \A S : S \in Without \cup With <=> S \in SUBSET (1 .. k)
    BY <2>1, <2>2, <2>3
  <2> QED BY <2>4
<1>5. Cardinality(Without \cup With) = 2 ^ (k - 1) + 2 ^ (k - 1)
  <2>1. Cardinality({}) = 0
    BY FS_EmptySet
  <2> HIDE DEF Without, With
  <2>2. Cardinality(Without \cup With)
            = Cardinality(Without) + Cardinality(With) - Cardinality(Without \cap With)
    BY <1>1, <1>2, FS_Union
  <2> QED BY <1>1, <1>2, <1>3, <2>1, <2>2
<1>6. Cardinality(SUBSET (1 .. k)) = 2 ^ k
  BY Subsets
<1>7. 2 ^ k = 2 ^ (k - 1) + 2 ^ (k - 1)
  BY <1>4, <1>5, <1>6, Zenon
<1> DEFINE half == 2 ^ (k - 1)
<1>8. half \in Nat /\ 2 ^ k = half + half
  BY <1>1, <1>7
<1> HIDE DEF half
<1>9. half + half = 2 * half
  BY <1>8
<1>10. 2 ^ k = 2 * half
  BY <1>8, <1>9, Zenon
<1> QED BY <1>10 DEF half

(* The threshold has been doubled at least once for every mark of the      *)
(* spell, covers the last one and twice the one before it.                 *)
MarkInv ==
    /\ OverloadMark
    /\ threshold >= MQ_OVERLOAD * 2 ^ Len(marks)
    /\ marks # <<>> => threshold >= marks[Len(marks)]
    /\ Len(marks) >= 2 => threshold >= 2 * marks[Len(marks) - 1]

(* A mark is for a length above the threshold, which at least doubles.     *)
LEMMA MarkDoubles ==
    ASSUME TypeOK, NEW n \in Nat, MarkOverload(n), n > threshold
    PROVE  /\ overload' = n /\ marks' = Append(marks, n)
           /\ threshold' \in Nat /\ threshold' >= n /\ threshold' >= 2 * threshold
<1> USE DEF TypeOK
<1>1. PICK k \in 1 .. n : threshold * 2 ^ k >= n /\ threshold' = threshold * 2 ^ k
  BY DEF MarkOverload
<1>2. k \in Nat \ {0} /\ k - 1 \in Nat
  OBVIOUS
<1> DEFINE half == 2 ^ (k - 1)
<1>3. half \in Nat /\ 2 ^ k = 2 * half
  BY <1>2, Doubling, Subsets
<1>4. half # 0
  <2>1. 0 >= n \/ half # 0
    BY <1>1, <1>3
  <2> QED BY <2>1
<1> HIDE DEF half
<1>5. threshold * half >= threshold /\ threshold * half \in Nat
  BY <1>3, <1>4
<1>6. threshold' = 2 * (threshold * half)
  BY <1>1, <1>3
<1> QED BY <1>1, <1>5, <1>6 DEF MarkOverload

LEMMA MarkOverloadKeeps ==
    ASSUME MarkInv, NEW n \in Nat, MarkOverload(n), TypeOK'
    PROVE  MarkInv'
<1> USE SizeAssumption DEF MarkInv, OverloadMark
<1>1. CASE n > threshold
  <2> DEFINE k == Len(marks)
             low == MQ_OVERLOAD * 2 ^ k
  <2>1. /\ overload' = n /\ marks' = Append(marks, n)
        /\ threshold' \in Nat /\ threshold' >= n /\ threshold' >= 2 * threshold
        /\ threshold \in Nat /\ marks \in Seq(Nat)
    BY <1>1, MarkDoubles DEF TypeOK
  <2>2. /\ k \in Nat /\ Len(marks') = k + 1 /\ marks'[k + 1] = n
        /\ \A i \in 1 .. k : marks'[i] = marks[i] /\ marks[i] \in Nat
    BY <2>1
  <2>3. low \in Nat /\ MQ_OVERLOAD * 2 ^ (k + 1) = 2 * low /\ threshold >= low
    <3>1. 2 ^ k \in Nat /\ k + 1 \in Nat \ {0} /\ k + 1 - 1 = k
      <4>1. 2 ^ k \in Nat
        BY <2>2, Subsets
      <4> QED BY <2>2, <4>1
    <3>2. 2 ^ (k + 1) = 2 * 2 ^ k
      BY <3>1, Doubling
    <3> DEFINE pow == 2 ^ k
    <3>3. pow \in Nat /\ 2 ^ (k + 1) = 2 * pow
      BY <3>1, <3>2
    <3> HIDE DEF pow
    <3>4. MQ_OVERLOAD * (2 * pow) = 2 * (MQ_OVERLOAD * pow) /\ MQ_OVERLOAD * pow \in Nat
      BY <3>3
    <3> QED BY <3>3, <3>4 DEF pow
  <2>4. low >= MQ_OVERLOAD
    <3>1. 2 ^ k >= 1
      <4>1. 1 .. k \in SUBSET (1 .. k) /\ IsFiniteSet(SUBSET (1 .. k))
            /\ Cardinality(SUBSET (1 .. k)) = 2 ^ k /\ 2 ^ k \in Nat
        BY <2>2, Subsets
      <4>2. Cardinality(SUBSET (1 .. k)) # 0
        BY <4>1, FS_EmptySet
      <4> QED BY <4>1, <4>2
    <3> DEFINE pow == 2 ^ k
    <3>2. pow \in Nat /\ pow >= 1
      BY <3>1, <2>2, Subsets
    <3> HIDE DEF pow
    <3>3. MQ_OVERLOAD * pow >= MQ_OVERLOAD
      BY <3>2
    <3> QED BY <3>3 DEF pow
  <2> HIDE DEF low
  <2>5. overload' # 0 => overload' > MQ_OVERLOAD /\ overload' = marks'[Len(marks')]
    BY <1>1, <2>1, <2>2, <2>3, <2>4
  <2>6. \A i \in 1 .. Len(marks') : marks'[i] > MQ_OVERLOAD * 2 ^ (i - 1)
    <3>1. n > low /\ k + 1 - 1 = k
      BY <1>1, <2>1, <2>2, <2>3
    <3> TAKE i \in 1 .. Len(marks')
    <3>2. CASE i = k + 1
      BY <2>2, <3>1, <3>2 DEF low
    <3>3. CASE i # k + 1
      <4>1. i \in 1 .. k
        BY <2>2, <3>3
      <4> QED BY <2>2, <4>1
    <3> QED BY <3>2, <3>3
  <2>7. \A i \in 1 .. Len(marks') - 1 : marks'[i] < marks'[i + 1]
    <3>1. k # 0 => marks[k] <= threshold
      BY <2>1, <2>2
    <3> TAKE i \in 1 .. Len(marks') - 1
    <3>2. CASE i = k
      BY <1>1, <2>1, <2>2, <3>1, <3>2
    <3>3. CASE i # k
      BY <2>2, <3>3
    <3> QED BY <3>2, <3>3
  <2>8. \A i \in 1 .. Len(marks') - 2 : 2 * marks'[i] < marks'[i + 2]
    <3>1. k >= 2 => 2 * marks[k - 1] <= threshold
      BY <2>1, <2>2
    <3> TAKE i \in 1 .. Len(marks') - 2
    <3>2. CASE i = k - 1
      BY <1>1, <2>1, <2>2, <3>1, <3>2
    <3>3. CASE i # k - 1
      <4>1. i \in 1 .. k - 2 /\ i \in 1 .. k /\ i + 2 \in 1 .. k
        BY <2>2, <3>3
      <4>2. 2 * marks[i] < marks[i + 2]
        BY <4>1
      <4> QED BY <2>2, <4>1, <4>2
    <3> QED BY <3>2, <3>3
  <2>9. threshold' >= MQ_OVERLOAD * 2 ^ Len(marks')
    BY <2>1, <2>2, <2>3
  <2>10. marks' # <<>> => threshold' >= marks'[Len(marks')]
    BY <2>1, <2>2
  <2>11. Len(marks') >= 2 => threshold' >= 2 * marks'[Len(marks') - 1]
    <3>1. k # 0 => marks[k] <= threshold
      BY <2>1, <2>2
    <3> QED BY <2>1, <2>2, <3>1
  <2> QED BY <2>5, <2>6, <2>7, <2>8, <2>9, <2>10, <2>11
<1>2. CASE ~(n > threshold)
  BY <1>2 DEF MarkOverload
<1> QED BY <1>1, <1>2

LEMMA MarkInit == Init => MarkInv
<1> SUFFICES ASSUME Init PROVE MarkInv
  OBVIOUS
<1>1. TypeOK
  BY RingInit, SizeAssumption DEF Init, RingOK, TypeOK
<1>2. 2 ^ 0 = 1 /\ marks = <<>>
  BY DEF Init
<1> QED BY <1>1, <1>2, SizeAssumption DEF Init, MarkInv, OverloadMark

LEMMA MarkStep == MarkInv /\ [Next]_vars => MarkInv'
<1> SUFFICES ASSUME MarkInv, [Next]_vars PROVE MarkInv'
  OBVIOUS
<1>1. RingOK /\ RingOK' /\ TypeOK
  BY RingStep DEF MarkInv, OverloadMark, TypeOK, RingOK
<1>2. ASSUME UNCHANGED <<overload, threshold, marks>>
      PROVE  MarkInv'
  BY <1>1, <1>2 DEF MarkInv, OverloadMark, TypeOK, RingOK
<1>3. ASSUME NEW m \in Msg, skynet_mq_push(m) PROVE MarkInv'
  BY <1>2, <1>3 DEF skynet_mq_push
<1>4. CASE skynet_mq_pop
  <2>1. CASE head # tail
    <3>1. MarkOverload(Length') /\ Length' \in Nat
      BY <1>1, <1>4, <2>1, ContentsPlaceNext DEF skynet_mq_pop, Length
    <3>2. TypeOK'
      <4>1. CASE Length' > threshold
        <5>1. overload' \in Nat /\ threshold' \in Nat /\ marks' \in Seq(Nat)
          <6>1. overload' = Length' /\ marks' = Append(marks, Length') /\ threshold' \in Nat
            BY <1>1, <3>1, <4>1, MarkDoubles
          <6> QED BY <1>1, <3>1, <6>1 DEF TypeOK
        <5> QED BY <1>1, <5>1 DEF TypeOK, RingOK
      <4>2. CASE ~(Length' > threshold)
        BY <1>1, <3>1, <4>2 DEF MarkOverload, TypeOK, RingOK
      <4> QED BY <4>1, <4>2
    <3> QED BY <3>1, <3>2, MarkOverloadKeeps
  <2>2. CASE head = tail
    <3>1. threshold' = MQ_OVERLOAD /\ marks' = <<>> /\ UNCHANGED overload
      BY <1>4, <2>2 DEF skynet_mq_pop
    <3>2. 2 ^ 0 = 1
      OBVIOUS
    <3> QED BY <1>1, <3>1, <3>2, SizeAssumption DEF MarkInv, OverloadMark, TypeOK, RingOK
  <2> QED BY <2>1, <2>2
<1>5. CASE skynet_mq_overload
  BY <1>1, <1>5 DEF skynet_mq_overload, MarkInv, OverloadMark, TypeOK, RingOK
<1>6. CASE UNCHANGED vars
  BY <1>2, <1>6 DEF vars
<1> QED BY <1>3, <1>4, <1>5, <1>6 DEF Next

(* For any sizes, however the queue grows and shrinks before it runs empty *)
(* (skynet_mq_pop): the i-th overload warning is for a length above the    *)
(* limit times 2 ^ (i - 1), the lengths grow, and every second one is more *)
(* than double.                                                            *)
THEOREM MarkIsRight == Spec => []OverloadMark
<1>1. MarkInv => OverloadMark
  BY DEF MarkInv
<1> QED BY <1>1, MarkInit, MarkStep, PTL DEF Spec
-----------------------------------------------------------------------------
(* The threads that sleep while the global queue is empty: m->sleep counts *)
(* them, and none of them sleeps on once m->quit is set.                   *)
SleepInv ==
    /\ SleepersCounted
    /\ global \in Seq(Queue)
    /\ \A w \in Worker : pc[w] = "run" => turn[w] \in Queue

LEMMA AsleepFinite ==
    /\ IsFiniteSet(Asleep) /\ Cardinality(Asleep) \in 0 .. count
    /\ IsFiniteSet(Worker) /\ count \in Nat
<1>1. IsFiniteSet(Worker) /\ Asleep \subseteq Worker
  BY ThreadAssumption DEF Asleep
<1>2. IsFiniteSet(Asleep) /\ Cardinality(Asleep) <= Cardinality(Worker)
  BY <1>1, FS_Subset
<1>3. Cardinality(Asleep) \in Nat /\ Cardinality(Worker) \in Nat
  BY <1>1, <1>2, FS_CardinalityType
<1> QED BY <1>1, <1>2, <1>3 DEF count

(* The sequence of queues after a push and after a pop.                    *)
LEMMA GlobalTyped ==
    ASSUME NEW s \in Seq(Queue)
    PROVE  /\ Range(s) \subseteq Queue
           /\ \A q \in Queue : Append(s, q) \in Seq(Queue)
           /\ s # <<>> => Head(s) \in Queue /\ Tail(s) \in Seq(Queue)
BY DEF Range

LEMMA SleepStarts == start => SleepInv
<1> SUFFICES ASSUME start PROVE SleepInv
  OBVIOUS
<1>1. Asleep = {}
  BY DEF start, Asleep
<1>2. sleep = Cardinality(Asleep)
  BY <1>1, FS_EmptySet DEF start
<1>3. global \in Seq(Queue) /\ Range(global) \subseteq Queue
  <2>1. global \in Seq(Queue)
    BY DEF start
  <2> QED BY <2>1, GlobalTyped
<1>4. sleep \in 0 .. count
  BY AsleepFinite DEF start
<1>5. ThreadsTypeOK
  BY <1>3, <1>4 DEF start, ThreadsTypeOK
<1> QED BY <1>2, <1>3, <1>5 DEF start, SleepInv, SleepersCounted

(* A step by which nobody falls asleep or awakes keeps the count.          *)
LEMMA SameSleepers ==
    ASSUME SleepInv, sleep' = sleep, pc' = pc
    PROVE  sleep' \in 0 .. count /\ sleep' = Cardinality(Asleep')
<1>1. Asleep' = Asleep
  BY DEF Asleep
<1> QED BY <1>1, AsleepFinite DEF SleepInv, SleepersCounted

(* The same when one worker goes on, asleep or not as before,              *)
LEMMA SleepsOn ==
    ASSUME SleepInv, NEW w \in Worker, NEW l, sleep' = sleep, pc' = [pc EXCEPT ![w] = l],
           w \in Asleep <=> l \in {"test", "wait", "waiting", "awake"}
    PROVE  sleep' \in 0 .. count /\ sleep' = Cardinality(Asleep')
<1>1. pc \in [Worker -> {"loop", "dispatch", "run", "lock", "test", "wait",
                         "waiting", "awake", "done"}]
  BY DEF SleepInv, SleepersCounted, ThreadsTypeOK
<1>2. Asleep' = Asleep
  BY <1>1 DEF Asleep
<1> QED BY <1>2, AsleepFinite DEF SleepInv, SleepersCounted

(* when one falls asleep,                                                  *)
LEMMA FallsAsleep ==
    ASSUME SleepInv, NEW w \in Worker, sleep' = sleep + 1,
           pc[w] = "lock", pc' = [pc EXCEPT ![w] = "test"]
    PROVE  sleep' \in 0 .. count /\ sleep' = Cardinality(Asleep')
<1>1. pc \in [Worker -> {"loop", "dispatch", "run", "lock", "test", "wait",
                         "waiting", "awake", "done"}]
  BY DEF SleepInv, SleepersCounted, ThreadsTypeOK
<1>2. Asleep' = Asleep \cup {w} /\ w \notin Asleep
  BY <1>1 DEF Asleep
<1>3. Cardinality(Asleep \cup {w}) = Cardinality(Asleep) + 1
  BY <1>2, AsleepFinite, FS_AddElement
<1>4. sleep' = Cardinality(Asleep')
  BY <1>2, <1>3 DEF SleepInv, SleepersCounted
<1>5. Asleep' \subseteq Worker
  BY DEF Asleep
<1>6. Cardinality(Asleep') <= count /\ Cardinality(Asleep') \in Nat
  BY <1>5, AsleepFinite, FS_Subset, FS_CardinalityType DEF count
<1> QED BY <1>4, <1>6, AsleepFinite

(* and when one awakes.                                                    *)
LEMMA FallsAwake ==
    ASSUME SleepInv, NEW w \in Worker, sleep' = sleep - 1,
           pc[w] = "awake", pc' = [pc EXCEPT ![w] = "loop"]
    PROVE  sleep' \in 0 .. count /\ sleep' = Cardinality(Asleep')
<1>1. pc \in [Worker -> {"loop", "dispatch", "run", "lock", "test", "wait",
                         "waiting", "awake", "done"}]
  BY DEF SleepInv, SleepersCounted, ThreadsTypeOK
<1>2. Asleep' = Asleep \ {w} /\ w \in Asleep
  BY <1>1 DEF Asleep
<1>3. Cardinality(Asleep \ {w}) = Cardinality(Asleep) - 1
  BY <1>2, AsleepFinite, FS_RemoveElement
<1>4. sleep' = Cardinality(Asleep')
  BY <1>2, <1>3 DEF SleepInv, SleepersCounted
<1>5. Asleep' \subseteq Worker
  BY DEF Asleep
<1>6. Cardinality(Asleep') <= count /\ Cardinality(Asleep') \in Nat
  BY <1>5, AsleepFinite, FS_Subset, FS_CardinalityType DEF count
<1> QED BY <1>4, <1>6, AsleepFinite

(* What a step of a thread that is no worker keeps.                        *)
LEMMA OutsideKeeps ==
    ASSUME SleepInv, UNCHANGED <<mutex, sleep, pc, turn>>,
           global' \in Seq(Queue), total' \in BOOLEAN, quit' \in BOOLEAN,
           waiters' \subseteq Worker,
           timer' \in {"update", "check", "signal", "socket_exit", "quit", "done"},
           socket' \in {"poll", "signal", "done"}, monitor' \in {"check", "done"},
           exitcmd' \in BOOLEAN,
           quit' => waiters' = {} /\ \A w \in Worker : pc[w] # "wait"
    PROVE  SleepInv'
<1>1. sleep' \in 0 .. count /\ sleep' = Cardinality(Asleep')
  BY SameSleepers
<1>2. Range(global') \subseteq Queue
  BY GlobalTyped
<1>3. ThreadsTypeOK'
  <2>1. ThreadsTypeOK
    BY DEF SleepInv, SleepersCounted
  <2> QED BY <1>1, <1>2, <2>1 DEF ThreadsTypeOK, count
<1> QED BY <1>1, <1>3 DEF SleepInv, SleepersCounted

LEMMA SleepStep == SleepInv /\ [ThreadsNext]_thread_vars => SleepInv'
<1> SUFFICES ASSUME SleepInv, [ThreadsNext]_thread_vars PROVE SleepInv'
  OBVIOUS
<1>0. /\ SleepersCounted /\ ThreadsTypeOK /\ global \in Seq(Queue)
      /\ \A w \in Worker : pc[w] = "run" => turn[w] \in Queue
      /\ \A w \in Worker : pc[w] \in {"test", "wait", "awake"} => mutex = w
      /\ quit => waiters = {} /\ \A w \in Worker : pc[w] # "wait"
  BY DEF SleepInv, SleepersCounted
<1>1. /\ Range(global) \subseteq Queue /\ total \in BOOLEAN
      /\ mutex \in Worker \cup {None} /\ waiters \subseteq Worker
      /\ sleep \in 0 .. count /\ quit \in BOOLEAN
      /\ pc \in [Worker -> {"loop", "dispatch", "run", "lock", "test", "wait",
                            "waiting", "awake", "done"}]
      /\ turn \in [Worker -> Queue \cup {None}]
      /\ timer \in {"update", "check", "signal", "socket_exit", "quit", "done"}
      /\ socket \in {"poll", "signal", "done"} /\ monitor \in {"check", "done"}
      /\ exitcmd \in BOOLEAN
  BY <1>0 DEF ThreadsTypeOK
<1>2. Push => global' \in Seq(Queue)
  BY <1>0, GlobalTyped DEF Push
<1>3. Signal => waiters' \subseteq waiters
  BY DEF Signal
\* A worker that goes on at l, whatever else it did.
<1>4. ASSUME NEW w \in Worker,
             NEW l \in {"loop", "dispatch", "run", "lock", "test", "wait", "waiting",
                        "awake", "done"},
             pc' = [pc EXCEPT ![w] = l],
             UNCHANGED <<quit, timer, socket, monitor, exitcmd>>,
             global' \in Seq(Queue), total' \in BOOLEAN, waiters' \subseteq Worker,
             mutex' \in Worker \cup {None}, turn' \in [Worker -> Queue \cup {None}],
             sleep' \in 0 .. count /\ sleep' = Cardinality(Asleep'),
             \A v \in Worker : pc'[v] = "run" => turn'[v] \in Queue,
             \A v \in Worker : pc'[v] \in {"test", "wait", "awake"} => mutex' = v,
             quit => waiters' = {} /\ l # "wait"
      PROVE  SleepInv'
  <2>1. Range(global') \subseteq Queue
    BY <1>4, GlobalTyped
  <2>2. pc' \in [Worker -> {"loop", "dispatch", "run", "lock", "test", "wait",
                            "waiting", "awake", "done"}]
    BY <1>1, <1>4
  <2>3. ThreadsTypeOK'
    BY <1>1, <1>4, <2>1, <2>2 DEF ThreadsTypeOK, count
  <2>4. quit' => waiters' = {} /\ \A v \in Worker : pc'[v] # "wait"
    BY <1>0, <1>1, <1>4
  <2> QED BY <1>4, <2>3, <2>4 DEF SleepInv, SleepersCounted
<1>5. ASSUME NEW w \in Worker, Loop(w) PROVE SleepInv'
  <2>1. PICK l \in {"done", "dispatch"} : pc' = [pc EXCEPT ![w] = l]
    BY <1>5 DEF Loop
  <2>2. sleep' \in 0 .. count /\ sleep' = Cardinality(Asleep')
    <3>1. sleep' = sleep /\ (w \in Asleep <=> l \in {"test", "wait", "waiting", "awake"})
      BY <1>5 DEF Loop, Asleep
    <3> QED BY <2>1, <3>1, SleepsOn
  <2> QED BY <1>0, <1>1, <1>4, <1>5, <2>1, <2>2 DEF Loop
<1>6. ASSUME NEW w \in Worker, Dispatch(w) PROVE SleepInv'
  <2>1. CASE global # <<>> /\ global' = Tail(global) /\ turn' = [turn EXCEPT ![w] = Head(global)]
             /\ pc' = [pc EXCEPT ![w] = "run"]
    <3>1. sleep' \in 0 .. count /\ sleep' = Cardinality(Asleep')
      <4>1. sleep' = sleep /\ (w \in Asleep <=> "run" \in {"test", "wait", "waiting", "awake"})
        BY <1>6 DEF Dispatch, Asleep
      <4> QED BY <2>1, <4>1, SleepsOn
    <3>2. Head(global) \in Queue /\ Tail(global) \in Seq(Queue)
      BY <1>0, <2>1, GlobalTyped
    <3> QED BY <1>0, <1>1, <1>4, <1>6, <2>1, <3>1, <3>2 DEF Dispatch
  <2>2. CASE pc' = [pc EXCEPT ![w] = "lock"] /\ UNCHANGED <<global, turn>>
    <3>1. sleep' \in 0 .. count /\ sleep' = Cardinality(Asleep')
      <4>1. sleep' = sleep /\ (w \in Asleep <=> "lock" \in {"test", "wait", "waiting", "awake"})
        BY <1>6 DEF Dispatch, Asleep
      <4> QED BY <2>2, <4>1, SleepsOn
    <3> QED BY <1>0, <1>1, <1>4, <1>6, <2>2, <3>1 DEF Dispatch
  <2> QED BY <1>6, <2>1, <2>2 DEF Dispatch
<1>7. ASSUME NEW w \in Worker, CallbackSend(w) PROVE SleepInv'
  BY <1>0, <1>1, <1>2, <1>7, OutsideKeeps DEF CallbackSend
<1>8. ASSUME NEW w \in Worker, EndTurn(w) PROVE SleepInv'
  <2>1. sleep' \in 0 .. count /\ sleep' = Cardinality(Asleep')
    <3>1. sleep' = sleep /\ pc' = [pc EXCEPT ![w] = "loop"]
          /\ (w \in Asleep <=> "loop" \in {"test", "wait", "waiting", "awake"})
      BY <1>8 DEF EndTurn, Asleep
    <3> QED BY <3>1, SleepsOn
  <2>2. global' \in Seq(Queue) /\ total' \in BOOLEAN
    <3>1. turn[w] \in Queue
      BY <1>0, <1>8 DEF EndTurn
    <3> QED BY <1>0, <1>1, <1>8, <3>1, GlobalTyped DEF EndTurn
  <2> QED BY <1>0, <1>1, <1>4, <1>8, <2>1, <2>2 DEF EndTurn
<1>9. ASSUME NEW w \in Worker, SleepLock(w) PROVE SleepInv'
  <2>1. sleep' \in 0 .. count /\ sleep' = Cardinality(Asleep')
    BY <1>9, FallsAsleep DEF SleepLock
  <2>2. \A v \in Worker : pc[v] \notin {"test", "wait", "awake"}
    BY <1>0, <1>9, ThreadAssumption DEF SleepLock
  <2> QED BY <1>0, <1>1, <1>4, <1>9, <2>1, <2>2 DEF SleepLock
<1>10. ASSUME NEW w \in Worker, SleepTest(w) PROVE SleepInv'
  <2>1. PICK l \in {"awake", "wait"} : pc' = [pc EXCEPT ![w] = l] /\ (quit => l # "wait")
    BY <1>10 DEF SleepTest
  <2>2. sleep' \in 0 .. count /\ sleep' = Cardinality(Asleep')
    <3>1. sleep' = sleep /\ (w \in Asleep <=> l \in {"test", "wait", "waiting", "awake"})
      BY <1>10 DEF SleepTest, Asleep
    <3> QED BY <2>1, <3>1, SleepsOn
  <2> QED BY <1>0, <1>1, <1>4, <1>10, <2>1, <2>2 DEF SleepTest
<1>11. ASSUME NEW w \in Worker, CondWait(w) PROVE SleepInv'
  <2>1. sleep' \in 0 .. count /\ sleep' = Cardinality(Asleep')
    <3>1. sleep' = sleep /\ pc' = [pc EXCEPT ![w] = "waiting"]
          /\ (w \in Asleep <=> "waiting" \in {"test", "wait", "waiting", "awake"})
      BY <1>11 DEF CondWait, Asleep
    <3> QED BY <3>1, SleepsOn
  <2>2. \A v \in Worker : v # w => pc[v] \notin {"test", "wait", "awake"}
    BY <1>0, <1>11 DEF CondWait
  <2> QED BY <1>0, <1>1, <1>4, <1>11, <2>1, <2>2 DEF CondWait
<1>12. ASSUME NEW w \in Worker, SpuriousWakeup(w) PROVE SleepInv'
  BY <1>0, <1>1, <1>12, OutsideKeeps DEF SpuriousWakeup
<1>13. ASSUME NEW w \in Worker, CondReturn(w) PROVE SleepInv'
  <2>1. sleep' \in 0 .. count /\ sleep' = Cardinality(Asleep')
    <3>1. sleep' = sleep /\ pc' = [pc EXCEPT ![w] = "awake"]
          /\ (w \in Asleep <=> "awake" \in {"test", "wait", "waiting", "awake"})
      BY <1>13 DEF CondReturn, Asleep
    <3> QED BY <3>1, SleepsOn
  <2>2. \A v \in Worker : pc[v] \notin {"test", "wait", "awake"}
    BY <1>0, <1>13, ThreadAssumption DEF CondReturn
  <2> QED BY <1>0, <1>1, <1>4, <1>13, <2>1, <2>2 DEF CondReturn
<1>14. ASSUME NEW w \in Worker, Awake(w) PROVE SleepInv'
  <2>1. sleep' \in 0 .. count /\ sleep' = Cardinality(Asleep')
    BY <1>14, FallsAwake DEF Awake
  <2>2. \A v \in Worker : v # w => pc[v] \notin {"test", "wait", "awake"}
    BY <1>0, <1>14 DEF Awake
  <2> QED BY <1>0, <1>1, <1>4, <1>14, <2>1, <2>2 DEF Awake
<1>15. CASE TimerStep
  <2>1. CASE TimerUpdate
    BY <1>0, <1>1, <1>2, <2>1, OutsideKeeps DEF TimerUpdate
  <2>2. CASE TimerCheck
    BY <1>0, <1>1, <2>2, OutsideKeeps DEF TimerCheck
  <2>3. CASE TimerSignal
    BY <1>0, <1>1, <1>3, <2>3, OutsideKeeps DEF TimerSignal
  <2>4. CASE TimerSocketExit
    BY <1>0, <1>1, <2>4, OutsideKeeps DEF TimerSocketExit
  <2> QED BY <1>15, <2>1, <2>2, <2>3, <2>4 DEF TimerStep
<1>16. CASE TimerQuit
  <2>1. \A v \in Worker : pc[v] \notin {"test", "wait", "awake"}
    BY <1>0, <1>16, ThreadAssumption DEF TimerQuit
  <2> QED BY <1>0, <1>1, <1>16, <2>1, OutsideKeeps DEF TimerQuit
<1>17. CASE SocketEvent \/ SocketMore \/ SocketSignal \/ SocketExit
  BY <1>0, <1>1, <1>2, <1>3, <1>17, OutsideKeeps
     DEF SocketEvent, SocketMore, SocketSignal, SocketExit
<1>18. CASE MonitorAbort
  BY <1>0, <1>1, <1>18, OutsideKeeps DEF MonitorAbort
<1>19. CASE UNCHANGED thread_vars
  BY <1>0, <1>1, <1>19, OutsideKeeps DEF thread_vars
<1> QED BY <1>5, <1>6, <1>7, <1>8, <1>9, <1>10, <1>11, <1>12, <1>13, <1>14, <1>15,
           <1>16, <1>17, <1>18, <1>19 DEF ThreadsNext, WorkerStep, Joined

(* However many workers there are, m->sleep counts those that sleep, and   *)
(* no worker sleeps past the broadcast that ends the process.              *)
THEOREM NobodySleepsOn == FairSpec => []SleepersCounted
<1>1. SleepInv => SleepersCounted
  BY DEF SleepInv
<1> QED BY SleepStarts, SleepStep, <1>1, PTL DEF FairSpec
=============================================================================
