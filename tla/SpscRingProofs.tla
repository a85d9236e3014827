---------------------------- MODULE SpscRingProofs ----------------------------
(***************************************************************************)
(* The ring of SchedulerNode.h for every capacity, every modulus of its    *)
(* indices that is a multiple of it, and loads as late as acquire allows.  *)
(***************************************************************************)
EXTENDS SpscRing, TLAPS

-----------------------------------------------------------------------------
\* Arithmetic of wrapping indices, made linear.

LEMMA Sizes == Capacity \in Nat \ {0} /\ IndexMod \in Nat /\ 2 * Capacity <= IndexMod
<1>1. PICK m \in 2..IndexMod : IndexMod = m * Capacity
  BY RingAssumption
<1>2. m * Capacity >= 2 * Capacity
  BY <1>1, RingAssumption
<1>3. QED
  BY <1>1, <1>2, RingAssumption

\* A multiple of m with what is left over it.
LEMMA Remainder ==
    ASSUME NEW x \in Int, NEW m \in Nat \ {0}
    PROVE  /\ x = m * (x \div m) + (x % m)
           /\ x \div m \in Int /\ x % m \in 0..(m - 1)
OBVIOUS

\* Nothing between 0 and m is a multiple of m but 0.
LEMMA NoMultiple ==
    ASSUME NEW m \in Nat \ {0}, NEW d \in Int, m * d < m, 0 - m < m * d
    PROVE  m * d = 0
<1>1. CASE d <= -1
  <2>1. m * d <= 0 - m
    BY <1>1
  <2>2. QED
    BY <2>1
<1>2. CASE d >= 1
  <2>1. m * d >= m
    BY <1>2
  <2>2. QED
    BY <2>1
<1>3. CASE d = 0
  BY <1>3
<1>4. QED
  BY <1>1, <1>2, <1>3

\* A remainder is known from a range one m wide.
LEMMA RemainderIs ==
    ASSUME NEW m \in Nat \ {0}, NEW x \in Int, NEW q \in Int, NEW r \in 0..(m - 1), x = m * q + r
    PROVE  x % m = r
<1> DEFINE p == x \div m  s == x % m  d == p - q
           mp == m * p  mq == m * q  md == m * d
<1>1. /\ p \in Int /\ s \in 0..(m - 1) /\ x = mp + s
      /\ d \in Int /\ md = mp - mq /\ mp \in Int /\ mq \in Int
  BY Remainder
<1>2. md \in Int /\ x = mq + r
  BY <1>1
<1>3. md < m /\ 0 - m < md => md = 0
  BY <1>1, NoMultiple
<1> HIDE DEF p, s, d, mp, mq, md
<1>4. s = r
  BY <1>1, <1>2, <1>3
<1>5. QED
  BY <1>4 DEF s

LEMMA Wrapped ==
    ASSUME NEW x \in Int, 0 - IndexMod <= x, x < 2 * IndexMod
    PROVE  x % IndexMod = IF x < 0 THEN x + IndexMod
                          ELSE IF x < IndexMod THEN x ELSE x - IndexMod
<1>1. CASE x < 0
  <2>1. x = IndexMod * (-1) + (x + IndexMod)
    BY Sizes
  <2>2. QED
    BY <1>1, <2>1, Sizes, RemainderIs
<1>2. CASE 0 <= x /\ x < IndexMod
  <2>1. x = IndexMod * 0 + x
    BY Sizes
  <2>2. QED
    BY <1>2, <2>1, Sizes, RemainderIs
<1>3. CASE IndexMod <= x
  <2>1. x = IndexMod * 1 + (x - IndexMod)
    BY Sizes
  <2>2. QED
    BY <1>3, <2>1, Sizes, RemainderIs
<1>4. QED
  BY <1>1, <1>2, <1>3, Sizes

LEMMA MinusIs ==
    ASSUME NEW i \in Indices, NEW j \in Indices
    PROVE  /\ Minus(i, j) = IF i < j THEN i - j + IndexMod ELSE i - j
           /\ Minus(i, j) \in Indices
<1>1. i - j \in Int /\ 0 - IndexMod <= i - j /\ i - j < IndexMod /\ IndexMod \in Nat
  BY Sizes DEF Indices
<1>2. (i - j) % IndexMod = IF i - j < 0 THEN i - j + IndexMod
                           ELSE IF i - j < IndexMod THEN i - j ELSE i - j - IndexMod
  BY <1>1, Wrapped
<1>3. QED
  BY <1>1, <1>2 DEF Indices, Minus

LEMMA PlusIs ==
    ASSUME NEW i \in Indices, NEW k \in 0..IndexMod
    PROVE  /\ Plus(i, k) = IF i + k < IndexMod THEN i + k ELSE i + k - IndexMod
           /\ Plus(i, k) \in Indices
<1> DEFINE x == i + k
<1>1. x \in Int /\ 0 <= x /\ 0 - IndexMod <= x /\ x < 2 * IndexMod /\ IndexMod \in Nat
  BY Sizes DEF Indices
<1>2. x % IndexMod = IF x < IndexMod THEN x ELSE x - IndexMod
  <2> HIDE DEF x
  <2> QED BY <1>1, Wrapped
<1>3. QED
  BY <1>1, <1>2 DEF Indices, Plus

\* Indices that are apart, but by less than the ring, are at different slots.
LEMMA SlotsDiffer ==
    ASSUME NEW i \in Indices, NEW j \in Indices, i # j, Minus(i, j) < Capacity
    PROVE  Slot(i) # Slot(j)
<1> DEFINE p == i \div Capacity  q == j \div Capacity
           cp == Capacity * p  cq == Capacity * q
<1>1. SUFFICES ASSUME i % Capacity = j % Capacity PROVE FALSE
  BY DEF Slot
<1>2. PICK m \in 2..IndexMod : IndexMod = Capacity * m
  BY RingAssumption
<1>3. i \in Int /\ j \in Int /\ Capacity \in Nat \ {0}
  BY Sizes DEF Indices
<1>4. /\ p \in Int /\ i = cp + (i % Capacity) /\ i % Capacity \in Int
      /\ q \in Int /\ j = cq + (j % Capacity) /\ cp \in Int /\ cq \in Int
  BY <1>3
<1>5. i - j = cp - cq
  <2> HIDE DEF cp, cq, p, q
  <2> QED BY <1>1, <1>4
<1>6. /\ p - q \in Int /\ Capacity * (p - q) = cp - cq
      /\ p - q + m \in Int /\ Capacity * (p - q + m) = cp - cq + IndexMod
  BY <1>2, <1>3, <1>4
<1>7. PICK d \in Int : Capacity * d = Minus(i, j)
  <2> HIDE DEF cp, cq, p, q
  <2>1. Minus(i, j) = i - j \/ Minus(i, j) = i - j + IndexMod
    BY MinusIs
  <2> QED BY <1>5, <1>6, <2>1
<1>8. Capacity * d < Capacity /\ 0 - Capacity < Capacity * d
  <2>1. Minus(i, j) \in 0..(IndexMod - 1)
    BY MinusIs DEF Indices
  <2>2. QED
    BY <1>3, <1>7, <2>1
<1>9. Minus(i, j) = 0
  BY <1>3, <1>7, <1>8, NoMultiple
<1>10. 0 = IF i < j THEN i - j + IndexMod ELSE i - j
  BY <1>9, MinusIs
<1>11. QED
  BY <1>10, Sizes DEF Indices

-----------------------------------------------------------------------------
\* The four indices lie in order round the circle: pushR, readIdx, popW,
\* writeIdx, no further than Capacity from the first to the last; a push past
\* its check has room, and a pop past its test has something to read.
Order ==
    /\ Minus(readIdx, pushR) + Minus(writeIdx, readIdx) = Minus(writeIdx, pushR)
    /\ Minus(popW, readIdx) + Minus(writeIdx, popW) = Minus(writeIdx, readIdx)
    /\ Minus(writeIdx, pushR) <= Capacity
    /\ pushPc # "idle" => Minus(writeIdx, pushR) < Capacity
    /\ popPc \in {"read", "publish"} => popW # readIdx

IInv == TypeOK /\ Order

\* A late load moves the index seen towards the index that is.
LEMMA LoadsAre ==
    ASSUME NEW seen \in Indices, NEW now \in Indices, NEW i \in Loads(seen, now)
    PROVE  /\ i \in Indices
           /\ Minus(i, seen) + Minus(now, i) = Minus(now, seen)
<1>1. PICK k \in 0..Minus(now, seen) : i = Plus(seen, k)
  BY DEF Loads
<1>2. /\ Minus(now, seen) = IF now < seen THEN now - seen + IndexMod ELSE now - seen
      /\ Minus(now, seen) \in Indices
  BY MinusIs
<1>3. k \in 0..IndexMod
  BY <1>2, Sizes DEF Indices
<1>4. i \in Indices /\ i = IF seen + k < IndexMod THEN seen + k ELSE seen + k - IndexMod
  BY <1>1, <1>3, PlusIs
<1>5. /\ Minus(i, seen) = IF i < seen THEN i - seen + IndexMod ELSE i - seen
      /\ Minus(now, i) = IF now < i THEN now - i + IndexMod ELSE now - i
  BY <1>4, MinusIs
<1>6. QED
  BY <1>2, <1>3, <1>4, <1>5, Sizes DEF Indices

LEMMA SlotIs ==
    ASSUME NEW i \in Indices
    PROVE  Slot(i) \in 0..(Capacity - 1)
BY Sizes, Remainder DEF Indices, Slot

LEMMA InitIInv == Init => IInv
<1> SUFFICES ASSUME Init PROVE IInv
  OBVIOUS
<1>1. 0 \in Indices
  BY Sizes DEF Indices
<1>2. Minus(0, 0) = 0
  BY <1>1, MinusIs, Sizes
<1>3. QED
  BY <1>1, <1>2, Sizes DEF Init, IInv, TypeOK, Order


-----------------------------------------------------------------------------
\* What the steps of either thread do to the distances.

LEMMA NextIndex ==
    ASSUME NEW i \in Indices, NEW j \in Indices, Minus(i, j) < Capacity
    PROVE  /\ Plus(i, 1) \in Indices
           /\ Minus(Plus(i, 1), j) = Minus(i, j) + 1
<1>1. 1 \in 0..IndexMod
  BY Sizes
<1>2. /\ Plus(i, 1) \in Indices
      /\ Plus(i, 1) = IF i + 1 < IndexMod THEN i + 1 ELSE i + 1 - IndexMod
  BY <1>1, PlusIs
<1>3. /\ Minus(i, j) = IF i < j THEN i - j + IndexMod ELSE i - j
      /\ Minus(Plus(i, 1), j) = IF Plus(i, 1) < j THEN Plus(i, 1) - j + IndexMod ELSE Plus(i, 1) - j
  BY <1>2, MinusIs
<1>4. QED
  BY <1>2, <1>3, Sizes DEF Indices

LEMMA Closer ==
    ASSUME NEW i \in Indices, NEW j \in Indices, i # j
    PROVE  /\ Plus(j, 1) \in Indices
           /\ Minus(i, Plus(j, 1)) = Minus(i, j) - 1
<1>1. 1 \in 0..IndexMod
  BY Sizes
<1>2. /\ Plus(j, 1) \in Indices
      /\ Plus(j, 1) = IF j + 1 < IndexMod THEN j + 1 ELSE j + 1 - IndexMod
  BY <1>1, PlusIs
<1>3. /\ Minus(i, j) = IF i < j THEN i - j + IndexMod ELSE i - j
      /\ Minus(i, Plus(j, 1)) = IF i < Plus(j, 1) THEN i - Plus(j, 1) + IndexMod ELSE i - Plus(j, 1)
  BY <1>2, MinusIs
<1>4. QED
  BY <1>2, <1>3, Sizes DEF Indices

\* An index between two others splits their distance.
LEMMA Between ==
    ASSUME NEW i \in Indices, NEW j \in Indices, NEW k \in Indices,
           NEW l \in Indices, Minus(k, i) + Minus(l, k) = Minus(l, i),
           Minus(j, i) + Minus(k, j) = Minus(k, i)
    PROVE  Minus(k, j) + Minus(l, k) = Minus(l, j) /\ Minus(l, j) <= Minus(l, i)
<1>1. \A x, y \in Indices : /\ Minus(x, y) = IF x < y THEN x - y + IndexMod ELSE x - y
                            /\ Minus(x, y) \in 0..(IndexMod - 1)
  BY MinusIs DEF Indices
<1>2. /\ Minus(k, i) = IF k < i THEN k - i + IndexMod ELSE k - i
      /\ Minus(l, k) = IF l < k THEN l - k + IndexMod ELSE l - k
      /\ Minus(l, i) = IF l < i THEN l - i + IndexMod ELSE l - i
      /\ Minus(j, i) = IF j < i THEN j - i + IndexMod ELSE j - i
      /\ Minus(k, j) = IF k < j THEN k - j + IndexMod ELSE k - j
      /\ Minus(l, j) = IF l < j THEN l - j + IndexMod ELSE l - j
  BY <1>1
<1>3. QED
  BY <1>2, Sizes DEF Indices

LEMMA Beyond ==
    ASSUME NEW i \in Indices, NEW j \in Indices, NEW k \in Indices,
           NEW l \in Indices, Minus(j, i) + Minus(l, j) = Minus(l, i),
           Minus(k, j) + Minus(l, k) = Minus(l, j)
    PROVE  Minus(k, i) + Minus(l, k) = Minus(l, i)
<1>1. /\ Minus(j, i) = IF j < i THEN j - i + IndexMod ELSE j - i
      /\ Minus(l, j) = IF l < j THEN l - j + IndexMod ELSE l - j
      /\ Minus(l, i) = IF l < i THEN l - i + IndexMod ELSE l - i
      /\ Minus(k, j) = IF k < j THEN k - j + IndexMod ELSE k - j
      /\ Minus(l, k) = IF l < k THEN l - k + IndexMod ELSE l - k
      /\ Minus(k, i) = IF k < i THEN k - i + IndexMod ELSE k - i
  BY MinusIs
<1>2. QED
  BY <1>1, Sizes DEF Indices

LEMMA Distance ==
    \A i, j \in Indices : Minus(i, j) \in Nat /\ (Minus(i, j) = 0 <=> i = j)
<1>1. SUFFICES ASSUME NEW i \in Indices, NEW j \in Indices
                PROVE  Minus(i, j) \in Nat /\ (Minus(i, j) = 0 <=> i = j)
  OBVIOUS
<1>2. Minus(i, j) = IF i < j THEN i - j + IndexMod ELSE i - j
  BY MinusIs
<1>3. QED
  BY <1>2, Sizes DEF Indices

LEMMA PushLoadIInv ==
    ASSUME IInv, NEW v \in Values, PushLoad(v)
    PROVE  IInv'
<1>1. /\ writeIdx \in Indices /\ readIdx \in Indices /\ pushR \in Indices
      /\ pushR' \in Loads(pushR, readIdx)
  BY DEF IInv, TypeOK, PushLoad
<1>2. /\ pushR' \in Indices
      /\ Minus(readIdx, pushR') + Minus(writeIdx, readIdx) = Minus(writeIdx, pushR')
      /\ Minus(writeIdx, pushR') <= Minus(writeIdx, pushR)
  BY <1>1, LoadsAre, Between DEF IInv, Order
<1>3. Minus(writeIdx, pushR') \in Int /\ Minus(writeIdx, pushR) \in Int /\ Capacity \in Int
  BY <1>1, <1>2, MinusIs, Sizes DEF Indices
<1>4. /\ pushPc' \in {"idle", "write"} /\ pushValue' \in Values \cup {Empty}
      /\ pushPc' # "idle" => Minus(writeIdx, pushR') < Capacity
      /\ UNCHANGED <<ring, consumer>>
  BY <1>3 DEF IInv, TypeOK, PushLoad
<1>5. TypeOK'
  BY <1>2, <1>4 DEF IInv, TypeOK, ring, consumer
<1>6. Order'
  <2>1. Minus(writeIdx, pushR') <= Capacity
    BY <1>2, <1>3 DEF IInv, Order
  <2>2. QED
    BY <1>2, <1>4, <2>1 DEF IInv, Order, ring, consumer
<1>7. QED
  BY <1>5, <1>6 DEF IInv

LEMMA PushWriteIInv == IInv /\ PushWrite => IInv'
<1> SUFFICES ASSUME IInv, PushWrite PROVE IInv'
  OBVIOUS
<1>1. TypeOK'
  BY DEF IInv, TypeOK, PushWrite, consumer
<1>2. Order'
  BY DEF IInv, Order, PushWrite, consumer
<1>3. QED
  BY <1>1, <1>2 DEF IInv

LEMMA PushPublishIInv == IInv /\ PushPublish => IInv'
<1> SUFFICES ASSUME IInv, PushPublish PROVE IInv'
  OBVIOUS
<1>1. /\ writeIdx \in Indices /\ readIdx \in Indices /\ pushR \in Indices /\ popW \in Indices
      /\ writeIdx' = Plus(writeIdx, 1) /\ pushPc' = "idle"
      /\ UNCHANGED <<slots, readIdx, pushValue, pushR, consumer>>
  BY DEF IInv, TypeOK, PushPublish
<1>2. /\ Minus(readIdx, pushR) + Minus(writeIdx, readIdx) = Minus(writeIdx, pushR)
      /\ Minus(popW, readIdx) + Minus(writeIdx, popW) = Minus(writeIdx, readIdx)
      /\ Minus(writeIdx, pushR) < Capacity
  BY DEF IInv, Order, PushPublish
<1>3. /\ Minus(writeIdx, pushR) \in Nat /\ Minus(writeIdx, readIdx) \in Nat
      /\ Minus(writeIdx, popW) \in Nat /\ Minus(popW, readIdx) \in Nat
      /\ Minus(readIdx, pushR) \in Nat /\ Capacity \in Nat
  BY <1>1, Distance, Sizes
<1>4. Minus(writeIdx, readIdx) < Capacity /\ Minus(writeIdx, popW) < Capacity
  BY <1>2, <1>3
<1>5. /\ writeIdx' \in Indices
      /\ Minus(writeIdx', pushR) = Minus(writeIdx, pushR) + 1
      /\ Minus(writeIdx', readIdx) = Minus(writeIdx, readIdx) + 1
      /\ Minus(writeIdx', popW) = Minus(writeIdx, popW) + 1
  BY <1>1, <1>2, <1>4, NextIndex
<1>6. TypeOK'
  BY <1>1, <1>5 DEF IInv, TypeOK, consumer
<1>7. Order'
  <2>1. /\ Minus(readIdx, pushR) + Minus(writeIdx', readIdx) = Minus(writeIdx', pushR)
        /\ Minus(popW, readIdx) + Minus(writeIdx', popW) = Minus(writeIdx', readIdx)
        /\ Minus(writeIdx', pushR) <= Capacity
    BY <1>2, <1>3, <1>5
  <2>2. QED
    BY <1>1, <2>1 DEF IInv, Order, consumer
<1>8. QED
  BY <1>6, <1>7 DEF IInv

LEMMA PopLoadIInv == IInv /\ PopLoad => IInv'
<1> SUFFICES ASSUME IInv, PopLoad PROVE IInv'
  OBVIOUS
<1>1. /\ writeIdx \in Indices /\ readIdx \in Indices /\ popW \in Indices
      /\ popW' \in Loads(popW, writeIdx)
  BY DEF IInv, TypeOK, PopLoad
<1>2. popW' \in Indices /\ Minus(popW', popW) + Minus(writeIdx, popW') = Minus(writeIdx, popW)
  BY <1>1, LoadsAre
<1>3. Minus(popW, readIdx) + Minus(writeIdx, popW) = Minus(writeIdx, readIdx)
  BY DEF IInv, Order
<1>4. Minus(popW', readIdx) + Minus(writeIdx, popW') = Minus(writeIdx, readIdx)
  BY <1>1, <1>2, <1>3, Beyond
<1>5. TypeOK'
  BY <1>2 DEF IInv, TypeOK, PopLoad, ring, producer
<1>6. Order'
  BY <1>4 DEF IInv, Order, PopLoad, ring, producer
<1>7. QED
  BY <1>5, <1>6 DEF IInv

LEMMA PopReadIInv == IInv /\ PopRead => IInv'
<1> SUFFICES ASSUME IInv, PopRead PROVE IInv'
  OBVIOUS
<1>1. Slot(readIdx) \in 0..(Capacity - 1)
  BY SlotIs DEF IInv, TypeOK
<1>2. TypeOK'
  BY <1>1 DEF IInv, TypeOK, PopRead, producer
<1>3. Order'
  BY DEF IInv, Order, PopRead, producer
<1>4. QED
  BY <1>2, <1>3 DEF IInv

LEMMA PopPublishIInv == IInv /\ PopPublish => IInv'
<1> SUFFICES ASSUME IInv, PopPublish PROVE IInv'
  OBVIOUS
<1>1. /\ writeIdx \in Indices /\ readIdx \in Indices /\ pushR \in Indices /\ popW \in Indices
      /\ popW # readIdx /\ readIdx' = Plus(readIdx, 1) /\ popPc' = "done"
      /\ UNCHANGED <<slots, writeIdx, producer, popW, out>>
  BY DEF IInv, TypeOK, Order, PopPublish
<1>2. /\ Minus(readIdx, pushR) + Minus(writeIdx, readIdx) = Minus(writeIdx, pushR)
      /\ Minus(popW, readIdx) + Minus(writeIdx, popW) = Minus(writeIdx, readIdx)
      /\ Minus(writeIdx, pushR) <= Capacity
  BY DEF IInv, Order
<1>3. /\ Minus(writeIdx, pushR) \in Nat /\ Minus(writeIdx, readIdx) \in Nat
      /\ Minus(writeIdx, popW) \in Nat /\ Minus(popW, readIdx) \in Nat
      /\ Minus(readIdx, pushR) \in Nat /\ Capacity \in Nat
  BY <1>1, Distance, Sizes
<1>4. readIdx' \in Indices /\ Minus(popW, readIdx') = Minus(popW, readIdx) - 1
  BY <1>1, Closer
<1>5. Minus(popW, readIdx) > 0
  BY <1>1, <1>3, Distance
<1>6. Minus(writeIdx, readIdx) > 0 /\ Minus(readIdx, pushR) < Capacity
  BY <1>2, <1>3, <1>5
<1>7. writeIdx # readIdx
  BY <1>1, <1>6, Distance
<1>8. /\ Minus(writeIdx, readIdx') = Minus(writeIdx, readIdx) - 1
      /\ Minus(readIdx', pushR) = Minus(readIdx, pushR) + 1
  BY <1>1, <1>6, <1>7, Closer, NextIndex
<1>9. TypeOK'
  BY <1>1, <1>4 DEF IInv, TypeOK, producer
<1>10. Order'
  <2>1. /\ Minus(readIdx', pushR) + Minus(writeIdx, readIdx') = Minus(writeIdx, pushR)
        /\ Minus(popW, readIdx') + Minus(writeIdx, popW) = Minus(writeIdx, readIdx')
    BY <1>2, <1>3, <1>4, <1>8
  <2>2. QED
    BY <1>1, <2>1 DEF IInv, Order, producer
<1>11. QED
  BY <1>9, <1>10 DEF IInv

LEMMA NextIInv == IInv /\ [Next]_vars => IInv'
<1> SUFFICES ASSUME IInv, [Next]_vars PROVE IInv'
  OBVIOUS
<1>1. CASE Consume
  <2>1. TypeOK'
    BY <1>1 DEF IInv, TypeOK, Consume, ring, producer
  <2>2. Order'
    BY <1>1 DEF IInv, Order, Consume, ring, producer
  <2>3. QED
    BY <2>1, <2>2 DEF IInv
<1>2. CASE UNCHANGED vars
  BY <1>2 DEF IInv, TypeOK, Order, vars, ring, producer, consumer
<1>3. QED
  BY <1>1, <1>2, PushLoadIInv, PushWriteIInv, PushPublishIInv, PopLoadIInv, PopReadIInv,
     PopPublishIInv DEF Next, Push, Pop

THEOREM Invariance == Spec => []IInv
<1>1. QED
  BY InitIInv, NextIInv, PTL DEF Spec

\* SpscRing: every variable of a ring of any size keeps its type.
THEOREM RingTypeCorrect == Spec => []TypeOK
<1>1. QED
  BY Invariance, PTL DEF IInv

\* A push past its check and a pop past its test are at different slots.
LEMMA Apart ==
    ASSUME IInv, pushPc # "idle", popPc \in {"read", "publish"}
    PROVE  Slot(writeIdx) # Slot(readIdx)
<1>1. /\ writeIdx \in Indices /\ readIdx \in Indices /\ pushR \in Indices /\ popW \in Indices
      /\ popW # readIdx /\ Minus(writeIdx, pushR) < Capacity
      /\ Minus(readIdx, pushR) + Minus(writeIdx, readIdx) = Minus(writeIdx, pushR)
      /\ Minus(popW, readIdx) + Minus(writeIdx, popW) = Minus(writeIdx, readIdx)
  BY DEF IInv, TypeOK, Order
<1>2. /\ Minus(readIdx, pushR) \in Nat /\ Minus(writeIdx, readIdx) \in Nat
      /\ Minus(writeIdx, pushR) \in Nat /\ Minus(writeIdx, popW) \in Nat
      /\ Minus(popW, readIdx) \in Nat \ {0} /\ Capacity \in Nat
  BY <1>1, Distance, Sizes
<1>3. Minus(writeIdx, readIdx) < Capacity /\ Minus(writeIdx, readIdx) # 0
  BY <1>1, <1>2
<1>4. writeIdx # readIdx
  BY <1>1, <1>3, Distance
<1>5. QED
  BY <1>1, <1>3, <1>4, SlotsDiffer

\* SpscRing::push and pop never access one slot of slots[] at the same time,
\* for any capacity, at any place of the indices relative to their wrap.
THEOREM RaceFree == Spec => []NoRace
<1>1. IInv => NoRace
  BY Apart DEF NoRace
<1>2. QED
  BY <1>1, Invariance, PTL

-----------------------------------------------------------------------------
\* The ring is a queue.

\* A push holds a value, and has put it in its slot before it publishes.
Held ==
    /\ pushPc = "write" => pushValue \in Values
    /\ pushPc = "publish" => slots[Slot(writeIdx)] \in Values

LEMMA NextHeld == IInv /\ Held /\ [Next]_vars => Held'
<1> SUFFICES ASSUME IInv, Held, [Next]_vars PROVE Held'
  OBVIOUS
<1>1. CASE PushWrite
  <2>1. Slot(writeIdx) \in 0..(Capacity - 1)
    BY SlotIs DEF IInv, TypeOK
  <2>2. QED
    BY <1>1, <2>1 DEF IInv, TypeOK, Held, PushWrite
<1>2. CASE PopRead
  <2>1. pushPc # "idle" => Slot(writeIdx) # Slot(readIdx)
    BY <1>2, Apart DEF PopRead
  <2>2. QED
    BY <1>2, <2>1 DEF IInv, TypeOK, Held, PopRead, producer
<1>3. CASE PushPublish
  BY <1>3 DEF Held, PushPublish
<1>4. ASSUME NEW v \in Values, PushLoad(v) PROVE Held'
  BY <1>4 DEF IInv, TypeOK, Held, PushLoad, ring
<1>5. CASE PopLoad \/ PopPublish \/ Consume \/ UNCHANGED vars
  BY <1>5 DEF Held, PopLoad, PopPublish, Consume, vars, ring, producer
<1>6. QED
  BY <1>1, <1>2, <1>3, <1>4, <1>5 DEF Next, Push, Pop

\* The indices from readIdx to writeIdx.
LEMMA Inside ==
    ASSUME NEW i \in Indices, NEW j \in Indices, NEW e \in 0..Minus(i, j)
    PROVE  /\ Plus(j, e) \in Indices
           /\ Minus(i, Plus(j, e)) = Minus(i, j) - e
           /\ Minus(Plus(j, e), j) = e
           /\ e = 0 => Plus(j, e) = j
           /\ e = Minus(i, j) => Plus(j, e) = i
           /\ e > 0 => Plus(Plus(j, 1), e - 1) = Plus(j, e)
<1>1. /\ Minus(i, j) = IF i < j THEN i - j + IndexMod ELSE i - j
      /\ Minus(i, j) \in Indices
  BY MinusIs
<1>2. e \in 0..IndexMod /\ (e > 0 => e - 1 \in 0..IndexMod) /\ 1 \in 0..IndexMod
  BY <1>1, Sizes DEF Indices
<1>3. /\ Plus(j, e) \in Indices
      /\ Plus(j, e) = IF j + e < IndexMod THEN j + e ELSE j + e - IndexMod
      /\ Plus(j, 1) \in Indices
      /\ Plus(j, 1) = IF j + 1 < IndexMod THEN j + 1 ELSE j + 1 - IndexMod
  BY <1>2, PlusIs
<1>4. /\ Minus(i, Plus(j, e)) = IF i < Plus(j, e) THEN i - Plus(j, e) + IndexMod ELSE i - Plus(j, e)
      /\ Minus(Plus(j, e), j) = IF Plus(j, e) < j THEN Plus(j, e) - j + IndexMod ELSE Plus(j, e) - j
  BY <1>3, MinusIs
<1>5. e > 0 => Plus(Plus(j, 1), e - 1) = IF Plus(j, 1) + (e - 1) < IndexMod THEN Plus(j, 1) + (e - 1)
                                         ELSE Plus(j, 1) + (e - 1) - IndexMod
  BY <1>2, <1>3, PlusIs
<1>6. QED
  BY <1>1, <1>2, <1>3, <1>4, <1>5, Sizes DEF Indices

Size == Minus(writeIdx, readIdx) - Popped
Place(k) == Plus(readIdx, Popped + k - 1)

LEMMA SizeIs ==
    ASSUME IInv
    PROVE  /\ writeIdx \in Indices /\ readIdx \in Indices
           /\ Popped \in {0, 1} /\ Size \in Nat /\ Minus(writeIdx, readIdx) = Size + Popped
           /\ Minus(writeIdx, readIdx) <= Capacity
           /\ popPc = "read" => Size > 0
           /\ pushPc # "idle" => Minus(writeIdx, readIdx) < Capacity
<1>1. /\ writeIdx \in Indices /\ readIdx \in Indices /\ pushR \in Indices /\ popW \in Indices
      /\ Minus(writeIdx, pushR) <= Capacity
      /\ pushPc # "idle" => Minus(writeIdx, pushR) < Capacity
      /\ popPc \in {"read", "publish"} => popW # readIdx
      /\ Minus(readIdx, pushR) + Minus(writeIdx, readIdx) = Minus(writeIdx, pushR)
      /\ Minus(popW, readIdx) + Minus(writeIdx, popW) = Minus(writeIdx, readIdx)
  BY DEF IInv, TypeOK, Order
<1>2. /\ Minus(readIdx, pushR) \in Nat /\ Minus(writeIdx, readIdx) \in Nat
      /\ Minus(writeIdx, pushR) \in Nat /\ Minus(writeIdx, popW) \in Nat
      /\ Minus(popW, readIdx) \in Nat /\ (popW # readIdx => Minus(popW, readIdx) # 0)
      /\ Capacity \in Nat
  BY <1>1, Distance, Sizes
<1>3. Popped \in {0, 1} /\ (Popped = 1 <=> popPc = "publish")
  BY DEF Popped
<1>4. popPc \in {"read", "publish"} => Minus(writeIdx, readIdx) > 0
  BY <1>1, <1>2
<1>5. QED
  BY <1>1, <1>2, <1>3, <1>4 DEF Size

LEMMA QueueIs ==
    ASSUME IInv
    PROVE  /\ Queue = [k \in 1..Size |-> slots[Slot(Place(k))]]
           /\ Queue \in Seq(Values \cup {Empty}) /\ Len(Queue) = Size
           /\ \A k \in 1..Size : /\ Place(k) \in Indices
                                  /\ Minus(writeIdx, Place(k)) = Size - (k - 1)
                                  /\ Minus(Place(k), readIdx) = Popped + k - 1
                                  /\ Slot(Place(k)) \in 0..(Capacity - 1)
<1>1. ASSUME NEW k \in 1..Size
      PROVE  /\ Place(k) \in Indices
             /\ Minus(writeIdx, Place(k)) = Size - (k - 1)
             /\ Minus(Place(k), readIdx) = Popped + k - 1
             /\ Slot(Place(k)) \in 0..(Capacity - 1)
  <2>1. Popped + k - 1 \in 0..Minus(writeIdx, readIdx)
    BY SizeIs
  <2>2. /\ Place(k) \in Indices
        /\ Minus(writeIdx, Place(k)) = Minus(writeIdx, readIdx) - (Popped + k - 1)
        /\ Minus(Place(k), readIdx) = Popped + k - 1
    BY <2>1, SizeIs, Inside DEF Place
  <2>3. QED
    BY <2>2, SizeIs, SlotIs
<1>2. Queue = [k \in 1..Size |-> slots[Slot(Place(k))]]
  BY DEF Queue, Size, Place
<1>3. \A k \in 1..Size : slots[Slot(Place(k))] \in Values \cup {Empty}
  BY <1>1 DEF IInv, TypeOK
<1>4. Size \in Nat
  BY SizeIs
<1>5. QED
  BY <1>1, <1>2, <1>3, <1>4

LEMMA WriteLeaves == IInv /\ PushWrite => Queue' = Queue
<1> SUFFICES ASSUME IInv, PushWrite PROVE Queue' = Queue
  OBVIOUS
<1>1. /\ slots' = [slots EXCEPT ![Slot(writeIdx)] = pushValue]
      /\ slots \in [0..(Capacity - 1) -> Values \cup {Empty}]
      /\ pushPc # "idle"
      /\ UNCHANGED <<writeIdx, readIdx, popPc>>
  BY DEF IInv, TypeOK, PushWrite, consumer
<1>2. Size' = Size /\ \A k : Place(k)' = Place(k)
  BY <1>1 DEF Size, Place, Popped
<1>3. ASSUME NEW k \in 1..Size
      PROVE  slots'[Slot(Place(k))] = slots[Slot(Place(k))]
  <2>1. /\ Place(k) \in Indices /\ Slot(Place(k)) \in 0..(Capacity - 1)
        /\ Minus(writeIdx, Place(k)) = Size - (k - 1)
    BY QueueIs
  <2>2. Minus(writeIdx, Place(k)) < Capacity /\ Minus(writeIdx, Place(k)) # 0
    BY <1>1, <2>1, SizeIs, Sizes
  <2>3. writeIdx # Place(k)
    BY <2>1, <2>2, SizeIs, Distance
  <2>4. Slot(writeIdx) # Slot(Place(k))
    BY <2>1, <2>2, <2>3, SizeIs, SlotsDiffer
  <2>5. QED
    BY <1>1, <2>1, <2>4
<1>4. QED
  BY <1>2, <1>3 DEF Queue, Size, Place

LEMMA PublishedPop == IInv /\ PopPublish => Queue' = Queue
<1> SUFFICES ASSUME IInv, PopPublish PROVE Queue' = Queue
  OBVIOUS
<1>1. /\ UNCHANGED <<slots, writeIdx>> /\ readIdx' = Plus(readIdx, 1)
      /\ Popped = 1 /\ Popped' = 0 /\ popW # readIdx
  BY DEF IInv, Order, PopPublish, Popped
<1>2. Minus(writeIdx, readIdx) = Size + 1 /\ Size \in Nat
  BY <1>1, SizeIs
<1>3. 1 \in 0..Minus(writeIdx, readIdx)
  BY <1>2
<1>4. Minus(writeIdx, Plus(readIdx, 1)) = Minus(writeIdx, readIdx) - 1
  BY <1>3, SizeIs, Inside
<1>5. Size' = Size
  BY <1>1, <1>2, <1>4 DEF Size
<1>6. ASSUME NEW k \in 1..Size
      PROVE  Plus(Plus(readIdx, 1), 0 + k - 1) = Plus(readIdx, 1 + k - 1)
  <2>1. k \in 0..Minus(writeIdx, readIdx) /\ k > 0 /\ 0 + k - 1 = k - 1 /\ 1 + k - 1 = k
    BY <1>2
  <2>2. Plus(Plus(readIdx, 1), k - 1) = Plus(readIdx, k)
    BY <2>1, SizeIs, Inside
  <2>3. QED
    BY <2>1, <2>2
<1>7. Queue = [k \in 1..Size |-> slots[Slot(Plus(readIdx, 1 + k - 1))]]
  BY <1>1 DEF Queue, Size
<1>8. Queue' = [k \in 1..Size |-> slots[Slot(Plus(Plus(readIdx, 1), 0 + k - 1))]]
  BY <1>1, <1>5 DEF Queue, Size
<1>9. QED
  BY <1>6, <1>7, <1>8

LEMMA PublishPuts ==
    ASSUME IInv, Held, PushPublish
    PROVE  \E v \in Values : Fifo!Put(v)
<1> DEFINE v == slots[Slot(writeIdx)]
<1>1. /\ UNCHANGED <<slots, readIdx, popPc, out>> /\ writeIdx' = Plus(writeIdx, 1)
      /\ pushPc # "idle" /\ v \in Values
  BY DEF Held, PushPublish, consumer
<1>2. /\ Minus(writeIdx, readIdx) = Size + Popped /\ Size \in Nat /\ Popped \in {0, 1}
      /\ writeIdx \in Indices /\ readIdx \in Indices
      /\ Minus(writeIdx, readIdx) < Capacity
  BY <1>1, SizeIs
<1>3. Minus(writeIdx', readIdx) = Minus(writeIdx, readIdx) + 1
  BY <1>1, <1>2, NextIndex
<1>4. Popped' = Popped /\ Size' = Size + 1
  BY <1>1, <1>2, <1>3 DEF Popped, Size
<1>5. Place(Size + 1) = writeIdx
  <2>1. Popped + (Size + 1) - 1 = Minus(writeIdx, readIdx)
    BY <1>2
  <2>2. Minus(writeIdx, readIdx) \in 0..Minus(writeIdx, readIdx)
    BY <1>2
  <2>3. QED
    BY <1>2, <2>1, <2>2, Inside DEF Place
<1>6. Queue' = [k \in 1..(Size + 1) |-> slots[Slot(Place(k))]]
  BY <1>1, <1>4 DEF Queue, Size, Place
<1>7. /\ Queue = [k \in 1..Size |-> slots[Slot(Place(k))]]
      /\ Queue \in Seq(Values \cup {Empty}) /\ Len(Queue) = Size
  BY QueueIs
<1>8. Append(Queue, v) = [k \in 1..(Size + 1) |-> IF k = Size + 1 THEN v ELSE Queue[k]]
  BY <1>1, <1>2, <1>7
<1>9. \A k \in 1..(Size + 1) : slots[Slot(Place(k))] = IF k = Size + 1 THEN v ELSE Queue[k]
  BY <1>2, <1>5, <1>7
<1>10. Queue' = Append(Queue, v)
  BY <1>6, <1>8, <1>9
<1>11. Len(Queue) < Capacity
  BY <1>2, <1>7, Sizes
<1>12. QED
  BY <1>1, <1>10, <1>11 DEF Fifo!Put

LEMMA ReadTakes == IInv /\ PopRead => Fifo!Take
<1> SUFFICES ASSUME IInv, PopRead PROVE Fifo!Take
  OBVIOUS
<1>1. /\ popPc = "read" /\ Popped = 0 /\ Popped' = 1
      /\ UNCHANGED <<writeIdx, readIdx>> /\ out' = slots[Slot(readIdx)]
      /\ slots' = [slots EXCEPT ![Slot(readIdx)] = Empty]
      /\ slots \in [0..(Capacity - 1) -> Values \cup {Empty}]
  BY DEF IInv, TypeOK, PopRead, Popped
<1>2. /\ Minus(writeIdx, readIdx) = Size /\ Size \in Nat /\ Size > 0 /\ Size <= Capacity
      /\ readIdx \in Indices /\ writeIdx \in Indices
  BY <1>1, SizeIs
<1>3. /\ Queue = [k \in 1..Size |-> slots[Slot(Place(k))]]
      /\ Queue \in Seq(Values \cup {Empty}) /\ Len(Queue) = Size
  BY QueueIs
<1>4. Place(1) = readIdx
  <2>1. Popped + 1 - 1 = 0 /\ 0 \in 0..Minus(writeIdx, readIdx)
    BY <1>1, <1>2
  <2>2. QED
    BY <1>2, <2>1, Inside DEF Place
<1>5. Queue # <<>> /\ Head(Queue) = slots[Slot(readIdx)]
  BY <1>2, <1>3, <1>4
<1>6. Size' = Size - 1
  BY <1>1, <1>2 DEF Size
<1>7. ASSUME NEW k \in 1..(Size - 1)
      PROVE  /\ Place(k)' = Place(k + 1)
             /\ slots'[Slot(Place(k + 1))] = slots[Slot(Place(k + 1))]
  <2>1. k + 1 \in 1..Size /\ 1 + k - 1 = 0 + (k + 1) - 1
    BY <1>2
  <2>2. /\ Place(k + 1) \in Indices /\ Slot(Place(k + 1)) \in 0..(Capacity - 1)
        /\ Minus(Place(k + 1), readIdx) = 0 + (k + 1) - 1
    BY <1>1, <2>1, QueueIs
  <2>3. Minus(Place(k + 1), readIdx) < Capacity /\ Minus(Place(k + 1), readIdx) # 0
    BY <1>2, <2>2, Sizes
  <2>4. Place(k + 1) # readIdx
    BY <1>2, <2>2, <2>3, Distance
  <2>5. Slot(Place(k + 1)) # Slot(readIdx)
    BY <1>2, <2>2, <2>3, <2>4, SlotsDiffer
  <2>6. Place(k)' = Place(k + 1)
    BY <1>1, <2>1 DEF Place
  <2>7. QED
    BY <1>1, <2>2, <2>5, <2>6
<1>8. Queue' = [k \in 1..(Size - 1) |-> slots'[Slot(Place(k)')]]
  BY <1>6 DEF Queue, Size, Place, Slot
<1>9. Tail(Queue) = [k \in 1..(Size - 1) |-> Queue[k + 1]]
  BY <1>2, <1>3
<1>10. \A k \in 1..(Size - 1) : slots'[Slot(Place(k)')] = Queue[k + 1]
  <2> TAKE k \in 1..(Size - 1)
  <2>1. k + 1 \in 1..Size
    BY <1>2
  <2>2. QED
    BY <1>3, <1>7, <2>1
<1>11. Queue' = Tail(Queue)
  BY <1>8, <1>9, <1>10
<1>12. QED
  BY <1>1, <1>5, <1>11 DEF Fifo!Take

\* Every push takes effect as it publishes and every pop as it reads; the
\* other steps leave the queue alone.
LEMMA NextQueues ==
    IInv /\ Held /\ [Next]_vars => [Fifo!Next]_<<Queue, out>>
<1> SUFFICES ASSUME IInv, Held, [Next]_vars PROVE [Fifo!Next]_<<Queue, out>>
  OBVIOUS
<1>1. CASE PushPublish
  BY <1>1, PublishPuts DEF Fifo!Next
<1>2. CASE PopRead
  BY <1>2, ReadTakes DEF Fifo!Next
<1>3. CASE PushWrite
  BY <1>3, WriteLeaves DEF PushWrite, consumer
<1>4. CASE PopPublish
  BY <1>4, PublishedPop DEF PopPublish
<1>5. ASSUME NEW w \in Values, PushLoad(w) PROVE UNCHANGED <<Queue, out>>
  BY <1>5 DEF PushLoad, ring, consumer, Queue, Popped
<1>6. CASE PopLoad
  BY <1>6 DEF PopLoad, ring, producer, Queue, Popped
<1>7. CASE Consume
  <2>1. Queue' = Queue /\ out' = Empty
    BY <1>7 DEF Consume, ring, producer, Queue, Popped
  <2>2. QED
    BY <2>1 DEF Fifo!Next, Fifo!Consume
<1>8. CASE UNCHANGED vars
  BY <1>8 DEF vars, ring, producer, consumer, Queue, Popped
<1>9. QED
  BY <1>1, <1>2, <1>3, <1>4, <1>5, <1>6, <1>7, <1>8 DEF Next, Push, Pop

LEMMA InitQueues == Init => Fifo!Init /\ Held
<1> SUFFICES ASSUME Init PROVE Fifo!Init /\ Held
  OBVIOUS
<1>1. IInv
  BY InitIInv
<1>2. Minus(writeIdx, readIdx) = 0
  BY <1>1, SizeIs, Distance DEF Init
<1>3. Size = 0
  BY <1>1, <1>2, SizeIs
<1>4. Len(Queue) = 0 /\ Queue \in Seq(Values \cup {Empty})
  BY <1>1, <1>3, QueueIs
<1>5. QED
  BY <1>4 DEF Fifo!Init, Init, Held

\* SpscRing is the bounded queue SchedulerNode takes it for, for any capacity,
\* whatever loads are late and wherever the indices wrap: every value is taken
\* once and in order, none is invented, lost or overwritten.
THEOREM RingIsFifo == Spec => IsFifo
<1>1. Spec => []Held
  BY InitQueues, Invariance, NextHeld, PTL DEF Spec
<1>2. QED
  BY <1>1, InitQueues, Invariance, NextQueues, PTL DEF Spec, IsFifo, Fifo!Spec

=============================================================================
