---------------------------- MODULE DawGraphProofs ----------------------------
(***************************************************************************)
(* The graph of the host after any sequence of ops, for any channels and   *)
(* any number of plugins and files.                                        *)
(*                                                                         *)
(* No op looks at more of the graph than one channel, so the properties    *)
(* are not inductive: what rewireChannel drops and adds is right only if   *)
(* what was there before was right.  The inductive invariant says what     *)
(* that is.  The connections are exactly those that rewireChannel would    *)
(* make now for every chain (CablesAreWiring), the nodes exactly those the *)
(* books name (NodesAccountedFor), and the two books of plugins agree.     *)
(*                                                                         *)
(* The ops that load, unload or move a plugin are first shown to be        *)
(* instances of one relation, Rechained, and the invariant is proved of    *)
(* that relation, of a teardown, and of the ops on files and windows.      *)
(***************************************************************************)
EXTENDS DawGraph, SequenceTheorems, TLAPS

-----------------------------------------------------------------------------
\* Lists of effects.

LEMMA InsertAtProperties ==
    ASSUME NEW S, NEW q \in Seq(S), NEW i \in 1..(Len(q) + 1), NEW e \in S
    PROVE  /\ InsertAt(q, i, e) \in Seq(S)
           /\ Len(InsertAt(q, i, e)) = Len(q) + 1
           /\ \A k \in 1..(i - 1) : InsertAt(q, i, e)[k] = q[k]
           /\ InsertAt(q, i, e)[i] = e
           /\ \A k \in i..Len(q) : InsertAt(q, i, e)[k + 1] = q[k]
PROOF
<1> DEFINE front == SubSeq(q, 1, i - 1)  back == SubSeq(q, i, Len(q))
           mid == front \o <<e>>
<1>1. Len(q) \in Nat /\ i \in Int /\ i >= 1 /\ i <= Len(q) + 1
  OBVIOUS
<1>2. /\ front \in Seq(S) /\ Len(front) = i - 1
      /\ \A k \in 1..(i - 1) : front[k] = q[k]
  <2>1. 1 \in Int /\ i - 1 \in Int /\ \A k \in 1..(i - 1) : q[k] \in S
    BY <1>1
  <2>2. /\ front \in Seq(S)
        /\ Len(front) = IF 1 <= i - 1 THEN i - 1 - 1 + 1 ELSE 0
        /\ \A k \in 1..(i - 1 - 1 + 1) : front[k] = q[1 + k - 1]
    BY <2>1, SubSeqProperties
  <2> HIDE DEF front
  <2>3. CASE i = 1
    BY <1>1, <2>2, <2>3
  <2>4. CASE i > 1
    BY <1>1, <2>2, <2>4
  <2> QED BY <1>1, <2>3, <2>4
<1>3. /\ back \in Seq(S) /\ Len(back) = Len(q) - i + 1
      /\ \A k \in 1..(Len(q) - i + 1) : back[k] = q[i + k - 1]
  <2>1. i \in Int /\ Len(q) \in Int /\ \A k \in i..Len(q) : q[k] \in S
    BY <1>1
  <2>2. /\ back \in Seq(S)
        /\ Len(back) = IF i <= Len(q) THEN Len(q) - i + 1 ELSE 0
        /\ \A k \in 1..(Len(q) - i + 1) : back[k] = q[i + k - 1]
    BY <2>1, SubSeqProperties
  <2> HIDE DEF back
  <2>3. CASE i <= Len(q)
    BY <1>1, <2>2, <2>3
  <2>4. CASE i = Len(q) + 1
    BY <1>1, <2>2, <2>4
  <2> QED BY <1>1, <2>3, <2>4
<1>4. InsertAt(q, i, e) = mid \o back
  BY DEF InsertAt
<1> HIDE DEF front, back
<1>5. /\ mid \in Seq(S) /\ Len(mid) = i
      /\ \A k \in 1..(i - 1) : mid[k] = q[k]
      /\ mid[i] = e
  <2>1. <<e>> \in Seq(S) /\ Len(<<e>>) = 1 /\ <<e>>[1] = e
    OBVIOUS
  <2>2. /\ mid \in Seq(S) /\ Len(mid) = Len(front) + Len(<<e>>)
        /\ \A k \in 1..(Len(front) + Len(<<e>>)) :
               mid[k] = IF k <= Len(front) THEN front[k] ELSE <<e>>[k - Len(front)]
    BY <1>2, <2>1, ConcatProperties
  <2> HIDE DEF mid
  <2>3. \A k \in 1..(i - 1) : mid[k] = q[k]
    BY <1>1, <1>2, <2>1, <2>2
  <2>4. i - Len(front) = 1 /\ i \in 1..(Len(front) + Len(<<e>>)) /\ ~(i <= Len(front))
    BY <1>1, <1>2, <2>1
  <2>5. mid[i] = <<e>>[i - Len(front)]
    BY <2>2, <2>4
  <2>6. mid[i] = e
    BY <2>1, <2>4, <2>5
  <2> QED BY <1>1, <1>2, <2>1, <2>2, <2>3, <2>6
<1> HIDE DEF mid
<1>6. /\ mid \o back \in Seq(S) /\ Len(mid \o back) = Len(mid) + Len(back)
      /\ \A k \in 1..(Len(mid) + Len(back)) :
             (mid \o back)[k] = IF k <= Len(mid) THEN mid[k] ELSE back[k - Len(mid)]
  BY <1>3, <1>5, ConcatProperties
<1>7. Len(mid \o back) = Len(q) + 1
  BY <1>1, <1>3, <1>5, <1>6
<1>8. \A k \in 1..i : (mid \o back)[k] = mid[k]
  BY <1>1, <1>3, <1>5, <1>6
<1>9. ASSUME NEW k \in i..Len(q) PROVE (mid \o back)[k + 1] = q[k]
  <2>1. /\ k + 1 \in 1..(Len(mid) + Len(back)) /\ ~(k + 1 <= Len(mid))
        /\ k + 1 - Len(mid) \in 1..(Len(q) - i + 1)
        /\ i + (k + 1 - Len(mid)) - 1 = k
    BY <1>1, <1>3, <1>5
  <2>2. (mid \o back)[k + 1] = back[k + 1 - Len(mid)]
    BY <1>6, <2>1
  <2> QED BY <1>3, <2>1, <2>2
<1> QED BY <1>1, <1>4, <1>5, <1>6, <1>7, <1>8, <1>9

\* An injective list without one of its elements.
LEMMA RemoveFirstProperties ==
    ASSUME NEW S, NEW q \in Seq(S), IsInjective(q), NEW p \in 1..Len(q)
    PROVE  /\ RemoveFirst(q, q[p]) \in Seq(S)
           /\ Len(RemoveFirst(q, q[p])) = Len(q) - 1
           /\ \A k \in 1..(p - 1) : RemoveFirst(q, q[p])[k] = q[k]
           /\ \A k \in p..(Len(q) - 1) : RemoveFirst(q, q[p])[k] = q[k + 1]
PROOF
<1> DEFINE front == SubSeq(q, 1, p - 1)  back == SubSeq(q, p + 1, Len(q))
           found == {k \in 1..Len(q) : q[k] = q[p]}
<1>1. Len(q) \in Nat /\ p \in Int /\ p >= 1 /\ p <= Len(q)
  OBVIOUS
<1>2. found = {p}
  <2>1. DOMAIN q = 1..Len(q)
    OBVIOUS
  <2> QED BY <1>1, <2>1 DEF IsInjective
<1>3. SelectInSeq(q, LAMBDA v : v = q[p]) = p
  <2>1. SelectInSeq(q, LAMBDA v : v = q[p]) = IF found # {} THEN Min(found) ELSE 0
    BY DEF SelectInSeq
  <2> HIDE DEF found
  <2>2. Min(found) = p
    BY <1>1, <1>2 DEF Min
  <2> QED BY <1>2, <2>1, <2>2
<1>4. RemoveFirst(q, q[p]) = front \o back
  <2>1. RemoveFirst(q, q[p]) = RemoveAt(q, SelectInSeq(q, LAMBDA v : v = q[p]))
    BY DEF RemoveFirst
  <2> QED BY <1>3, <2>1 DEF RemoveAt
<1>5. /\ front \in Seq(S) /\ Len(front) = p - 1
      /\ \A k \in 1..(p - 1) : front[k] = q[k]
  <2>1. 1 \in Int /\ p - 1 \in Int /\ \A k \in 1..(p - 1) : q[k] \in S
    BY <1>1
  <2>2. /\ front \in Seq(S)
        /\ Len(front) = IF 1 <= p - 1 THEN p - 1 - 1 + 1 ELSE 0
        /\ \A k \in 1..(p - 1 - 1 + 1) : front[k] = q[1 + k - 1]
    BY <2>1, SubSeqProperties
  <2> HIDE DEF front
  <2>3. CASE p = 1
    BY <1>1, <2>2, <2>3
  <2>4. CASE p > 1
    BY <1>1, <2>2, <2>4
  <2> QED BY <1>1, <2>3, <2>4
<1>6. /\ back \in Seq(S) /\ Len(back) = Len(q) - p
      /\ \A k \in 1..(Len(q) - p) : back[k] = q[p + k]
  <2>1. p + 1 \in Int /\ Len(q) \in Int /\ \A k \in (p + 1)..Len(q) : q[k] \in S
    BY <1>1
  <2>2. /\ back \in Seq(S)
        /\ Len(back) = IF p + 1 <= Len(q) THEN Len(q) - (p + 1) + 1 ELSE 0
        /\ \A k \in 1..(Len(q) - (p + 1) + 1) : back[k] = q[(p + 1) + k - 1]
    BY <2>1, SubSeqProperties
  <2> HIDE DEF back
  <2>3. \A k \in 1..(Len(q) - p) : k \in 1..(Len(q) - (p + 1) + 1) /\ (p + 1) + k - 1 = p + k
    BY <1>1
  <2>6. \A k \in 1..(Len(q) - p) : back[k] = q[p + k]
    BY <2>2, <2>3
  <2>7. CASE p + 1 <= Len(q)
    BY <1>1, <2>2, <2>6, <2>7
  <2>8. CASE p = Len(q)
    BY <1>1, <2>2, <2>6, <2>8
  <2>9. p + 1 <= Len(q) \/ p = Len(q)
    BY <1>1
  <2> QED BY <2>7, <2>8, <2>9
<1> HIDE DEF front, back
<1>7. /\ front \o back \in Seq(S) /\ Len(front \o back) = Len(front) + Len(back)
      /\ \A k \in 1..(Len(front) + Len(back)) :
             (front \o back)[k] = IF k <= Len(front) THEN front[k] ELSE back[k - Len(front)]
  BY <1>5, <1>6, ConcatProperties
<1>8. Len(front \o back) = Len(q) - 1
  BY <1>1, <1>5, <1>6, <1>7
<1>9. \A k \in 1..(p - 1) : (front \o back)[k] = q[k]
  BY <1>1, <1>5, <1>6, <1>7
<1>10. ASSUME NEW k \in p..(Len(q) - 1) PROVE (front \o back)[k] = q[k + 1]
  <2>1. /\ k \in 1..(Len(front) + Len(back)) /\ ~(k <= Len(front))
        /\ k - Len(front) \in 1..(Len(q) - p)
        /\ p + (k - Len(front)) = k + 1
    BY <1>1, <1>5, <1>6
  <2> QED BY <1>6, <1>7, <2>1
<1> QED BY <1>4, <1>7, <1>8, <1>9, <1>10

\* A list and the same with one element more, at position p.
OneMore(short, long, p) ==
    /\ p \in 1..Len(long) /\ Len(long) = Len(short) + 1
    /\ \A k \in 1..(p - 1) : long[k] = short[k]
    /\ \A k \in p..Len(short) : long[k + 1] = short[k]

LEMMA InsertIsOneMore ==
    ASSUME NEW S, NEW q \in Seq(S), NEW i \in 1..(Len(q) + 1), NEW e \in S
    PROVE  /\ InsertAt(q, i, e) \in Seq(S)
           /\ OneMore(q, InsertAt(q, i, e), i) /\ InsertAt(q, i, e)[i] = e
PROOF
<1>1. Len(q) \in Nat
  OBVIOUS
<1> QED BY <1>1, InsertAtProperties DEF OneMore

LEMMA RemoveIsOneLess ==
    ASSUME NEW S, NEW q \in Seq(S), IsInjective(q), NEW p \in 1..Len(q)
    PROVE  /\ RemoveFirst(q, q[p]) \in Seq(S)
           /\ OneMore(RemoveFirst(q, q[p]), q, p)
PROOF
<1> DEFINE r == RemoveFirst(q, q[p])
<1>1. /\ Len(q) \in Nat /\ p \in 1..Len(q) /\ r \in Seq(S) /\ Len(r) = Len(q) - 1
      /\ \A k \in 1..(p - 1) : r[k] = q[k]
      /\ \A k \in p..(Len(q) - 1) : r[k] = q[k + 1]
  BY RemoveFirstProperties
<1> HIDE DEF r
<1>2. OneMore(r, q, p)
  BY <1>1 DEF OneMore
<1> QED BY <1>1, <1>2 DEF r

\* Where an element of the short list is in the long one, and back.
LEMMA OneMoreIndices ==
    ASSUME NEW S, NEW short \in Seq(S), NEW long \in Seq(S), NEW p, OneMore(short, long, p)
    PROVE  LET up(k) == IF k < p THEN k ELSE k + 1
           IN  /\ \A k \in DOMAIN short : /\ up(k) \in DOMAIN long /\ up(k) # p
                                          /\ long[up(k)] = short[k]
               /\ \A j \in DOMAIN long : j # p => \E k \in DOMAIN short : up(k) = j
               /\ \A k, l \in DOMAIN short : k < l <=> up(k) < up(l)
               /\ \A k, l \in DOMAIN short : up(k) = up(l) => k = l
               /\ p \in DOMAIN long
PROOF
<1> DEFINE up(k) == IF k < p THEN k ELSE k + 1
<1>1. /\ DOMAIN short = 1..Len(short) /\ DOMAIN long = 1..Len(long)
      /\ Len(short) \in Nat /\ Len(long) = Len(short) + 1 /\ p \in 1..Len(long)
  BY DEF OneMore
<1>2. ASSUME NEW k \in DOMAIN short
      PROVE  up(k) \in DOMAIN long /\ up(k) # p /\ long[up(k)] = short[k]
  <2>1. CASE k < p
    <3>1. k \in 1..(p - 1) /\ k \in 1..Len(long) /\ up(k) = k
      BY <1>1, <2>1
    <3> QED BY <1>1, <2>1, <3>1 DEF OneMore
  <2>2. CASE ~(k < p)
    <3>1. k \in p..Len(short) /\ k + 1 \in 1..Len(long) /\ up(k) = k + 1 /\ k + 1 # p
      BY <1>1, <2>2
    <3> QED BY <1>1, <3>1 DEF OneMore
  <2> QED BY <2>1, <2>2
<1>3. ASSUME NEW j \in DOMAIN long, j # p PROVE \E k \in DOMAIN short : up(k) = j
  <2>1. CASE j < p
    <3>1. j \in DOMAIN short /\ up(j) = j
      BY <1>1, <2>1
    <3> QED BY <3>1
  <2>2. CASE ~(j < p)
    <3>1. j - 1 \in DOMAIN short /\ up(j - 1) = j
      BY <1>1, <1>3, <2>2
    <3> QED BY <3>1
  <2> QED BY <2>1, <2>2
<1>4. ASSUME NEW k \in DOMAIN short, NEW l \in DOMAIN short
      PROVE  (k < l <=> up(k) < up(l)) /\ (up(k) = up(l) => k = l)
  BY <1>1
<1> QED BY <1>1, <1>2, <1>3, <1>4

LEMMA OneMoreRange ==
    ASSUME NEW S, NEW short \in Seq(S), NEW long \in Seq(S), NEW p, OneMore(short, long, p)
    PROVE  Range(long) = Range(short) \cup {long[p]}
PROOF
<1> DEFINE up(k) == IF k < p THEN k ELSE k + 1
<1>1. /\ \A k \in DOMAIN short : up(k) \in DOMAIN long /\ long[up(k)] = short[k]
      /\ \A j \in DOMAIN long : j # p => \E k \in DOMAIN short : up(k) = j
      /\ p \in DOMAIN long
  BY OneMoreIndices
<1> HIDE DEF up
<1> QED BY <1>1 DEF Range

LEMMA OneMoreInjective ==
    ASSUME NEW S, NEW short \in Seq(S), NEW long \in Seq(S), NEW p, OneMore(short, long, p)
    PROVE  IsInjective(long) <=> IsInjective(short) /\ long[p] \notin Range(short)
PROOF
<1> DEFINE up(k) == IF k < p THEN k ELSE k + 1
<1>1. /\ \A k \in DOMAIN short : /\ up(k) \in DOMAIN long /\ up(k) # p
                                 /\ long[up(k)] = short[k]
      /\ \A j \in DOMAIN long : j # p => \E k \in DOMAIN short : up(k) = j
      /\ \A k, l \in DOMAIN short : up(k) = up(l) => k = l
      /\ p \in DOMAIN long
  BY OneMoreIndices
<1> HIDE DEF up
<1> QED BY <1>1 DEF Range, IsInjective

\* The other elements keep their order.
LEMMA OneMorePrecedes ==
    ASSUME NEW S, NEW short \in Seq(S), NEW long \in Seq(S), NEW p, OneMore(short, long, p),
           NEW a, NEW b, a # long[p], b # long[p]
    PROVE  Precedes(short, a, b) <=> Precedes(long, a, b)
PROOF
<1> DEFINE up(k) == IF k < p THEN k ELSE k + 1
<1>1. /\ \A k \in DOMAIN short : up(k) \in DOMAIN long /\ long[up(k)] = short[k]
      /\ \A j \in DOMAIN long : j # p => \E k \in DOMAIN short : up(k) = j
      /\ \A k, l \in DOMAIN short : k < l <=> up(k) < up(l)
  BY OneMoreIndices
<1> HIDE DEF up
<1> QED BY <1>1 DEF Precedes

LEMMA SameFxOneMoves == ASSUME NEW fx PROVE OneMoves(fx, fx)
PROOF
  BY DEF OneMoves

\* The list that has one element more is the other but for that element.
LEMMA OneMoreMoves ==
    ASSUME NEW S, NEW short \in Seq(S), NEW long \in Seq(S), NEW p, OneMore(short, long, p),
           IsInjective(long)
    PROVE  OneMoves(short, long) /\ OneMoves(long, short)
PROOF
<1>1. Range(long) = Range(short) \cup {long[p]} /\ long[p] \notin Range(short)
  BY OneMoreRange, OneMoreInjective
<1>2. ASSUME NEW a \in Range(short), NEW b \in Range(short)
      PROVE  Precedes(short, a, b) <=> Precedes(long, a, b)
  BY <1>1, OneMorePrecedes
<1> QED BY <1>1, <1>2 DEF OneMoves

\* What the three list operators of the ops do to a list of effects.
LEMMA PositionInList ==
    ASSUME NEW i \in Int, NEW n \in Nat
    PROVE  Position(i, n) \in 1..(n + 1)
PROOF
  BY DEF Position

LEMMA InsertedFx ==
    ASSUME NEW S, NEW fx \in Seq(S), IsInjective(fx), NEW s \in S, s \notin Range(fx),
           NEW i \in 1..(Len(fx) + 1)
    PROVE  LET newFx == InsertAt(fx, i, s)
           IN  /\ newFx \in Seq(S) /\ Range(newFx) = Range(fx) \cup {s}
               /\ IsInjective(newFx) /\ OneMoves(fx, newFx)
PROOF
<1> DEFINE newFx == InsertAt(fx, i, s)
<1>1. newFx \in Seq(S) /\ OneMore(fx, newFx, i) /\ newFx[i] = s
  BY InsertIsOneMore
<1> HIDE DEF newFx
<1>2. Range(newFx) = Range(fx) \cup {s}
  BY <1>1, OneMoreRange
<1>3. IsInjective(newFx)
  BY <1>1, OneMoreInjective
<1>4. OneMoves(fx, newFx)
  BY <1>1, <1>3, OneMoreMoves
<1> QED BY <1>1, <1>2, <1>3, <1>4 DEF newFx

\* The position that an index asks for is where Landed looks for it.
LEMMA InsertedLands ==
    ASSUME NEW S, NEW fx \in Seq(S), NEW s \in S, NEW i \in Int
    PROVE  Landed(InsertAt(fx, Position(i, Len(fx)), s), s, i)
PROOF
<1> DEFINE at == Position(i, Len(fx))  newFx == InsertAt(fx, at, s)
<1>1. Len(fx) \in Nat
  OBVIOUS
<1>2. at \in 1..(Len(fx) + 1)
  BY <1>1, PositionInList
<1> HIDE DEF at
<1>3. Len(newFx) = Len(fx) + 1 /\ newFx[at] = s
  BY <1>2, InsertIsOneMore DEF OneMore
<1> HIDE DEF newFx
<1>4. at = IF i \in 0..(Len(newFx) - 1) THEN i + 1 ELSE Len(newFx)
  BY <1>1, <1>3 DEF at, Position
<1>5. Landed(newFx, s, i)
  BY <1>3, <1>4 DEF Landed
<1> QED BY <1>5 DEF newFx, at

LEMMA RemovedFx ==
    ASSUME NEW S, NEW fx \in Seq(S), IsInjective(fx), NEW s \in Range(fx)
    PROVE  LET newFx == RemoveFirst(fx, s)
           IN  /\ newFx \in Seq(S) /\ Range(newFx) = Range(fx) \ {s}
               /\ IsInjective(newFx) /\ OneMoves(fx, newFx)
               /\ \E p : OneMore(newFx, fx, p) /\ fx[p] = s
PROOF
<1> DEFINE newFx == RemoveFirst(fx, s)
<1>1. PICK p \in 1..Len(fx) : fx[p] = s
  BY DEF Range
<1>2. newFx \in Seq(S) /\ OneMore(newFx, fx, p)
  BY <1>1, RemoveIsOneLess
<1> HIDE DEF newFx
<1>3. s \notin Range(newFx) /\ IsInjective(newFx)
  BY <1>1, <1>2, OneMoreInjective
<1>4. Range(fx) = Range(newFx) \cup {s}
  BY <1>1, <1>2, OneMoreRange
<1>5. OneMoves(fx, newFx)
  BY <1>2, OneMoreMoves
<1>6. Range(newFx) = Range(fx) \ {s}
  BY <1>3, <1>4
<1> QED BY <1>1, <1>2, <1>3, <1>5, <1>6 DEF newFx

LEMMA MovedFx ==
    ASSUME NEW S, NEW fx \in Seq(S), IsInjective(fx), NEW s \in Range(fx), NEW i \in Int
    PROVE  LET newFx == Moved(fx, s, i)
           IN  /\ newFx \in Seq(S) /\ Range(newFx) = Range(fx)
               /\ IsInjective(newFx) /\ OneMoves(fx, newFx)
PROOF
<1> DEFINE others == RemoveFirst(fx, s)  at == Position(i, Len(others))
           newFx  == InsertAt(others, at, s)
<1>1. /\ others \in Seq(S) /\ Range(others) = Range(fx) \ {s} /\ IsInjective(others)
      /\ \E p : OneMore(others, fx, p) /\ fx[p] = s
  BY RemovedFx
<1>2. Moved(fx, s, i) = newFx
  BY DEF Moved
<1> HIDE DEF others
<1>3. s \in S
  BY DEF Range
<1>4. at \in 1..(Len(others) + 1)
  <2>1. Len(others) \in Nat
    BY <1>1
  <2> QED BY <2>1, PositionInList
<1> HIDE DEF at
<1>5. newFx \in Seq(S) /\ OneMore(others, newFx, at) /\ newFx[at] = s
  BY <1>1, <1>3, <1>4, InsertIsOneMore
<1>6. Range(newFx) = Range(others) \cup {s} /\ IsInjective(newFx)
  BY <1>1, <1>3, <1>4, InsertedFx
<1> HIDE DEF newFx
<1>7. Range(newFx) = Range(fx)
  BY <1>1, <1>6
<1>8. PICK p : OneMore(others, fx, p) /\ fx[p] = s
  BY <1>1
<1>9. ASSUME NEW a \in Range(fx) \ {s}, NEW b \in Range(fx) \ {s}
      PROVE  Precedes(fx, a, b) <=> Precedes(newFx, a, b)
  <2>1. Precedes(others, a, b) <=> Precedes(fx, a, b)
    BY <1>1, <1>8, OneMorePrecedes
  <2>2. Precedes(others, a, b) <=> Precedes(newFx, a, b)
    BY <1>1, <1>5, OneMorePrecedes
  <2> QED BY <2>1, <2>2
<1>10. OneMoves(fx, newFx)
  BY <1>7, <1>9 DEF OneMoves
<1> QED BY <1>2, <1>5, <1>6, <1>7, <1>10

-----------------------------------------------------------------------------
\* The inductive invariant.

\* The connections are those that rewireChannel makes for the chains and the
\* files of now, and no other.
Wiring(ch, chain, files) == MidiWiring(ch, chain) \cup AudioWiring(ch, chain, files)
AllWiring(chains, files) == UNION {Wiring(ch, chains[ch], files) : ch \in DOMAIN chains}
CablesAreWiring == cables = AllWiring(channels, filePlayers)

\* An instrument has a filter before it.
InstrumentsFiltered ==
    \A ch \in DOMAIN channels : channels[ch].instrumentSlot # None => channels[ch].hasFilter

NodesAccountedFor ==
    nodes = Permanent
            \cup {SlotNode(s) : s \in DOMAIN slots}
            \cup {FilterNode(ch) : ch \in {c \in DOMAIN channels : channels[c].hasFilter}}
            \cup {FileNode(a) : a \in filePlayers}

IInv == /\ TypeOK /\ ChainsMatchSlots /\ InstrumentsFiltered /\ NodesAccountedFor
        /\ CablesAreWiring /\ SlotsAccountedFor

-----------------------------------------------------------------------------
\* The books.

\* A chain fits a channel and a book of slots.
ChainFits(ch, chain, book) ==
    /\ chain \in ChannelChain
    /\ \A s \in InstrumentOf(chain) :
           s \in DOMAIN book /\ book[s].channelIdx = ch /\ book[s].kind = "Instrument"
    /\ \A s \in Range(chain.fxSlots) :
           s \in DOMAIN book /\ book[s].channelIdx = ch /\ book[s].kind = "Fx"
    /\ IsInjective(chain.fxSlots)
    /\ chain.instrumentSlot # None => chain.hasFilter

LEMMA ChainForFits ==
    ASSUME TypeOK, ChainsMatchSlots, InstrumentsFiltered, NEW ch \in Channels
    PROVE  ChainFits(ch, ChainFor(ch), slots)
PROOF
<1>1. CASE ch \in DOMAIN channels
  <2>1. ChainFor(ch) = channels[ch]
    BY <1>1 DEF ChainFor
  <2>2. channels[ch] \in ChannelChain
    BY <1>1 DEF TypeOK
  <2>3. channels[ch].instrumentSlot # None => channels[ch].hasFilter
    BY <1>1 DEF InstrumentsFiltered
  <2>4. /\ \A s \in InstrumentOf(channels[ch]) :
               s \in DOMAIN slots /\ slots[s].channelIdx = ch /\ slots[s].kind = "Instrument"
        /\ \A s \in Range(channels[ch].fxSlots) :
               s \in DOMAIN slots /\ slots[s].channelIdx = ch /\ slots[s].kind = "Fx"
        /\ IsInjective(channels[ch].fxSlots)
    BY <1>1 DEF ChainsMatchSlots
  <2>5. ChainFits(ch, channels[ch], slots)
    BY <2>2, <2>3, <2>4 DEF ChainFits
  <2> QED BY <2>1, <2>5
<1>2. CASE ch \notin DOMAIN channels
  <2>1. ChainFor(ch) = EmptyChain
    BY <1>2 DEF ChainFor
  <2>2. <<>> \in Seq(SlotIds) /\ Range(<<>>) = {} /\ IsInjective(<<>>)
    BY DEF Range, IsInjective
  <2>3. EmptyChain.instrumentSlot = None /\ EmptyChain.fxSlots = <<>>
    BY DEF EmptyChain
  <2>4. EmptyChain \in ChannelChain
    BY <2>2 DEF EmptyChain, ChannelChain
  <2>5. InstrumentOf(EmptyChain) = {}
    BY <2>3 DEF InstrumentOf
  <2>6. ChainFits(ch, EmptyChain, slots)
    BY <2>2, <2>3, <2>4, <2>5 DEF ChainFits
  <2> QED BY <2>1, <2>6
<1> QED BY <1>1, <1>2

\* The plugins gone leave channel ch, those in new come, and its chain becomes
\* chain.
Rechained(ch, chain, gone, new) ==
    /\ ch \in Channels
    /\ gone \subseteq {s \in DOMAIN slots : slots[s].channelIdx = ch}
    /\ \/ new = {} /\ nextSlotId' = nextSlotId
       \/ /\ new = {nextSlotId} /\ nextSlotId \in SlotIds
          /\ nextSlotId' = nextSlotId + 1
    /\ DOMAIN slots' = (DOMAIN slots \ gone) \cup new
    /\ \A s \in DOMAIN slots \ gone : slots'[s] = slots[s]
    /\ \A s \in new : slots'[s] \in SlotInfo /\ slots'[s].channelIdx = ch
    /\ channels' = With(channels, ch, chain)
    /\ ChainFits(ch, chain, slots')
    /\ Plugins(chain) = (Plugins(ChainFor(ch)) \ gone) \cup new
    /\ ChainFor(ch).hasFilter => chain.hasFilter
    /\ ch \in DOMAIN channels => OneMoves(channels[ch].fxSlots, chain.fxSlots)
    /\ nodes' = (nodes \ {SlotNode(s) : s \in gone})
                \cup {SlotNode(s) : s \in new}
                \cup (IF chain.hasFilter THEN {FilterNode(ch)} ELSE {})
    /\ cables' = Rewired(ch, chain, filePlayers, Untouched(cables, {SlotNode(s) : s \in gone}))
    /\ DOMAIN windows' = DOMAIN windows \ gone
    /\ \A s \in DOMAIN windows' : windows'[s] = windows[s]
    /\ announced' = announced \cup gone
    /\ filePlayers' = filePlayers /\ nextAudioId' = nextAudioId

LEMMA UntouchedByNone == ASSUME NEW cs PROVE Untouched(cs, {SlotNode(s) : s \in {}}) = cs
PROOF
  BY DEF Untouched

LEMMA LoadInstrumentRechains ==
    ASSUME IInv, NEW ch \in Channels, LoadInstrument(ch)
    PROVE  \E chain : Rechained(ch, chain, InstrumentOf(ChainFor(ch)), {nextSlotId})
PROOF
<1> DEFINE old == InstrumentOf(ChainFor(ch))
           chain == [ChainFor(ch) EXCEPT !.instrumentSlot = nextSlotId, !.hasFilter = TRUE]
<1>1. /\ nextSlotId \in SlotIds /\ nextSlotId # None
      /\ DOMAIN slots \subseteq 1..(nextSlotId - 1)
  BY GraphAssumption DEF IInv, TypeOK, LoadInstrument, AddSlot, SlotIds, None
<1>2. ChainFits(ch, ChainFor(ch), slots)
  BY ChainForFits DEF IInv
<1>3. /\ chain \in ChannelChain /\ chain.fxSlots = ChainFor(ch).fxSlots
      /\ chain.hasFilter /\ chain.instrumentSlot = nextSlotId
  BY <1>1, <1>2 DEF ChainFits, ChannelChain
<1>4. /\ nextSlotId' = nextSlotId + 1
      /\ slots' = With(Less(slots, old), nextSlotId,
                       [channelIdx |-> ch, kind |-> "Instrument", active |-> TRUE])
      /\ windows' = Less(windows, old) /\ announced' = announced \cup old
      /\ channels' = With(channels, ch, chain)
      /\ nodes' = (nodes \ {SlotNode(s) : s \in old}) \cup {FilterNode(ch), SlotNode(nextSlotId)}
      /\ cables' = Rewired(ch, chain, filePlayers, Untouched(cables, {SlotNode(s) : s \in old}))
      /\ filePlayers' = filePlayers /\ nextAudioId' = nextAudioId
  BY DEF LoadInstrument, AddSlot, SlotsRemoved
<1>5. old \subseteq {s \in DOMAIN slots : slots[s].channelIdx = ch /\ slots[s].kind = "Instrument"}
  BY <1>2 DEF ChainFits
<1> HIDE DEF old, chain
<1>6. nextSlotId \notin DOMAIN slots
  BY <1>1
<1>7. /\ DOMAIN slots' = (DOMAIN slots \ old) \cup {nextSlotId}
      /\ \A s \in DOMAIN slots \ old : slots'[s] = slots[s]
      /\ slots'[nextSlotId] = [channelIdx |-> ch, kind |-> "Instrument", active |-> TRUE]
  BY <1>4, <1>6 DEF With, Less, Restrict
<1>8. slots'[nextSlotId] \in SlotInfo /\ slots'[nextSlotId].channelIdx = ch
      /\ slots'[nextSlotId].kind = "Instrument"
  BY <1>7 DEF SlotInfo
<1>9. InstrumentOf(chain) = {nextSlotId}
  BY <1>1, <1>3 DEF InstrumentOf
<1>10. \A s \in Range(chain.fxSlots) :
           s \in DOMAIN slots /\ s \notin old /\ s # nextSlotId
           /\ slots[s].channelIdx = ch /\ slots[s].kind = "Fx"
  BY <1>2, <1>3, <1>5, <1>6 DEF ChainFits
<1>11. ChainFits(ch, chain, slots')
  BY <1>2, <1>3, <1>7, <1>8, <1>9, <1>10 DEF ChainFits
<1>12. Plugins(chain) = (Plugins(ChainFor(ch)) \ old) \cup {nextSlotId}
  BY <1>3, <1>9, <1>10 DEF Plugins, old
<1>13. ch \in DOMAIN channels => OneMoves(channels[ch].fxSlots, chain.fxSlots)
  BY <1>3, SameFxOneMoves DEF ChainFor
<1>14. nodes' = (nodes \ {SlotNode(s) : s \in old}) \cup {SlotNode(s) : s \in {nextSlotId}}
                \cup (IF chain.hasFilter THEN {FilterNode(ch)} ELSE {})
  BY <1>3, <1>4
<1>15. /\ DOMAIN windows' = DOMAIN windows \ old
       /\ \A s \in DOMAIN windows' : windows'[s] = windows[s]
  <2>1. windows' = Less(windows, old)
    BY <1>4
  <2> QED BY <2>1 DEF Less, Restrict
<1>16. Rechained(ch, chain, old, {nextSlotId})
  BY <1>1, <1>3, <1>4, <1>5, <1>7, <1>8, <1>11, <1>12, <1>13, <1>14, <1>15 DEF Rechained
<1> QED BY <1>16 DEF old

LEMMA LoadFxRechains ==
    ASSUME IInv, NEW ch \in Channels, NEW i \in FxIndices, LoadFx(ch, i)
    PROVE  \E chain : Rechained(ch, chain, {}, {nextSlotId})
PROOF
<1> DEFINE fx    == ChainFor(ch).fxSlots
           newFx == InsertAt(fx, Position(i, Len(fx)), nextSlotId)
           chain == [ChainFor(ch) EXCEPT !.fxSlots = newFx]
<1>1. /\ nextSlotId \in SlotIds /\ nextSlotId # None
      /\ DOMAIN slots \subseteq 1..(nextSlotId - 1)
  BY GraphAssumption DEF IInv, TypeOK, LoadFx, AddSlot, SlotIds, None
<1>2. ChainFits(ch, ChainFor(ch), slots)
  BY ChainForFits DEF IInv
<1>3. fx \in Seq(SlotIds) /\ IsInjective(fx)
  BY <1>2 DEF ChainFits, ChannelChain
<1>4. nextSlotId \notin DOMAIN slots
  BY <1>1
<1>5. nextSlotId \notin Range(fx) /\ nextSlotId \notin InstrumentOf(ChainFor(ch))
  BY <1>2, <1>4 DEF ChainFits
<1>6. /\ newFx \in Seq(SlotIds) /\ Range(newFx) = Range(fx) \cup {nextSlotId}
      /\ IsInjective(newFx) /\ OneMoves(fx, newFx)
  <2>1. Len(fx) \in Nat /\ i \in Int
    BY <1>3, GraphAssumption
  <2>2. Position(i, Len(fx)) \in 1..(Len(fx) + 1)
    BY <2>1, PositionInList
  <2> QED BY <1>1, <1>3, <1>5, <2>2, InsertedFx
<1>7. /\ nextSlotId' = nextSlotId + 1
      /\ slots' = With(Less(slots, {}), nextSlotId,
                       [channelIdx |-> ch, kind |-> "Fx", active |-> TRUE])
      /\ windows' = windows /\ announced' = announced
      /\ channels' = With(channels, ch, chain)
      /\ nodes' = nodes \cup {SlotNode(nextSlotId)}
      /\ cables' = Rewired(ch, chain, filePlayers, cables)
      /\ filePlayers' = filePlayers /\ nextAudioId' = nextAudioId
  BY DEF LoadFx, AddSlot
<1>8. ch \in DOMAIN channels => fx = channels[ch].fxSlots
  BY DEF ChainFor
<1> HIDE DEF newFx
<1>9. /\ chain \in ChannelChain /\ chain.fxSlots = newFx
      /\ chain.hasFilter = ChainFor(ch).hasFilter
      /\ chain.instrumentSlot = ChainFor(ch).instrumentSlot
  BY <1>2, <1>6 DEF ChainFits, ChannelChain
<1> HIDE DEF chain
<1>10. /\ DOMAIN slots' = DOMAIN slots \cup {nextSlotId}
       /\ \A s \in DOMAIN slots : slots'[s] = slots[s]
       /\ slots'[nextSlotId] = [channelIdx |-> ch, kind |-> "Fx", active |-> TRUE]
  BY <1>4, <1>7 DEF With, Less, Restrict
<1>11. slots'[nextSlotId] \in SlotInfo /\ slots'[nextSlotId].channelIdx = ch
       /\ slots'[nextSlotId].kind = "Fx"
  BY <1>10 DEF SlotInfo
<1>12. InstrumentOf(chain) = InstrumentOf(ChainFor(ch))
  BY <1>9 DEF InstrumentOf
<1>13. ChainFits(ch, chain, slots')
  <2>1. \A s \in InstrumentOf(chain) :
            s \in DOMAIN slots' /\ slots'[s].channelIdx = ch /\ slots'[s].kind = "Instrument"
    BY <1>2, <1>10, <1>12 DEF ChainFits
  <2>2. \A s \in Range(newFx) :
            s \in DOMAIN slots' /\ slots'[s].channelIdx = ch /\ slots'[s].kind = "Fx"
    BY <1>2, <1>6, <1>10, <1>11 DEF ChainFits
  <2>3. chain.instrumentSlot # None => chain.hasFilter
    BY <1>2, <1>9 DEF ChainFits
  <2> QED BY <1>6, <1>9, <2>1, <2>2, <2>3 DEF ChainFits
<1>14. Plugins(chain) = (Plugins(ChainFor(ch)) \ {}) \cup {nextSlotId}
  BY <1>6, <1>9, <1>12 DEF Plugins
<1>15. chain.hasFilter => ch \in DOMAIN channels /\ channels[ch].hasFilter
  BY <1>9 DEF ChainFor, EmptyChain
<1>16. nodes' = (nodes \ {SlotNode(s) : s \in {}}) \cup {SlotNode(s) : s \in {nextSlotId}}
                \cup (IF chain.hasFilter THEN {FilterNode(ch)} ELSE {})
  BY <1>7, <1>15 DEF IInv, NodesAccountedFor
<1>17. cables' = Rewired(ch, chain, filePlayers, Untouched(cables, {SlotNode(s) : s \in {}}))
  BY <1>7, UntouchedByNone
<1>18. /\ DOMAIN windows' = DOMAIN windows \ {} /\ announced' = announced \cup {}
       /\ \A s \in DOMAIN windows' : windows'[s] = windows[s]
  BY <1>7
<1>19. ch \in DOMAIN channels => OneMoves(channels[ch].fxSlots, chain.fxSlots)
  BY <1>6, <1>8, <1>9
<1>20. /\ DOMAIN slots' = (DOMAIN slots \ {}) \cup {nextSlotId}
       /\ \A s \in DOMAIN slots \ {} : slots'[s] = slots[s]
       /\ \A s \in {nextSlotId} : slots'[s] \in SlotInfo /\ slots'[s].channelIdx = ch
  BY <1>10, <1>11
<1>21. ChainFor(ch).hasFilter => chain.hasFilter
  BY <1>9
<1>22. Rechained(ch, chain, {}, {nextSlotId})
  BY <1>1, <1>7, <1>13, <1>14, <1>16, <1>17, <1>18, <1>19, <1>20, <1>21 DEF Rechained
<1> QED BY <1>22

\* What the books say of an effect and of its chain.
LEMMA FxInItsChain ==
    ASSUME IInv, NEW s \in DOMAIN slots, slots[s].kind # "Instrument"
    PROVE  LET ch == slots[s].channelIdx
           IN  /\ ch \in DOMAIN channels /\ ch \in Channels /\ ChainFor(ch) = channels[ch]
               /\ ChainFits(ch, channels[ch], slots)
               /\ s \in Range(channels[ch].fxSlots)
               /\ s \notin InstrumentOf(channels[ch])
PROOF
<1> DEFINE ch == slots[s].channelIdx
<1>1. ch \in DOMAIN channels /\ s \in Plugins(channels[ch])
  BY DEF IInv, ChainsMatchSlots
<1>2. ch \in Channels
  BY <1>1 DEF IInv, TypeOK
<1>3. ChainFor(ch) = channels[ch]
  BY <1>1 DEF ChainFor
<1>4. ChainFits(ch, channels[ch], slots)
  <2>1. ChainFits(ch, ChainFor(ch), slots)
    BY <1>2, ChainForFits DEF IInv
  <2> QED BY <1>3, <2>1
<1>5. s \notin InstrumentOf(channels[ch])
  BY <1>4 DEF ChainFits
<1>6. s \in Range(channels[ch].fxSlots)
  BY <1>1, <1>5 DEF Plugins
<1> QED BY <1>1, <1>2, <1>3, <1>4, <1>5, <1>6

LEMMA UnloadFxRechains ==
    ASSUME IInv, NEW s \in DOMAIN slots, slots[s].kind # "Instrument",
           UnloadFx(s), UNCHANGED <<nextSlotId, nextAudioId, filePlayers>>
    PROVE  \E chain : Rechained(slots[s].channelIdx, chain, {s}, {})
PROOF
<1> DEFINE ch    == slots[s].channelIdx
           fx    == channels[ch].fxSlots
           newFx == RemoveFirst(fx, s)
           chain == [channels[ch] EXCEPT !.fxSlots = newFx]
<1>1. /\ ch \in DOMAIN channels /\ ch \in Channels /\ ChainFor(ch) = channels[ch]
      /\ ChainFits(ch, channels[ch], slots)
      /\ s \in Range(fx) /\ s \notin InstrumentOf(channels[ch])
  BY FxInItsChain
<1>2. fx \in Seq(SlotIds) /\ IsInjective(fx)
  BY <1>1 DEF ChainFits, ChannelChain
<1>3. /\ newFx \in Seq(SlotIds) /\ Range(newFx) = Range(fx) \ {s}
      /\ IsInjective(newFx) /\ OneMoves(fx, newFx)
  BY <1>1, <1>2, RemovedFx
<1>4. /\ nextSlotId' = nextSlotId
      /\ slots' = Less(slots, {s})
      /\ windows' = Less(windows, {s}) /\ announced' = announced \cup {s}
      /\ channels' = With(channels, ch, chain)
      /\ nodes' = nodes \ {SlotNode(s)}
      /\ cables' = Rewired(ch, chain, filePlayers, Untouched(cables, {SlotNode(s)}))
      /\ filePlayers' = filePlayers /\ nextAudioId' = nextAudioId
  BY DEF UnloadFx, SlotsRemoved
<1> HIDE DEF newFx
<1>5. /\ chain \in ChannelChain /\ chain.fxSlots = newFx
      /\ chain.hasFilter = channels[ch].hasFilter
      /\ chain.instrumentSlot = channels[ch].instrumentSlot
  BY <1>1, <1>3 DEF ChainFits, ChannelChain
<1> HIDE DEF chain
<1>6. /\ DOMAIN slots' = DOMAIN slots \ {s}
      /\ \A r \in DOMAIN slots \ {s} : slots'[r] = slots[r]
  BY <1>4 DEF Less, Restrict
<1>7. InstrumentOf(chain) = InstrumentOf(channels[ch])
  BY <1>5 DEF InstrumentOf
<1>8. ChainFits(ch, chain, slots')
  <2>1. \A r \in InstrumentOf(chain) :
            r \in DOMAIN slots' /\ slots'[r].channelIdx = ch /\ slots'[r].kind = "Instrument"
    BY <1>1, <1>6, <1>7 DEF ChainFits
  <2>2. \A r \in Range(newFx) :
            r \in DOMAIN slots' /\ slots'[r].channelIdx = ch /\ slots'[r].kind = "Fx"
    BY <1>1, <1>3, <1>6 DEF ChainFits
  <2>3. chain.instrumentSlot # None => chain.hasFilter
    BY <1>1, <1>5 DEF ChainFits
  <2> QED BY <1>3, <1>5, <2>1, <2>2, <2>3 DEF ChainFits
<1>9. Plugins(chain) = (Plugins(ChainFor(ch)) \ {s}) \cup {}
  BY <1>1, <1>3, <1>5, <1>7 DEF Plugins
<1>10. nodes' = (nodes \ {SlotNode(r) : r \in {s}}) \cup {SlotNode(r) : r \in {}}
                \cup (IF chain.hasFilter THEN {FilterNode(ch)} ELSE {})
  <2>1. chain.hasFilter => FilterNode(ch) \in nodes
    BY <1>1, <1>5 DEF IInv, NodesAccountedFor
  <2>2. FilterNode(ch) # SlotNode(s)
    BY DEF FilterNode, SlotNode
  <2> QED BY <1>4, <2>1, <2>2
<1>11. cables' = Rewired(ch, chain, filePlayers, Untouched(cables, {SlotNode(r) : r \in {s}}))
  <2>1. {SlotNode(r) : r \in {s}} = {SlotNode(s)}
    OBVIOUS
  <2> QED BY <1>4, <2>1
<1>12. /\ DOMAIN windows' = DOMAIN windows \ {s} /\ announced' = announced \cup {s}
       /\ \A r \in DOMAIN windows' : windows'[r] = windows[r]
  BY <1>4 DEF Less, Restrict
<1>13. OneMoves(channels[ch].fxSlots, chain.fxSlots)
  BY <1>3, <1>5
<1>14. /\ DOMAIN slots' = (DOMAIN slots \ {s}) \cup {}
       /\ \A r \in {} : slots'[r] \in SlotInfo /\ slots'[r].channelIdx = ch
       /\ {s} \subseteq {r \in DOMAIN slots : slots[r].channelIdx = ch}
  BY <1>6
<1>15. ChainFor(ch).hasFilter => chain.hasFilter
  BY <1>1, <1>5
<1>16. Rechained(ch, chain, {s}, {})
  BY <1>1, <1>4, <1>6, <1>8, <1>9, <1>10, <1>11, <1>12, <1>13, <1>14, <1>15 DEF Rechained
<1> QED BY <1>16

LEMMA ReorderFxRechains ==
    ASSUME IInv, NEW s \in SlotIds, NEW i \in FxIndices, ReorderFx(s, i)
    PROVE  \E ch, chain : Rechained(ch, chain, {}, {})
PROOF
<1> DEFINE ch    == slots[s].channelIdx
           fx    == channels[ch].fxSlots
           newFx == Moved(fx, s, i)
           chain == [channels[ch] EXCEPT !.fxSlots = newFx]
<1>1. s \in DOMAIN slots /\ slots[s].kind # "Instrument"
  BY DEF ReorderFx
<1>2. /\ ch \in DOMAIN channels /\ ch \in Channels /\ ChainFor(ch) = channels[ch]
      /\ ChainFits(ch, channels[ch], slots)
      /\ s \in Range(fx)
  BY <1>1, FxInItsChain
<1>3. fx \in Seq(SlotIds) /\ IsInjective(fx)
  BY <1>2 DEF ChainFits, ChannelChain
<1>4. /\ newFx \in Seq(SlotIds) /\ Range(newFx) = Range(fx)
      /\ IsInjective(newFx) /\ OneMoves(fx, newFx)
  <2>1. i \in Int
    BY GraphAssumption
  <2> QED BY <1>2, <1>3, <2>1, MovedFx
<1>5. /\ nextSlotId' = nextSlotId /\ slots' = slots
      /\ windows' = windows /\ announced' = announced
      /\ channels' = With(channels, ch, chain)
      /\ nodes' = nodes
      /\ cables' = Rewired(ch, chain, filePlayers, cables)
      /\ filePlayers' = filePlayers /\ nextAudioId' = nextAudioId
  BY DEF ReorderFx
<1> HIDE DEF newFx
<1>6. /\ chain \in ChannelChain /\ chain.fxSlots = newFx
      /\ chain.hasFilter = channels[ch].hasFilter
      /\ chain.instrumentSlot = channels[ch].instrumentSlot
  BY <1>2, <1>4 DEF ChainFits, ChannelChain
<1> HIDE DEF chain
<1>7. InstrumentOf(chain) = InstrumentOf(channels[ch])
  BY <1>6 DEF InstrumentOf
<1>8. ChainFits(ch, chain, slots')
  <2>1. /\ \A r \in InstrumentOf(chain) :
               r \in DOMAIN slots /\ slots[r].channelIdx = ch /\ slots[r].kind = "Instrument"
        /\ \A r \in Range(newFx) :
               r \in DOMAIN slots /\ slots[r].channelIdx = ch /\ slots[r].kind = "Fx"
        /\ chain.instrumentSlot # None => chain.hasFilter
    BY <1>2, <1>4, <1>6, <1>7 DEF ChainFits
  <2> QED BY <1>4, <1>5, <1>6, <2>1 DEF ChainFits
<1>9. Plugins(chain) = (Plugins(ChainFor(ch)) \ {}) \cup {}
  BY <1>2, <1>4, <1>6, <1>7 DEF Plugins
<1>10. nodes' = (nodes \ {SlotNode(r) : r \in {}}) \cup {SlotNode(r) : r \in {}}
                \cup (IF chain.hasFilter THEN {FilterNode(ch)} ELSE {})
  <2>1. chain.hasFilter => FilterNode(ch) \in nodes
    BY <1>2, <1>6 DEF IInv, NodesAccountedFor
  <2> QED BY <1>5, <2>1
<1>11. cables' = Rewired(ch, chain, filePlayers, Untouched(cables, {SlotNode(r) : r \in {}}))
  BY <1>5, UntouchedByNone
<1>12. OneMoves(channels[ch].fxSlots, chain.fxSlots)
  BY <1>4, <1>6
<1>13. ChainFor(ch).hasFilter => chain.hasFilter
  BY <1>2, <1>6
<1>14. Rechained(ch, chain, {}, {})
  BY <1>2, <1>5, <1>8, <1>9, <1>10, <1>11, <1>12, <1>13 DEF Rechained
<1> QED BY <1>14

-----------------------------------------------------------------------------
\* A chain that changes keeps the books.

\* Every slot has its place, and every chain fits.
Placed(book, chains) ==
    \A s \in DOMAIN book : /\ book[s].channelIdx \in DOMAIN chains
                           /\ s \in Plugins(chains[book[s].channelIdx])
AllFit(book, chains) == \A ch \in DOMAIN chains : ChainFits(ch, chains[ch], book)

LEMMA BooksFit ==
    ASSUME TypeOK, ChainsMatchSlots, InstrumentsFiltered
    PROVE  Placed(slots, channels) /\ AllFit(slots, channels)
PROOF
<1>1. Placed(slots, channels)
  BY DEF Placed, ChainsMatchSlots
<1>2. ASSUME NEW ch \in DOMAIN channels PROVE ChainFits(ch, channels[ch], slots)
  <2>1. ch \in Channels /\ ChainFor(ch) = channels[ch]
    BY DEF TypeOK, ChainFor
  <2>2. ChainFits(ch, ChainFor(ch), slots)
    BY <2>1, ChainForFits
  <2> QED BY <2>1, <2>2
<1> QED BY <1>1, <1>2 DEF AllFit

\* And the other way round, for the state after a step.
LEMMA FitMatchesNext ==
    ASSUME Placed(slots, channels)', AllFit(slots, channels)'
    PROVE  ChainsMatchSlots' /\ InstrumentsFiltered'
PROOF
<1>1. ChainsMatchSlots'
  BY DEF Placed, AllFit, ChainFits, ChainsMatchSlots
<1>2. InstrumentsFiltered'
  BY DEF AllFit, ChainFits, InstrumentsFiltered
<1> QED BY <1>1, <1>2

\* What the other channels keep.
LEMMA OtherChannels ==
    ASSUME IInv, NEW ch, NEW chain, NEW gone, NEW new, Rechained(ch, chain, gone, new)
    PROVE  /\ DOMAIN channels' = DOMAIN channels \cup {ch} /\ channels'[ch] = chain
           /\ \A c \in DOMAIN channels \ {ch} :
                  channels'[c] = channels[c] /\ ChainFits(c, channels[c], slots')
           /\ new \cap DOMAIN slots = {}
           /\ \A s \in DOMAIN slots' : s \notin new => s \in DOMAIN slots \ gone
PROOF
<1>1. channels' = With(channels, ch, chain)
  BY DEF Rechained
<1>2. /\ DOMAIN channels' = DOMAIN channels \cup {ch} /\ channels'[ch] = chain
      /\ \A c \in DOMAIN channels \ {ch} : channels'[c] = channels[c]
  BY <1>1 DEF With
<1>3. ASSUME NEW c \in DOMAIN channels \ {ch} PROVE ChainFits(c, channels[c], slots')
  <2>1. ChainFits(c, channels[c], slots)
    BY BooksFit DEF IInv, AllFit
  <2>2. \A s \in DOMAIN slots : slots[s].channelIdx = c =>
            s \in DOMAIN slots' /\ slots'[s] = slots[s]
    BY <1>3 DEF Rechained
  <2> QED BY <2>1, <2>2 DEF ChainFits
<1>4. nextSlotId \notin DOMAIN slots
  <2>1. nextSlotId \in Int /\ DOMAIN slots \subseteq 1..(nextSlotId - 1)
    BY DEF IInv, TypeOK
  <2> QED BY <2>1
<1>5. new \cap DOMAIN slots = {}
  BY <1>4 DEF Rechained
<1>6. \A s \in DOMAIN slots' : s \notin new => s \in DOMAIN slots \ gone
  BY DEF Rechained
<1> QED BY <1>2, <1>3, <1>5, <1>6

LEMMA RechainedTypes ==
    ASSUME IInv, NEW ch, NEW chain, NEW gone, NEW new, Rechained(ch, chain, gone, new)
    PROVE  TypeOK'
PROOF
<1> USE DEF SlotIds
<1>1. /\ nextSlotId \in 1..(MaxPlugins + 1) /\ MaxPlugins \in Nat
      /\ DOMAIN slots \subseteq 1..(nextSlotId - 1)
  BY GraphAssumption DEF IInv, TypeOK
<1>2. nextSlotId' \in 1..(MaxPlugins + 1)
      /\ DOMAIN slots' \subseteq 1..(nextSlotId' - 1)
  <2>1. DOMAIN slots' = (DOMAIN slots \ gone) \cup new
    BY DEF Rechained
  <2>2. CASE new = {} /\ nextSlotId' = nextSlotId
    BY <1>1, <2>1, <2>2
  <2>3. CASE new = {nextSlotId} /\ nextSlotId \in SlotIds /\ nextSlotId' = nextSlotId + 1
    <3>1. /\ nextSlotId' \in 1..(MaxPlugins + 1)
          /\ 1..(nextSlotId - 1) \subseteq 1..(nextSlotId' - 1)
          /\ nextSlotId \in 1..(nextSlotId' - 1)
      BY <1>1, <2>3
    <3> QED BY <1>1, <2>1, <2>3, <3>1
  <2> QED BY <2>2, <2>3 DEF Rechained
<1>3. \A s \in DOMAIN slots' : slots'[s] \in SlotInfo
  <2>1. \A s \in DOMAIN slots \ gone : slots'[s] = slots[s] /\ slots[s] \in SlotInfo
    BY DEF Rechained, IInv, TypeOK
  <2>2. \A s \in new : slots'[s] \in SlotInfo
    BY DEF Rechained
  <2> QED BY <2>1, <2>2, OtherChannels
<1>4. DOMAIN channels' \subseteq Channels
      /\ \A c \in DOMAIN channels' : channels'[c] \in ChannelChain
  <2>1. ch \in Channels /\ chain \in ChannelChain
    BY DEF Rechained, ChainFits
  <2>2. DOMAIN channels \subseteq Channels
        /\ \A c \in DOMAIN channels : channels[c] \in ChannelChain
    BY DEF IInv, TypeOK
  <2>3. /\ DOMAIN channels' = DOMAIN channels \cup {ch} /\ channels'[ch] = chain
        /\ \A c \in DOMAIN channels \ {ch} : channels'[c] = channels[c]
    BY OtherChannels
  <2> QED BY <2>1, <2>2, <2>3
<1>5. /\ filePlayers' \subseteq 1..(nextAudioId' - 1)
      /\ nextAudioId' \in 1..(MaxPlayers + 1)
  BY DEF Rechained, IInv, TypeOK
<1>6. \A s \in DOMAIN windows' : s \in 1..MaxPlugins /\ windows'[s] \in BOOLEAN
  <2>1. \A s \in DOMAIN windows' : s \in DOMAIN windows /\ windows'[s] = windows[s]
    BY DEF Rechained
  <2>2. \A s \in DOMAIN windows : s \in 1..MaxPlugins /\ windows[s] \in BOOLEAN
    BY DEF IInv, TypeOK
  <2> QED BY <2>1, <2>2
<1>7. announced' \subseteq 1..MaxPlugins
  <2>1. DOMAIN slots \subseteq 1..MaxPlugins
    BY <1>1
  <2>2. announced \subseteq 1..MaxPlugins
    BY DEF IInv, TypeOK
  <2> QED BY <2>1, <2>2 DEF Rechained
<1> QED BY <1>2, <1>3, <1>4, <1>5, <1>6, <1>7 DEF TypeOK

LEMMA RechainedFits ==
    ASSUME IInv, NEW ch, NEW chain, NEW gone, NEW new, Rechained(ch, chain, gone, new)
    PROVE  ChainsMatchSlots' /\ InstrumentsFiltered'
PROOF
<1>1. /\ DOMAIN channels' = DOMAIN channels \cup {ch} /\ channels'[ch] = chain
      /\ \A c \in DOMAIN channels \ {ch} :
             channels'[c] = channels[c] /\ ChainFits(c, channels[c], slots')
      /\ \A s \in DOMAIN slots' : s \notin new => s \in DOMAIN slots \ gone
  BY OtherChannels
<1>2. AllFit(slots, channels)'
  <2>1. ChainFits(ch, chain, slots')
    BY DEF Rechained
  <2>2. ASSUME NEW c \in DOMAIN channels' PROVE ChainFits(c, channels'[c], slots')
    <3>1. CASE c = ch
      BY <1>1, <2>1, <3>1
    <3>2. CASE c # ch
      <4>1. c \in DOMAIN channels \ {ch}
        BY <1>1, <2>2, <3>2
      <4>2. channels'[c] = channels[c] /\ ChainFits(c, channels[c], slots')
        BY <1>1, <4>1
      <4> QED BY <4>2
    <3> QED BY <3>1, <3>2
  <2> QED BY <2>2 DEF AllFit
<1>3. Plugins(chain) = (Plugins(ChainFor(ch)) \ gone) \cup new
  BY DEF Rechained
<1>4. ASSUME NEW s \in DOMAIN slots'
      PROVE  slots'[s].channelIdx \in DOMAIN channels'
             /\ s \in Plugins(channels'[slots'[s].channelIdx])
  <2>1. CASE s \in new
    <3>1. slots'[s].channelIdx = ch
      BY <2>1 DEF Rechained
    <3> QED BY <1>1, <1>3, <2>1, <3>1
  <2>2. CASE s \notin new
    <3>1. s \in DOMAIN slots \ gone /\ slots'[s] = slots[s]
      BY <1>1, <2>2 DEF Rechained
    <3>2. slots[s].channelIdx \in DOMAIN channels
          /\ s \in Plugins(channels[slots[s].channelIdx])
      BY <3>1 DEF IInv, ChainsMatchSlots
    <3>3. CASE slots[s].channelIdx = ch
      <4>1. ChainFor(ch) = channels[ch]
        BY <3>2, <3>3 DEF ChainFor
      <4> QED BY <1>1, <1>3, <3>1, <3>2, <3>3, <4>1
    <3>4. CASE slots[s].channelIdx # ch
      BY <1>1, <3>1, <3>2, <3>4
    <3> QED BY <3>3, <3>4
  <2> QED BY <2>1, <2>2
<1>5. Placed(slots, channels)'
  BY <1>4 DEF Placed
<1> QED BY <1>2, <1>5, FitMatchesNext

\* The nodes, told apart by what they are and what they are numbered.
LEMMA NodesDiffer ==
    /\ \A s, t : SlotNode(s) = SlotNode(t) => s = t
    /\ \A c, d : FilterNode(c) = FilterNode(d) => c = d
    /\ \A a, b : FileNode(a) = FileNode(b) => a = b
    /\ \A s, c : SlotNode(s) # FilterNode(c)
    /\ \A s, a : SlotNode(s) # FileNode(a)
    /\ \A c, a : FilterNode(c) # FileNode(a)
    /\ \A s : SlotNode(s) \notin Permanent
    /\ \A c : FilterNode(c) \notin Permanent
    /\ \A a : FileNode(a) \notin Permanent
    /\ MidiInput # Scheduler /\ MidiInput # AudioSum /\ MidiInput # AudioOutput
    /\ Scheduler # AudioSum /\ Scheduler # AudioOutput /\ AudioSum # AudioOutput
PROOF
  BY DEF SlotNode, FilterNode, FileNode, Permanent, MidiInput, Scheduler, AudioSum,
         AudioOutput

LEMMA RechainedNodes ==
    ASSUME IInv, NEW ch, NEW chain, NEW gone, NEW new, Rechained(ch, chain, gone, new)
    PROVE  NodesAccountedFor'
PROOF
<1> DEFINE filtered  == {c \in DOMAIN channels : channels[c].hasFilter}
           filtered2 == {c \in DOMAIN channels' : channels'[c].hasFilter}
<1>1. /\ DOMAIN channels' = DOMAIN channels \cup {ch} /\ channels'[ch] = chain
      /\ \A c \in DOMAIN channels \ {ch} : channels'[c] = channels[c]
  BY OtherChannels
<1>2. ch \in DOMAIN channels /\ channels[ch].hasFilter => chain.hasFilter
  BY DEF Rechained, ChainFor
<1>3. filtered2 = filtered \cup (IF chain.hasFilter THEN {ch} ELSE {})
  BY <1>1, <1>2
<1> HIDE DEF filtered, filtered2
<1>4. /\ DOMAIN slots' = (DOMAIN slots \ gone) \cup new
      /\ nodes' = (nodes \ {SlotNode(s) : s \in gone})
                  \cup {SlotNode(s) : s \in new}
                  \cup (IF chain.hasFilter THEN {FilterNode(ch)} ELSE {})
      /\ filePlayers' = filePlayers
  BY DEF Rechained
<1>5. nodes = Permanent \cup {SlotNode(s) : s \in DOMAIN slots}
              \cup {FilterNode(c) : c \in filtered}
              \cup {FileNode(a) : a \in filePlayers}
  BY DEF IInv, NodesAccountedFor, filtered
<1>6. nodes \ {SlotNode(s) : s \in gone}
      = Permanent \cup {SlotNode(s) : s \in DOMAIN slots \ gone}
        \cup {FilterNode(c) : c \in filtered}
        \cup {FileNode(a) : a \in filePlayers}
  BY <1>5, NodesDiffer
<1>7. {SlotNode(s) : s \in DOMAIN slots'}
      = {SlotNode(s) : s \in DOMAIN slots \ gone} \cup {SlotNode(s) : s \in new}
  BY <1>4
<1>8. {FilterNode(c) : c \in filtered2}
      = {FilterNode(c) : c \in filtered}
        \cup (IF chain.hasFilter THEN {FilterNode(ch)} ELSE {})
  BY <1>3
<1>9. nodes' = Permanent \cup {SlotNode(s) : s \in DOMAIN slots'}
               \cup {FilterNode(c) : c \in filtered2}
               \cup {FileNode(a) : a \in filePlayers'}
  BY <1>4, <1>6, <1>7, <1>8
<1> QED BY <1>9 DEF NodesAccountedFor, filtered2

LEMMA RechainedAnnounces ==
    ASSUME IInv, NEW ch, NEW chain, NEW gone, NEW new, Rechained(ch, chain, gone, new)
    PROVE  SlotsAccountedFor'
PROOF
<1>1. /\ announced = (1..(nextSlotId - 1)) \ DOMAIN slots
      /\ DOMAIN windows \subseteq DOMAIN slots
      /\ nextSlotId \in Nat /\ DOMAIN slots \subseteq 1..(nextSlotId - 1)
  BY DEF IInv, SlotsAccountedFor, TypeOK
<1>2. /\ DOMAIN slots' = (DOMAIN slots \ gone) \cup new
      /\ announced' = announced \cup gone
      /\ DOMAIN windows' = DOMAIN windows \ gone
      /\ gone \subseteq DOMAIN slots
  BY DEF Rechained
<1>3. announced' = (1..(nextSlotId' - 1)) \ DOMAIN slots'
  <2>1. CASE new = {} /\ nextSlotId' = nextSlotId
    BY <1>1, <1>2, <2>1
  <2>2. CASE new = {nextSlotId} /\ nextSlotId \in SlotIds /\ nextSlotId' = nextSlotId + 1
    <3>1. 1..(nextSlotId' - 1) = (1..(nextSlotId - 1)) \cup {nextSlotId}
          /\ nextSlotId \notin 1..(nextSlotId - 1)
      BY <1>1, <2>2 DEF SlotIds
    <3> QED BY <1>1, <1>2, <2>2, <3>1
  <2> QED BY <2>1, <2>2 DEF Rechained
<1>4. DOMAIN windows' \subseteq DOMAIN slots'
  BY <1>1, <1>2
<1> QED BY <1>3, <1>4 DEF SlotsAccountedFor

-----------------------------------------------------------------------------
\* A channel that is torn down.

\* Channel ch goes with all its plugins and its filter.
Torn(ch) ==
    /\ ch \in DOMAIN channels /\ ch # 0
    /\ TeardownChannel(ch)
    /\ UNCHANGED <<nextSlotId, nextAudioId, filePlayers>>

LEMMA UnloadPluginCases ==
    ASSUME IInv, NEW s \in SlotIds, UnloadPlugin(s)
    PROVE  \/ Torn(slots[s].channelIdx)
           \/ \E chain : Rechained(slots[s].channelIdx, chain, {s}, {})
PROOF
<1>1. s \in DOMAIN slots /\ ~Reserved(s) /\ UNCHANGED <<nextSlotId, nextAudioId, filePlayers>>
  BY DEF UnloadPlugin
<1>2. CASE slots[s].kind = "Instrument"
  <2>1. TeardownChannel(slots[s].channelIdx)
    BY <1>2 DEF UnloadPlugin
  <2>2. slots[s].channelIdx # 0
    BY <1>1, <1>2 DEF Reserved
  <2>3. slots[s].channelIdx \in DOMAIN channels
    BY <1>1 DEF IInv, ChainsMatchSlots
  <2> QED BY <1>1, <2>1, <2>2, <2>3 DEF Torn
<1>3. CASE slots[s].kind # "Instrument"
  <2>1. UnloadFx(s)
    BY <1>3 DEF UnloadPlugin
  <2> QED BY <1>1, <1>3, <2>1, UnloadFxRechains
<1> QED BY <1>2, <1>3

LEMMA TornIs ==
    ASSUME IInv, NEW ch, Torn(ch)
    PROVE  LET gone == Plugins(channels[ch])
           IN  /\ gone = {s \in DOMAIN slots : slots[s].channelIdx = ch}
               /\ DOMAIN slots' = DOMAIN slots \ gone
               /\ \A s \in DOMAIN slots' : slots'[s] = slots[s]
               /\ DOMAIN windows' = DOMAIN windows \ gone
               /\ \A s \in DOMAIN windows' : windows'[s] = windows[s]
               /\ announced' = announced \cup gone
               /\ DOMAIN channels' = DOMAIN channels \ {ch}
               /\ \A c \in DOMAIN channels' : channels'[c] = channels[c]
               /\ nodes' = nodes \ ({SlotNode(s) : s \in gone} \cup {FilterNode(ch)})
               /\ cables' = Untouched(cables, {SlotNode(s) : s \in gone} \cup {FilterNode(ch)})
               /\ UNCHANGED <<nextSlotId, nextAudioId, filePlayers>>
PROOF
<1> DEFINE gone == Plugins(channels[ch])
<1>1. /\ slots' = Less(slots, gone) /\ windows' = Less(windows, gone)
      /\ announced' = announced \cup gone
      /\ channels' = Less(channels, {ch})
      /\ nodes' = nodes \ ({SlotNode(s) : s \in gone} \cup {FilterNode(ch)})
      /\ cables' = Untouched(cables, {SlotNode(s) : s \in gone} \cup {FilterNode(ch)})
      /\ UNCHANGED <<nextSlotId, nextAudioId, filePlayers>>
  BY DEF Torn, TeardownChannel, SlotsRemoved
<1>2. ch \in DOMAIN channels
  BY DEF Torn
<1>3. ChainFits(ch, channels[ch], slots)
  BY <1>2, BooksFit DEF IInv, AllFit
<1>4. gone = {s \in DOMAIN slots : slots[s].channelIdx = ch}
  <2>1. gone \subseteq {s \in DOMAIN slots : slots[s].channelIdx = ch}
    BY <1>3 DEF ChainFits, Plugins
  <2>2. \A s \in DOMAIN slots : slots[s].channelIdx = ch => s \in gone
    BY DEF IInv, ChainsMatchSlots
  <2> QED BY <2>1, <2>2
<1> HIDE DEF gone
<1>5. DOMAIN slots' = DOMAIN slots \ gone /\ \A s \in DOMAIN slots' : slots'[s] = slots[s]
  BY <1>1 DEF Less, Restrict
<1>6. /\ DOMAIN windows' = DOMAIN windows \ gone
      /\ \A s \in DOMAIN windows' : windows'[s] = windows[s]
  BY <1>1 DEF Less, Restrict
<1>7. /\ DOMAIN channels' = DOMAIN channels \ {ch}
      /\ \A c \in DOMAIN channels' : channels'[c] = channels[c]
  BY <1>1 DEF Less, Restrict
<1>8. /\ announced' = announced \cup gone
      /\ nodes' = nodes \ ({SlotNode(s) : s \in gone} \cup {FilterNode(ch)})
      /\ cables' = Untouched(cables, {SlotNode(s) : s \in gone} \cup {FilterNode(ch)})
      /\ UNCHANGED <<nextSlotId, nextAudioId, filePlayers>>
  BY <1>1
<1> QED BY <1>4, <1>5, <1>6, <1>7, <1>8 DEF gone

LEMMA TornTypes ==
    ASSUME IInv, NEW ch, Torn(ch)
    PROVE  TypeOK'
PROOF
<1> DEFINE gone == Plugins(channels[ch])
<1>1. /\ gone = {s \in DOMAIN slots : slots[s].channelIdx = ch}
      /\ DOMAIN slots' = DOMAIN slots \ gone
      /\ \A s \in DOMAIN slots' : slots'[s] = slots[s]
      /\ DOMAIN windows' = DOMAIN windows \ gone
      /\ \A s \in DOMAIN windows' : windows'[s] = windows[s]
      /\ announced' = announced \cup gone
      /\ DOMAIN channels' = DOMAIN channels \ {ch}
      /\ \A c \in DOMAIN channels' : channels'[c] = channels[c]
      /\ UNCHANGED <<nextSlotId, nextAudioId, filePlayers>>
  BY TornIs
<1> HIDE DEF gone
<1>2. nextSlotId' \in 1..(MaxPlugins + 1) /\ nextAudioId' \in 1..(MaxPlayers + 1)
      /\ filePlayers' \subseteq 1..(nextAudioId' - 1)
  BY <1>1 DEF IInv, TypeOK
<1>3. DOMAIN slots' \subseteq 1..(nextSlotId' - 1) /\ \A s \in DOMAIN slots' : slots'[s] \in SlotInfo
  BY <1>1 DEF IInv, TypeOK
<1>4. DOMAIN channels' \subseteq Channels
      /\ \A c \in DOMAIN channels' : channels'[c] \in ChannelChain
  BY <1>1 DEF IInv, TypeOK
<1>5. \A s \in DOMAIN windows' : s \in SlotIds /\ windows'[s] \in BOOLEAN
  BY <1>1 DEF IInv, TypeOK
<1>6. announced' \subseteq SlotIds
  <2>1. /\ nextSlotId \in 1..(MaxPlugins + 1) /\ MaxPlugins \in Nat
        /\ DOMAIN slots \subseteq 1..(nextSlotId - 1) /\ announced \subseteq SlotIds
    BY GraphAssumption DEF IInv, TypeOK
  <2>2. DOMAIN slots \subseteq SlotIds
    BY <2>1 DEF SlotIds
  <2> QED BY <1>1, <2>1, <2>2
<1> QED BY <1>2, <1>3, <1>4, <1>5, <1>6 DEF TypeOK

LEMMA TornFits ==
    ASSUME IInv, NEW ch, Torn(ch)
    PROVE  ChainsMatchSlots' /\ InstrumentsFiltered'
PROOF
<1> DEFINE gone == Plugins(channels[ch])
<1>1. /\ gone = {s \in DOMAIN slots : slots[s].channelIdx = ch}
      /\ DOMAIN slots' = DOMAIN slots \ gone
      /\ \A s \in DOMAIN slots' : slots'[s] = slots[s]
      /\ DOMAIN channels' = DOMAIN channels \ {ch}
      /\ \A c \in DOMAIN channels' : channels'[c] = channels[c]
  BY TornIs
<1> HIDE DEF gone
<1>2. Placed(slots, channels) /\ AllFit(slots, channels)
  BY BooksFit DEF IInv
<1>3. Placed(slots, channels)'
  BY <1>1, <1>2 DEF Placed
<1>4. ASSUME NEW c \in DOMAIN channels' PROVE ChainFits(c, channels'[c], slots')
  <2>1. ChainFits(c, channels[c], slots) /\ c # ch
    BY <1>1, <1>2 DEF AllFit
  <2>2. \A s \in DOMAIN slots : slots[s].channelIdx = c =>
            s \in DOMAIN slots' /\ slots'[s] = slots[s]
    BY <1>1, <2>1
  <2>3. ChainFits(c, channels[c], slots')
    BY <2>1, <2>2 DEF ChainFits
  <2>4. channels'[c] = channels[c]
    BY <1>1
  <2> QED BY <2>3, <2>4
<1>5. AllFit(slots, channels)'
  BY <1>4 DEF AllFit
<1> QED BY <1>3, <1>5, FitMatchesNext

LEMMA TornNodes ==
    ASSUME IInv, NEW ch, Torn(ch)
    PROVE  NodesAccountedFor'
PROOF
<1> DEFINE gone == Plugins(channels[ch])
           filtered  == {c \in DOMAIN channels : channels[c].hasFilter}
           filtered2 == {c \in DOMAIN channels' : channels'[c].hasFilter}
<1>1. /\ DOMAIN slots' = DOMAIN slots \ gone
      /\ DOMAIN channels' = DOMAIN channels \ {ch}
      /\ \A c \in DOMAIN channels' : channels'[c] = channels[c]
      /\ nodes' = nodes \ ({SlotNode(s) : s \in gone} \cup {FilterNode(ch)})
      /\ filePlayers' = filePlayers
  BY TornIs
<1>2. filtered2 = filtered \ {ch}
  BY <1>1
<1>3. nodes = Permanent \cup {SlotNode(s) : s \in DOMAIN slots}
              \cup {FilterNode(c) : c \in filtered}
              \cup {FileNode(a) : a \in filePlayers}
  BY DEF IInv, NodesAccountedFor
<1> HIDE DEF gone, filtered, filtered2
<1>4. nodes' = Permanent \cup {SlotNode(s) : s \in DOMAIN slots \ gone}
               \cup {FilterNode(c) : c \in filtered \ {ch}}
               \cup {FileNode(a) : a \in filePlayers}
  BY <1>1, <1>3, NodesDiffer
<1>5. nodes' = Permanent \cup {SlotNode(s) : s \in DOMAIN slots'}
               \cup {FilterNode(c) : c \in filtered2}
               \cup {FileNode(a) : a \in filePlayers'}
  BY <1>1, <1>2, <1>4
<1> QED BY <1>5 DEF NodesAccountedFor, filtered2

LEMMA TornAnnounces ==
    ASSUME IInv, NEW ch, Torn(ch)
    PROVE  SlotsAccountedFor'
PROOF
<1> DEFINE gone == Plugins(channels[ch])
<1>1. /\ gone \subseteq DOMAIN slots
      /\ DOMAIN slots' = DOMAIN slots \ gone
      /\ DOMAIN windows' = DOMAIN windows \ gone
      /\ announced' = announced \cup gone
      /\ nextSlotId' = nextSlotId
  <2>1. gone = {s \in DOMAIN slots : slots[s].channelIdx = ch}
    BY TornIs
  <2>2. /\ DOMAIN slots' = DOMAIN slots \ gone /\ DOMAIN windows' = DOMAIN windows \ gone
        /\ announced' = announced \cup gone /\ nextSlotId' = nextSlotId
    BY TornIs
  <2> HIDE DEF gone
  <2> QED BY <2>1, <2>2
<1> HIDE DEF gone
<1>2. /\ announced = (1..(nextSlotId - 1)) \ DOMAIN slots
      /\ DOMAIN windows \subseteq DOMAIN slots
      /\ DOMAIN slots \subseteq 1..(nextSlotId - 1)
  BY DEF IInv, SlotsAccountedFor, TypeOK
<1> QED BY <1>1, <1>2 DEF SlotsAccountedFor

-----------------------------------------------------------------------------
\* The connections rewireChannel makes.

\* The node the audio of a channel is at after i effects.
PathNode(tail, fx, i) == IF i = 0 THEN tail
                         ELSE IF i <= Len(fx) THEN SlotNode(fx[i]) ELSE AudioOutput

Summed(chain, files) == {SlotNode(s) : s \in InstrumentOf(chain)}
                        \cup {FileNode(a) : a \in files}

LEMMA PathIs ==
    ASSUME NEW S, NEW fx \in Seq(S), NEW tail, NEW i \in 1..(Len(fx) + 2)
    PROVE  (<<tail>> \o [k \in DOMAIN fx |-> SlotNode(fx[k])] \o <<AudioOutput>>)[i]
           = PathNode(tail, fx, i - 1)
PROOF
<1> DEFINE mid  == [k \in DOMAIN fx |-> SlotNode(fx[k])]
           R    == {tail, AudioOutput} \cup {SlotNode(s) : s \in S}
           n    == Len(fx)
           head == <<tail>> \o mid
<1>1. n \in Nat /\ DOMAIN fx = 1..n /\ \A k \in 1..n : fx[k] \in S
  OBVIOUS
<1>2. mid \in Seq(R) /\ Len(mid) = n /\ \A k \in 1..n : mid[k] = SlotNode(fx[k])
  <2>1. mid \in [1..n -> R]
    BY <1>1
  <2>2. mid \in Seq(R)
    BY <1>1, <2>1
  <2>3. DOMAIN mid = 1..n
    BY <1>1
  <2>4. Len(mid) = n
    BY <1>1, <2>2, <2>3, LenProperties
  <2> QED BY <1>1, <2>2, <2>4
<1> HIDE DEF mid
<1>3. <<tail>> \in Seq(R) /\ <<AudioOutput>> \in Seq(R)
  OBVIOUS
<1>4. /\ head \in Seq(R) /\ Len(head) = 1 + n
      /\ \A k \in 1..(1 + n) : head[k] = IF k <= 1 THEN <<tail>>[k] ELSE mid[k - 1]
  <2>1. Len(<<tail>>) = 1
    OBVIOUS
  <2> HIDE DEF R
  <2>2. /\ head \in Seq(R) /\ Len(head) = Len(<<tail>>) + Len(mid)
        /\ \A k \in 1..(Len(<<tail>>) + Len(mid)) :
               head[k] = IF k <= Len(<<tail>>) THEN <<tail>>[k] ELSE mid[k - Len(<<tail>>)]
    BY <1>2, <1>3, ConcatProperties
  <2> HIDE DEF head
  <2> QED BY <1>2, <2>1, <2>2
<1> HIDE DEF R, head
<1>5. \A k \in 1..(n + 2) :
          (head \o <<AudioOutput>>)[k] = IF k <= n + 1 THEN head[k] ELSE AudioOutput
  <2>1. Len(<<AudioOutput>>) = 1 /\ <<AudioOutput>>[1] = AudioOutput
    OBVIOUS
  <2>2. \A k \in 1..(Len(head) + Len(<<AudioOutput>>)) :
            (head \o <<AudioOutput>>)[k] = IF k <= Len(head) THEN head[k]
                                           ELSE <<AudioOutput>>[k - Len(head)]
    BY <1>3, <1>4, ConcatProperties
  <2>3. ASSUME NEW k \in 1..(n + 2), ~(k <= n + 1) PROVE k - Len(head) = 1
    BY <1>1, <1>4, <2>3
  <2>4. Len(head) + Len(<<AudioOutput>>) = n + 2
    BY <1>1, <1>4, <2>1
  <2>5. \A k \in 1..(n + 2) :
            (head \o <<AudioOutput>>)[k] = IF k <= n + 1 THEN head[k]
                                           ELSE <<AudioOutput>>[k - Len(head)]
    BY <1>1, <1>4, <2>2, <2>4
  <2> QED BY <2>1, <2>3, <2>5
<1>6. i \in 1..(n + 2)
  OBVIOUS
<1> HIDE DEF n
<1>7. (head \o <<AudioOutput>>)[i] = PathNode(tail, fx, i - 1)
  <2>1. CASE i = 1
    <3>1. head[i] = tail /\ i <= n + 1 /\ i - 1 = 0
      BY <1>1, <1>4, <2>1
    <3> QED BY <1>5, <1>6, <3>1 DEF PathNode
  <2>2. CASE i > 1 /\ i <= n + 1
    <3>1. i \in 1..(1 + n) /\ ~(i <= 1) /\ i - 1 \in 1..n /\ i - 1 # 0 /\ i - 1 <= n
      BY <1>1, <1>6, <2>2
    <3>2. head[i] = SlotNode(fx[i - 1])
      BY <1>2, <1>4, <3>1
    <3>3. PathNode(tail, fx, i - 1) = SlotNode(fx[i - 1])
      BY <3>1 DEF PathNode, n
    <3> QED BY <1>5, <1>6, <2>2, <3>2, <3>3
  <2>3. CASE i > n + 1
    <3>1. ~(i <= n + 1) /\ i - 1 # 0 /\ ~(i - 1 <= n)
      BY <1>1, <1>6, <2>3
    <3>2. PathNode(tail, fx, i - 1) = AudioOutput
      BY <3>1 DEF PathNode, n
    <3> QED BY <1>5, <1>6, <3>1, <3>2
  <2>4. i = 1 \/ (i > 1 /\ i <= n + 1) \/ i > n + 1
    BY <1>1, <1>6
  <2> QED BY <2>1, <2>2, <2>3, <2>4
<1> QED BY <1>7 DEF head, mid

\* An audio cable joins two neighbours on the path, or goes into the sum.
OnPath(ch, chain, k) ==
    \E tail \in AudioTail(ch, chain), i \in 1..(Len(chain.fxSlots) + 1) :
        k = Cable(PathNode(tail, chain.fxSlots, i - 1), PathNode(tail, chain.fxSlots, i),
                  "audio")
IntoSum(ch, chain, files, k) ==
    ch = 0 /\ \E n \in Summed(chain, files) : k = Cable(n, AudioSum, "audio")

LEMMA AudioWiringIs ==
    ASSUME NEW ch, NEW chain, chain \in ChannelChain, NEW files, NEW k
    PROVE  k \in AudioWiring(ch, chain, files)
           <=> OnPath(ch, chain, k) \/ IntoSum(ch, chain, files, k)
PROOF
<1> DEFINE fx == chain.fxSlots
           Path(tail) == <<tail>> \o [j \in DOMAIN fx |-> SlotNode(fx[j])] \o <<AudioOutput>>
           Onward(tail) == {Cable(Path(tail)[i], Path(tail)[i+1], "audio")
                            : i \in 1..(Len(fx) + 1)}
           Into == IF ch = 0 THEN {Cable(n, AudioSum, "audio") : n \in Summed(chain, files)}
                   ELSE {}
           All == UNION {Onward(tail) : tail \in AudioTail(ch, chain)}
<1>1. fx \in Seq(SlotIds) /\ Len(fx) \in Nat
  BY DEF ChannelChain
<1>2. AudioWiring(ch, chain, files) = All \cup Into
  BY DEF AudioWiring, Summed
<1>3. ASSUME NEW tail, NEW i \in 1..(Len(fx) + 1)
      PROVE  Path(tail)[i] = PathNode(tail, fx, i - 1) /\ Path(tail)[i+1] = PathNode(tail, fx, i)
  <2>1. i \in 1..(Len(fx) + 2) /\ i + 1 \in 1..(Len(fx) + 2) /\ (i + 1) - 1 = i
    BY <1>1
  <2>2. Path(tail)[i] = PathNode(tail, fx, i - 1)
    BY <1>1, <2>1, PathIs
  <2>3. Path(tail)[i+1] = PathNode(tail, fx, (i + 1) - 1)
    BY <1>1, <2>1, PathIs
  <2> QED BY <2>1, <2>2, <2>3
<1> HIDE DEF fx, Path
<1>4. \A tail : k \in Onward(tail) <=>
          \E i \in 1..(Len(fx) + 1) :
              k = Cable(PathNode(tail, fx, i - 1), PathNode(tail, fx, i), "audio")
  BY <1>3
<1>5. k \in Into <=> IntoSum(ch, chain, files, k)
  BY DEF IntoSum
<1>6. k \in All <=> \E tail \in AudioTail(ch, chain) : k \in Onward(tail)
  OBVIOUS
<1> HIDE DEF Onward, Into, All
<1>7. k \in All <=> OnPath(ch, chain, k)
  BY <1>4, <1>6 DEF OnPath, fx
<1> QED BY <1>2, <1>5, <1>7

LEMMA MidiWiringIs ==
    ASSUME NEW ch, NEW chain, chain.instrumentSlot # None => chain.hasFilter, NEW k
    PROVE  k \in MidiWiring(ch, chain) <=>
               /\ chain.instrumentSlot # None
               /\ k \in {Cable(MidiInput, FilterNode(ch), "midi"),
                         Cable(Scheduler, FilterNode(ch), "midi"),
                         Cable(FilterNode(ch), SlotNode(chain.instrumentSlot), "midi")}
PROOF
<1>1. CASE chain.instrumentSlot = None
  <2>1. InstrumentOf(chain) = {}
    BY <1>1 DEF InstrumentOf
  <2> QED BY <1>1, <2>1 DEF MidiWiring
<1>2. CASE chain.instrumentSlot # None
  <2>1. InstrumentOf(chain) = {chain.instrumentSlot} /\ chain.hasFilter
    BY <1>2 DEF InstrumentOf
  <2>2. MidiWiring(ch, chain)
        = {Cable(MidiInput, FilterNode(ch), "midi"), Cable(Scheduler, FilterNode(ch), "midi")}
          \cup {Cable(FilterNode(ch), SlotNode(chain.instrumentSlot), "midi")}
    BY <2>1 DEF MidiWiring
  <2> QED BY <1>2, <2>2
<1> QED BY <1>1, <1>2

\* Every cable of a channel has an end at one of its nodes, and both at its
\* nodes or where the channel begins and ends.
LEMMA WiringEnds ==
    ASSUME NEW ch, NEW chain, chain \in ChannelChain,
           chain.instrumentSlot # None => chain.hasFilter,
           NEW files, NEW k \in Wiring(ch, chain, files)
    PROVE  LET own == NodesInChannel(ch, chain, files)
           IN  /\ k.src \in own \/ (k.src \in {MidiInput, Scheduler} /\ k.dst \in own)
               /\ k.dst \in own \cup {AudioOutput}
PROOF
<1> DEFINE own == NodesInChannel(ch, chain, files)
           fx  == chain.fxSlots
<1> SUFFICES /\ k.src \in own \/ (k.src \in {MidiInput, Scheduler} /\ k.dst \in own)
             /\ k.dst \in own \cup {AudioOutput}
  OBVIOUS
<1>1. fx \in Seq(SlotIds) /\ Len(fx) \in Nat /\ DOMAIN fx = 1..Len(fx)
  BY DEF ChannelChain
<1>2. /\ \A s \in InstrumentOf(chain) : SlotNode(s) \in own
      /\ \A i \in 1..Len(fx) : SlotNode(fx[i]) \in own
      /\ chain.hasFilter => FilterNode(ch) \in own
      /\ ch = 0 => AudioSum \in own /\ \A a \in files : FileNode(a) \in own
  BY <1>1 DEF NodesInChannel, Plugins, Range
<1> HIDE DEF own, fx
<1>3. CASE k \in MidiWiring(ch, chain)
  <2>1. /\ chain.instrumentSlot # None
        /\ k \in {Cable(MidiInput, FilterNode(ch), "midi"),
                  Cable(Scheduler, FilterNode(ch), "midi"),
                  Cable(FilterNode(ch), SlotNode(chain.instrumentSlot), "midi")}
    BY <1>3, MidiWiringIs
  <2>2. FilterNode(ch) \in own /\ SlotNode(chain.instrumentSlot) \in own
    BY <1>2, <2>1 DEF InstrumentOf
  <2> QED BY <2>1, <2>2 DEF Cable
<1>4. CASE OnPath(ch, chain, k)
  <2>1. PICK tail \in AudioTail(ch, chain), i \in 1..(Len(fx) + 1) :
               k = Cable(PathNode(tail, fx, i - 1), PathNode(tail, fx, i), "audio")
    BY <1>4 DEF OnPath, fx
  <2>2. tail \in own
    BY <1>2 DEF AudioTail
  <2>3. \A j \in 0..(Len(fx) + 1) : PathNode(tail, fx, j) \in own \cup {AudioOutput}
    BY <1>1, <1>2, <2>2 DEF PathNode
  <2>4. PathNode(tail, fx, i - 1) \in own
    <3>1. i - 1 = 0 \/ (i - 1 # 0 /\ i - 1 <= Len(fx) /\ i - 1 \in 1..Len(fx))
      BY <1>1
    <3> QED BY <1>2, <2>2, <3>1 DEF PathNode
  <2>5. i \in 0..(Len(fx) + 1)
    BY <1>1
  <2> QED BY <2>1, <2>3, <2>4, <2>5 DEF Cable
<1>5. CASE IntoSum(ch, chain, files, k)
  BY <1>2, <1>5 DEF IntoSum, Summed, Cable
<1>6. k \in MidiWiring(ch, chain) \/ k \in AudioWiring(ch, chain, files)
  BY DEF Wiring
<1> QED BY <1>3, <1>4, <1>5, <1>6, AudioWiringIs

\* The file players matter to channel 0 only.
LEMMA WiringIgnoresFiles ==
    ASSUME NEW ch, ch # 0, NEW chain, NEW files, NEW files2
    PROVE  /\ Wiring(ch, chain, files) = Wiring(ch, chain, files2)
           /\ NodesInChannel(ch, chain, files) = NodesInChannel(ch, chain, files2)
PROOF
  BY DEF Wiring, AudioWiring, NodesInChannel

LEMMA AllWiringIs ==
    ASSUME NEW chains, NEW files, NEW k
    PROVE  k \in AllWiring(chains, files)
           <=> \E c \in DOMAIN chains : k \in Wiring(c, chains[c], files)
PROOF
  BY DEF AllWiring

\* Chains that rewireChannel can be given.
Wirable(chains) ==
    \A c \in DOMAIN chains : /\ chains[c] \in ChannelChain
                             /\ chains[c].instrumentSlot # None => chains[c].hasFilter

\* What is dropped belongs to channel ch, and all of that channel is dropped.
DropsOnly(chains, files, ch, dropped) ==
    /\ {MidiInput, Scheduler, AudioOutput} \cap dropped = {}
    /\ \A c \in DOMAIN chains \ {ch} : NodesInChannel(c, chains[c], files) \cap dropped = {}
    /\ ch \in DOMAIN chains => NodesInChannel(ch, chains[ch], files) \subseteq dropped

LEMMA DropsOneChannel ==
    ASSUME NEW chains, Wirable(chains), NEW files, NEW ch, NEW dropped,
           DropsOnly(chains, files, ch, dropped), NEW k
    PROVE  k \in Untouched(AllWiring(chains, files), dropped)
           <=> \E c \in DOMAIN chains \ {ch} : k \in Wiring(c, chains[c], files)
PROOF
<1>1. k \in Untouched(AllWiring(chains, files), dropped)
      <=> /\ \E c \in DOMAIN chains : k \in Wiring(c, chains[c], files)
          /\ k.src \notin dropped /\ k.dst \notin dropped
  BY AllWiringIs DEF Untouched
<1>2. ASSUME NEW c \in DOMAIN chains, k \in Wiring(c, chains[c], files)
      PROVE  k.src \notin dropped /\ k.dst \notin dropped <=> c # ch
  <2> DEFINE own == NodesInChannel(c, chains[c], files)
  <2>1. /\ k.src \in own \/ (k.src \in {MidiInput, Scheduler} /\ k.dst \in own)
        /\ k.dst \in own \cup {AudioOutput}
    <3>1. chains[c] \in ChannelChain /\ (chains[c].instrumentSlot # None => chains[c].hasFilter)
      BY DEF Wirable
    <3> QED BY <1>2, <3>1, WiringEnds
  <2> HIDE DEF own
  <2>2. CASE c = ch
    <3>1. own \subseteq dropped
      BY <2>2 DEF DropsOnly, own
    <3> QED BY <2>1, <2>2, <3>1
  <2>3. CASE c # ch
    <3>1. own \cap dropped = {} /\ {MidiInput, Scheduler, AudioOutput} \cap dropped = {}
      BY <2>3 DEF DropsOnly, own
    <3> QED BY <2>1, <2>3, <3>1
  <2> QED BY <2>2, <2>3
<1> QED BY <1>1, <1>2

\* One channel rewired, with what was left of its old nodes dropped first, and
\* nothing else that matters to the wiring changed.
OneRewired(chains, files, chains2, files2, ch, left) ==
    /\ Wirable(chains)
    /\ DOMAIN chains2 = DOMAIN chains \cup {ch}
    /\ \A c \in DOMAIN chains \ {ch} :
           chains2[c] = chains[c] /\ Wiring(c, chains[c], files) = Wiring(c, chains[c], files2)
    /\ DropsOnly(chains, files, ch, left \cup NodesInChannel(ch, chains2[ch], files2))

LEMMA RewiredIs ==
    ASSUME NEW chains, NEW files, NEW chains2, NEW files2, NEW ch, NEW left,
           OneRewired(chains, files, chains2, files2, ch, left)
    PROVE  Rewired(ch, chains2[ch], files2, Untouched(AllWiring(chains, files), left))
           = AllWiring(chains2, files2)
PROOF
<1> DEFINE chain == chains2[ch]
<1>0. /\ Wirable(chains)
      /\ DropsOnly(chains, files, ch, left \cup NodesInChannel(ch, chain, files2))
      /\ DOMAIN chains2 = DOMAIN chains \cup {ch}
      /\ \A c \in DOMAIN chains \ {ch} : chains2[c] = chains[c]
      /\ \A c \in DOMAIN chains \ {ch} :
             Wiring(c, chains[c], files) = Wiring(c, chains[c], files2)
  BY DEF OneRewired
<1> DEFINE before  == AllWiring(chains, files)
           own     == NodesInChannel(ch, chain, files2)
           rewired == Rewired(ch, chain, files2, Untouched(before, left))
<1>1. Untouched(Untouched(before, left), own) = Untouched(before, left \cup own)
  BY DEF Untouched
<1>2. rewired = Untouched(before, left \cup own) \cup Wiring(ch, chain, files2)
  BY <1>1 DEF Rewired, Wiring
<1>3. ASSUME NEW k
      PROVE  k \in rewired <=> k \in AllWiring(chains2, files2)
  <2>1. k \in Untouched(before, left \cup own)
        <=> \E c \in DOMAIN chains \ {ch} : k \in Wiring(c, chains[c], files)
    BY <1>0, DropsOneChannel
  <2>2. k \in AllWiring(chains2, files2)
        <=> \E c \in DOMAIN chains2 : k \in Wiring(c, chains2[c], files2)
    BY AllWiringIs
  <2> HIDE DEF before, own, rewired
  <2>3. k \in rewired <=> \/ \E c \in DOMAIN chains \ {ch} : k \in Wiring(c, chains[c], files)
                          \/ k \in Wiring(ch, chain, files2)
    BY <1>2, <2>1
  <2>4. \A c \in DOMAIN chains \ {ch} :
            Wiring(c, chains[c], files) = Wiring(c, chains2[c], files2)
    BY <1>0
  <2>5. DOMAIN chains2 = DOMAIN chains \cup {ch}
    BY <1>0
  <2> QED BY <2>2, <2>3, <2>4, <2>5
<1> HIDE DEF rewired
<1>4. rewired = AllWiring(chains2, files2)
  BY <1>3
<1> QED BY <1>4 DEF rewired

LEMMA OwnNodes ==
    ASSUME NEW ch, NEW chain, NEW files, NEW n
    PROVE  n \in NodesInChannel(ch, chain, files)
           <=> \/ \E s \in Plugins(chain) : n = SlotNode(s)
               \/ chain.hasFilter /\ n = FilterNode(ch)
               \/ ch = 0 /\ n = AudioSum
               \/ ch = 0 /\ \E a \in files : n = FileNode(a)
PROOF
<1> HIDE DEF Plugins
<1>1. n \in {SlotNode(s) : s \in Plugins(chain)} <=> \E s \in Plugins(chain) : n = SlotNode(s)
  OBVIOUS
<1>2. n \in {FileNode(a) : a \in files} <=> \E a \in files : n = FileNode(a)
  OBVIOUS
<1> QED BY <1>1, <1>2 DEF NodesInChannel

LEMMA SlotsApart ==
    ASSUME NEW ch, NEW chain, NEW files, NEW gone, Plugins(chain) \cap gone = {}
    PROVE  NodesInChannel(ch, chain, files) \cap {SlotNode(s) : s \in gone} = {}
PROOF
<1> SUFFICES ASSUME NEW n \in NodesInChannel(ch, chain, files), NEW s \in gone, n = SlotNode(s)
             PROVE  FALSE
  OBVIOUS
<1>1. AudioSum \in Permanent
  BY DEF Permanent
<1> QED BY <1>1, OwnNodes, NodesDiffer

LEMMA ChannelsApart ==
    ASSUME NEW c, NEW d, c # d, NEW chain, NEW chain2, Plugins(chain) \cap Plugins(chain2) = {},
           NEW files, NEW files2
    PROVE  NodesInChannel(c, chain, files) \cap NodesInChannel(d, chain2, files2) = {}
PROOF
<1> SUFFICES ASSUME NEW n, n \in NodesInChannel(c, chain, files),
                    n \in NodesInChannel(d, chain2, files2)
             PROVE  FALSE
  OBVIOUS
<1>1. AudioSum \in Permanent
  BY DEF Permanent
<1>2. \/ \E s \in Plugins(chain) : n = SlotNode(s)
      \/ n = FilterNode(c)
      \/ c = 0 /\ (n = AudioSum \/ \E a : n = FileNode(a))
  BY OwnNodes
<1>3. \/ \E s \in Plugins(chain2) : n = SlotNode(s)
      \/ n = FilterNode(d)
      \/ d = 0 /\ (n = AudioSum \/ \E a : n = FileNode(a))
  BY OwnNodes
<1> QED BY <1>1, <1>2, <1>3, NodesDiffer

LEMMA EndsApart ==
    ASSUME NEW ch, NEW chain, NEW files
    PROVE  {MidiInput, Scheduler, AudioOutput} \cap NodesInChannel(ch, chain, files) = {}
PROOF
<1>1. AudioSum \in Permanent /\ MidiInput \in Permanent /\ Scheduler \in Permanent
      /\ AudioOutput \in Permanent
  BY DEF Permanent
<1> QED BY <1>1, OwnNodes, NodesDiffer

LEMMA SlotEndsApart ==
    ASSUME NEW gone
    PROVE  {MidiInput, Scheduler, AudioOutput} \cap {SlotNode(s) : s \in gone} = {}
PROOF
<1>1. MidiInput \in Permanent /\ Scheduler \in Permanent /\ AudioOutput \in Permanent
  BY DEF Permanent
<1> QED BY <1>1, NodesDiffer

LEMMA BooksWirable == ASSUME IInv PROVE Wirable(channels)
PROOF
  BY DEF IInv, TypeOK, InstrumentsFiltered, Wirable

\* The plugins of a channel are the slots that say so.
LEMMA PluginsOf ==
    ASSUME IInv, NEW c \in DOMAIN channels
    PROVE  Plugins(channels[c]) = {s \in DOMAIN slots : slots[s].channelIdx = c}
PROOF
<1>1. ChainFits(c, channels[c], slots)
  BY BooksFit DEF IInv, AllFit
<1>2. Plugins(channels[c]) \subseteq {s \in DOMAIN slots : slots[s].channelIdx = c}
  BY <1>1 DEF ChainFits, Plugins
<1>3. \A s \in DOMAIN slots : slots[s].channelIdx = c => s \in Plugins(channels[c])
  BY DEF IInv, ChainsMatchSlots
<1> QED BY <1>2, <1>3

LEMMA RechainedCables ==
    ASSUME IInv, NEW ch, NEW chain, NEW gone, NEW new, Rechained(ch, chain, gone, new)
    PROVE  CablesAreWiring'
PROOF
<1> DEFINE left    == {SlotNode(s) : s \in gone}
           own     == NodesInChannel(ch, chain, filePlayers)
           dropped == left \cup own
<1>1. /\ DOMAIN channels' = DOMAIN channels \cup {ch} /\ channels'[ch] = chain
      /\ \A c \in DOMAIN channels \ {ch} : channels'[c] = channels[c]
      /\ new \cap DOMAIN slots = {}
  BY OtherChannels
<1>2. /\ Plugins(chain) = (Plugins(ChainFor(ch)) \ gone) \cup new
      /\ gone \subseteq {s \in DOMAIN slots : slots[s].channelIdx = ch}
      /\ ChainFor(ch).hasFilter => chain.hasFilter
  BY DEF Rechained
<1>3. ASSUME NEW c \in DOMAIN channels \ {ch}
      PROVE  Plugins(channels[c]) \cap gone = {} /\ Plugins(channels[c]) \cap Plugins(chain) = {}
  <2>1. Plugins(channels[c]) = {s \in DOMAIN slots : slots[s].channelIdx = c}
    BY PluginsOf
  <2>2. \A s \in Plugins(ChainFor(ch)) : s \in DOMAIN slots /\ slots[s].channelIdx = ch
    <3>1. ChainFits(ch, ChainFor(ch), slots)
      BY ChainForFits DEF IInv, Rechained
    <3> QED BY <3>1 DEF ChainFits, Plugins
  <2> QED BY <1>1, <1>2, <2>1, <2>2
<1>4. {MidiInput, Scheduler, AudioOutput} \cap dropped = {}
  BY EndsApart, SlotEndsApart
<1>5. ASSUME NEW c \in DOMAIN channels \ {ch}
      PROVE  NodesInChannel(c, channels[c], filePlayers) \cap dropped = {}
  <2>1. NodesInChannel(c, channels[c], filePlayers) \cap left = {}
    BY <1>3, SlotsApart
  <2>2. NodesInChannel(c, channels[c], filePlayers) \cap own = {}
    BY <1>3, ChannelsApart
  <2> QED BY <2>1, <2>2
<1>6. ASSUME ch \in DOMAIN channels
      PROVE  NodesInChannel(ch, channels[ch], filePlayers) \subseteq dropped
  <2>1. ChainFor(ch) = channels[ch]
    BY <1>6 DEF ChainFor
  <2>2. ASSUME NEW n \in NodesInChannel(ch, channels[ch], filePlayers) PROVE n \in dropped
    <3>1. CASE \E s \in Plugins(channels[ch]) : n = SlotNode(s)
      <4>1. PICK s \in Plugins(channels[ch]) : n = SlotNode(s)
        BY <3>1
      <4>2. s \in gone \/ s \in Plugins(chain)
        BY <1>2, <2>1
      <4> QED BY <4>1, <4>2, OwnNodes
    <3>2. CASE ~ \E s \in Plugins(channels[ch]) : n = SlotNode(s)
      <4>1. n \in own
        BY <1>2, <2>1, <3>2, OwnNodes
      <4> QED BY <4>1
    <3> QED BY <3>1, <3>2
  <2> QED BY <2>2
<1> HIDE DEF left, own
<1>7. DropsOnly(channels, filePlayers, ch, left \cup own)
  BY <1>4, <1>5, <1>6 DEF DropsOnly
<1>8. cables' = Rewired(ch, channels'[ch], filePlayers,
                        Untouched(AllWiring(channels, filePlayers), left))
  BY <1>1 DEF Rechained, IInv, CablesAreWiring, left
<1>9. OneRewired(channels, filePlayers, channels', filePlayers, ch, left)
  BY <1>1, <1>7, BooksWirable DEF own, OneRewired
<1>10. filePlayers' = filePlayers
  BY DEF Rechained
<1> QED BY <1>8, <1>9, <1>10, RewiredIs DEF CablesAreWiring

LEMMA TornCables ==
    ASSUME IInv, NEW ch, Torn(ch)
    PROVE  CablesAreWiring'
PROOF
<1> DEFINE gone    == Plugins(channels[ch])
           dropped == {SlotNode(s) : s \in gone} \cup {FilterNode(ch)}
<1>1. /\ ch \in DOMAIN channels /\ ch # 0
      /\ DOMAIN channels' = DOMAIN channels \ {ch}
      /\ \A c \in DOMAIN channels' : channels'[c] = channels[c]
      /\ filePlayers' = filePlayers
      /\ cables' = Untouched(cables, dropped)
  BY TornIs DEF Torn
<1>2. {MidiInput, Scheduler, AudioOutput} \cap dropped = {}
  <2>1. MidiInput \in Permanent /\ Scheduler \in Permanent /\ AudioOutput \in Permanent
    BY DEF Permanent
  <2> QED BY <2>1, SlotEndsApart, NodesDiffer
<1>3. ASSUME NEW c \in DOMAIN channels \ {ch}
      PROVE  NodesInChannel(c, channels[c], filePlayers) \cap dropped = {}
  <2>1. Plugins(channels[c]) \cap gone = {}
    BY <1>1, PluginsOf
  <2> HIDE DEF gone
  <2>2. NodesInChannel(c, channels[c], filePlayers) \cap {SlotNode(s) : s \in gone} = {}
    BY <2>1, SlotsApart
  <2>3. FilterNode(ch) \notin NodesInChannel(c, channels[c], filePlayers)
    <3>1. AudioSum \in Permanent
      BY DEF Permanent
    <3> QED BY <3>1, OwnNodes, NodesDiffer
  <2> QED BY <2>2, <2>3
<1>4. NodesInChannel(ch, channels[ch], filePlayers) \subseteq dropped
  BY <1>1, OwnNodes
<1> HIDE DEF gone, dropped
<1>5. DropsOnly(channels, filePlayers, ch, dropped)
  BY <1>2, <1>3, <1>4 DEF DropsOnly
<1>6. ASSUME NEW k
      PROVE  k \in Untouched(AllWiring(channels, filePlayers), dropped)
             <=> k \in AllWiring(channels', filePlayers)
  <2>1. k \in Untouched(AllWiring(channels, filePlayers), dropped)
        <=> \E c \in DOMAIN channels \ {ch} : k \in Wiring(c, channels[c], filePlayers)
    BY <1>5, BooksWirable, DropsOneChannel
  <2>2. k \in AllWiring(channels', filePlayers)
        <=> \E c \in DOMAIN channels' : k \in Wiring(c, channels'[c], filePlayers)
    BY AllWiringIs
  <2> QED BY <1>1, <2>1, <2>2
<1>7. cables = AllWiring(channels, filePlayers)
  BY DEF IInv, CablesAreWiring
<1>8. Untouched(AllWiring(channels, filePlayers), dropped) = AllWiring(channels', filePlayers)
  BY <1>6 DEF Untouched
<1> QED BY <1>1, <1>7, <1>8 DEF CablesAreWiring

-----------------------------------------------------------------------------
\* The file players come and go.

LEMMA FilesRewired ==
    ASSUME IInv, NEW files2, NEW left, left \subseteq {FileNode(a) : a \in filePlayers},
           \A a \in filePlayers : a \in files2 \/ FileNode(a) \in left
    PROVE  (IF 0 \in DOMAIN channels
            THEN Rewired(0, channels[0], files2, Untouched(cables, left))
            ELSE Untouched(cables, left))
           = AllWiring(channels, files2)
PROOF
<1>1. cables = AllWiring(channels, filePlayers)
  BY DEF IInv, CablesAreWiring
<1>2. {MidiInput, Scheduler, AudioOutput} \cap left = {}
  <2>1. MidiInput \in Permanent /\ Scheduler \in Permanent /\ AudioOutput \in Permanent
    BY DEF Permanent
  <2> QED BY <2>1, NodesDiffer
<1>3. ASSUME NEW c \in DOMAIN channels \ {0}
      PROVE  /\ NodesInChannel(c, channels[c], filePlayers) \cap left = {}
             /\ Wiring(c, channels[c], filePlayers) = Wiring(c, channels[c], files2)
  <2>1. ASSUME NEW n \in NodesInChannel(c, channels[c], filePlayers)
        PROVE  \A a : n # FileNode(a)
    BY OwnNodes, NodesDiffer
  <2> QED BY <2>1, WiringIgnoresFiles
<1>4. CASE 0 \in DOMAIN channels
  <2> DEFINE own     == NodesInChannel(0, channels[0], files2)
  <2>1. {MidiInput, Scheduler, AudioOutput} \cap (left \cup own) = {}
    BY <1>2, EndsApart
  <2>2. ASSUME NEW c \in DOMAIN channels \ {0}
        PROVE  NodesInChannel(c, channels[c], filePlayers) \cap (left \cup own) = {}
    <3>1. Plugins(channels[c]) \cap Plugins(channels[0]) = {}
      BY <1>4, PluginsOf
    <3>2. NodesInChannel(c, channels[c], filePlayers) \cap own = {}
      BY <3>1, ChannelsApart
    <3> QED BY <1>3, <3>2
  <2>3. NodesInChannel(0, channels[0], filePlayers) \subseteq left \cup own
    <3>1. ASSUME NEW n \in NodesInChannel(0, channels[0], filePlayers) PROVE n \in left \cup own
      <4>1. CASE \E a \in filePlayers : n = FileNode(a)
        BY <4>1, OwnNodes
      <4>2. CASE ~ \E a \in filePlayers : n = FileNode(a)
        <5>1. n \in own
          BY <4>2, OwnNodes
        <5> QED BY <5>1
      <4> QED BY <4>1, <4>2
    <3> QED BY <3>1
  <2>4. DropsOnly(channels, filePlayers, 0, left \cup own)
    BY <2>1, <2>2, <2>3 DEF DropsOnly
  <2>5. OneRewired(channels, filePlayers, channels, files2, 0, left)
    BY <1>3, <1>4, <2>4, BooksWirable DEF OneRewired
  <2>6. Rewired(0, channels[0], files2, Untouched(AllWiring(channels, filePlayers), left))
        = AllWiring(channels, files2)
    BY <2>5, RewiredIs
  <2> QED BY <1>1, <1>4, <2>6
<1>5. CASE 0 \notin DOMAIN channels
  <2>1. DropsOnly(channels, filePlayers, 0, left)
    BY <1>2, <1>3, <1>5 DEF DropsOnly
  <2>2. ASSUME NEW k
        PROVE  k \in Untouched(AllWiring(channels, filePlayers), left)
               <=> k \in AllWiring(channels, files2)
    <3>1. k \in Untouched(AllWiring(channels, filePlayers), left)
          <=> \E c \in DOMAIN channels \ {0} : k \in Wiring(c, channels[c], filePlayers)
      BY <2>1, BooksWirable, DropsOneChannel
    <3>2. k \in AllWiring(channels, files2)
          <=> \E c \in DOMAIN channels : k \in Wiring(c, channels[c], files2)
      BY AllWiringIs
    <3> QED BY <1>3, <1>5, <3>1, <3>2
  <2>3. Untouched(AllWiring(channels, filePlayers), left) = AllWiring(channels, files2)
    BY <2>2 DEF Untouched
  <2> QED BY <1>1, <1>5, <2>3
<1> QED BY <1>4, <1>5

LEMMA FilesKeepBooks ==
    ASSUME IInv, UNCHANGED <<nextSlotId, slots, channels, windows, announced>>,
           nextAudioId' \in 1..(MaxPlayers + 1), filePlayers' \subseteq 1..(nextAudioId' - 1),
           nodes' = (nodes \ {FileNode(a) : a \in filePlayers})
                    \cup {FileNode(a) : a \in filePlayers'},
           cables' = AllWiring(channels, filePlayers')
    PROVE  IInv'
PROOF
<1>1. TypeOK'
  BY DEF IInv, TypeOK
<1>2. ChainsMatchSlots' /\ InstrumentsFiltered' /\ SlotsAccountedFor'
  <2>1. ChainsMatchSlots'
    BY DEF IInv, ChainsMatchSlots
  <2>2. InstrumentsFiltered'
    BY DEF IInv, InstrumentsFiltered
  <2>3. SlotsAccountedFor'
    BY DEF IInv, SlotsAccountedFor
  <2> QED BY <2>1, <2>2, <2>3
<1>3. NodesAccountedFor'
  <2> DEFINE filtered == {c \in DOMAIN channels : channels[c].hasFilter}
             rest == Permanent \cup {SlotNode(s) : s \in DOMAIN slots}
                     \cup {FilterNode(c) : c \in filtered}
  <2>1. nodes = rest \cup {FileNode(a) : a \in filePlayers}
    BY DEF IInv, NodesAccountedFor
  <2>2. rest \cap {FileNode(a) : a \in filePlayers} = {}
    <3> HIDE DEF filtered
    <3> QED BY NodesDiffer
  <2>3. nodes' = rest \cup {FileNode(a) : a \in filePlayers'}
    <3> HIDE DEF rest
    <3> QED BY <2>1, <2>2
  <2> QED BY <2>3 DEF NodesAccountedFor
<1>4. CablesAreWiring'
  BY DEF CablesAreWiring
<1> QED BY <1>1, <1>2, <1>3, <1>4 DEF IInv

LEMMA PlayAudioFileInv == ASSUME IInv, PlayAudioFile PROVE IInv'
PROOF
<1>1. /\ nextAudioId =< MaxPlayers /\ nextAudioId' = nextAudioId + 1
      /\ filePlayers' = filePlayers \cup {nextAudioId}
      /\ nodes' = nodes \cup {FileNode(nextAudioId)}
      /\ RewireChannelZero(filePlayers', cables)
      /\ UNCHANGED <<nextSlotId, slots, channels, windows, announced>>
  BY DEF PlayAudioFile
<1>2. /\ MaxPlayers \in Nat /\ nextAudioId \in 1..(MaxPlayers + 1)
      /\ filePlayers \subseteq 1..(nextAudioId - 1)
  BY GraphAssumption DEF IInv, TypeOK
<1>3. nextAudioId' \in 1..(MaxPlayers + 1) /\ filePlayers' \subseteq 1..(nextAudioId' - 1)
  <2>1. nextAudioId + 1 \in 1..(MaxPlayers + 1) /\ nextAudioId \in 1..(nextAudioId + 1 - 1)
        /\ 1..(nextAudioId - 1) \subseteq 1..(nextAudioId + 1 - 1)
    BY <1>1, <1>2
  <2> QED BY <1>1, <1>2, <2>1
<1>4. nodes' = (nodes \ {FileNode(a) : a \in filePlayers}) \cup {FileNode(a) : a \in filePlayers'}
  <2>1. {FileNode(a) : a \in filePlayers} \subseteq nodes
    BY DEF IInv, NodesAccountedFor
  <2>2. {FileNode(a) : a \in filePlayers'}
        = {FileNode(a) : a \in filePlayers} \cup {FileNode(nextAudioId)}
    BY <1>1
  <2> QED BY <1>1, <2>1, <2>2
<1>5. cables' = AllWiring(channels, filePlayers')
  <2>1. Untouched(cables, {}) = cables
    BY DEF Untouched
  <2>2. cables' = IF 0 \in DOMAIN channels
                  THEN Rewired(0, channels[0], filePlayers', Untouched(cables, {}))
                  ELSE Untouched(cables, {})
    BY <1>1, <2>1 DEF RewireChannelZero
  <2>3. \A a \in filePlayers : a \in filePlayers'
    BY <1>1
  <2> QED BY <2>2, <2>3, FilesRewired
<1> QED BY <1>1, <1>3, <1>4, <1>5, FilesKeepBooks

LEMMA StopAudioInv == ASSUME IInv, NEW a \in AudioIds, StopAudio(a) PROVE IInv'
PROOF
<1>1. /\ a \in filePlayers /\ nextAudioId' = nextAudioId
      /\ filePlayers' = filePlayers \ {a}
      /\ nodes' = nodes \ {FileNode(a)}
      /\ RewireChannelZero(filePlayers', Untouched(cables, {FileNode(a)}))
      /\ UNCHANGED <<nextSlotId, slots, channels, windows, announced>>
  BY DEF StopAudio
<1>2. nextAudioId' \in 1..(MaxPlayers + 1) /\ filePlayers' \subseteq 1..(nextAudioId' - 1)
  BY <1>1 DEF IInv, TypeOK
<1>3. nodes' = (nodes \ {FileNode(b) : b \in filePlayers}) \cup {FileNode(b) : b \in filePlayers'}
  <2>1. {FileNode(b) : b \in filePlayers} \subseteq nodes
    BY DEF IInv, NodesAccountedFor
  <2>2. {FileNode(b) : b \in filePlayers'}
        = {FileNode(b) : b \in filePlayers} \ {FileNode(a)}
    BY <1>1, NodesDiffer
  <2>3. FileNode(a) \in {FileNode(b) : b \in filePlayers}
    BY <1>1
  <2> QED BY <1>1, <2>1, <2>2, <2>3
<1>4. cables' = AllWiring(channels, filePlayers')
  <2>1. cables' = IF 0 \in DOMAIN channels
                  THEN Rewired(0, channels[0], filePlayers', Untouched(cables, {FileNode(a)}))
                  ELSE Untouched(cables, {FileNode(a)})
    BY <1>1 DEF RewireChannelZero
  <2>2. \A b \in filePlayers : b \in filePlayers' \/ FileNode(b) \in {FileNode(a)}
    BY <1>1
  <2>3. {FileNode(a)} \subseteq {FileNode(b) : b \in filePlayers}
    BY <1>1
  <2> QED BY <2>1, <2>2, <2>3, FilesRewired
<1> QED BY <1>1, <1>2, <1>3, <1>4, FilesKeepBooks

-----------------------------------------------------------------------------
\* The inductive invariant holds.

LEMMA InitInv == Init => IInv
PROOF
<1> SUFFICES ASSUME Init PROVE IInv
  OBVIOUS
<1> USE DEF Init
<1>1. DOMAIN slots = {} /\ DOMAIN channels = {} /\ DOMAIN windows = {}
  OBVIOUS
<1>2. TypeOK
  BY <1>1, GraphAssumption DEF TypeOK
<1>3. ChainsMatchSlots /\ InstrumentsFiltered
  BY <1>1 DEF ChainsMatchSlots, InstrumentsFiltered
<1>4. NodesAccountedFor
  <2>1. {c \in DOMAIN channels : channels[c].hasFilter} = {}
    BY <1>1
  <2> QED BY <1>1, <2>1 DEF NodesAccountedFor
<1>5. CablesAreWiring
  BY <1>1 DEF CablesAreWiring, AllWiring
<1>6. SlotsAccountedFor
  BY <1>1 DEF SlotsAccountedFor
<1> QED BY <1>2, <1>3, <1>4, <1>5, <1>6 DEF IInv

LEMMA RechainedInv ==
    ASSUME IInv, NEW ch, NEW chain, NEW gone, NEW new, Rechained(ch, chain, gone, new)
    PROVE  IInv'
PROOF
  BY RechainedTypes, RechainedFits, RechainedNodes, RechainedAnnounces, RechainedCables DEF IInv

LEMMA TornInv == ASSUME IInv, NEW ch, Torn(ch) PROVE IInv'
PROOF
  BY TornTypes, TornFits, TornNodes, TornAnnounces, TornCables DEF IInv

LEMMA SetPluginActiveInv ==
    ASSUME IInv, NEW s \in SlotIds, NEW active \in BOOLEAN, SetPluginActive(s, active)
    PROVE  IInv'
PROOF
<1>1. /\ s \in DOMAIN slots /\ slots' = [slots EXCEPT ![s].active = active]
      /\ UNCHANGED <<nextSlotId, nextAudioId, channels, filePlayers, nodes, cables,
                     windows, announced>>
  BY DEF SetPluginActive
<1>2. \A r \in DOMAIN slots : slots[r] \in SlotInfo
  BY DEF IInv, TypeOK
<1>3. /\ DOMAIN slots' = DOMAIN slots
      /\ \A r \in DOMAIN slots : r # s => slots'[r] = slots[r]
      /\ slots'[s] = [slots[s] EXCEPT !.active = active]
  BY <1>1
<1>4. /\ slots'[s] \in SlotInfo /\ slots'[s].channelIdx = slots[s].channelIdx
      /\ slots'[s].kind = slots[s].kind
  BY <1>1, <1>2, <1>3 DEF SlotInfo
<1>5. \A r \in DOMAIN slots : /\ slots'[r] \in SlotInfo
                              /\ slots'[r].channelIdx = slots[r].channelIdx
                              /\ slots'[r].kind = slots[r].kind
  BY <1>2, <1>3, <1>4
<1>6. TypeOK'
  BY <1>1, <1>3, <1>5 DEF IInv, TypeOK
<1>7. ChainsMatchSlots'
  BY <1>1, <1>3, <1>5 DEF IInv, ChainsMatchSlots
<1>8. InstrumentsFiltered' /\ CablesAreWiring'
  BY <1>1 DEF IInv, InstrumentsFiltered, CablesAreWiring
<1>9. NodesAccountedFor' /\ SlotsAccountedFor'
  BY <1>1, <1>3 DEF IInv, NodesAccountedFor, SlotsAccountedFor
<1> QED BY <1>6, <1>7, <1>8, <1>9 DEF IInv

\* A window opens or hides.
LEMMA WindowsInv ==
    ASSUME IInv, UNCHANGED <<nextSlotId, nextAudioId, slots, channels, filePlayers, nodes,
                             cables, announced>>,
           DOMAIN windows' \subseteq DOMAIN windows \cup DOMAIN slots,
           \A s \in DOMAIN windows' : windows'[s] \in BOOLEAN
    PROVE  IInv'
PROOF
<1>1. DOMAIN slots \subseteq SlotIds
  BY GraphAssumption DEF IInv, TypeOK, SlotIds
<1>2. DOMAIN windows \subseteq DOMAIN slots
  BY DEF IInv, SlotsAccountedFor
<1>3. TypeOK'
  BY <1>1, <1>2 DEF IInv, TypeOK
<1>4. ChainsMatchSlots'
  BY DEF IInv, ChainsMatchSlots
<1>5. InstrumentsFiltered' /\ CablesAreWiring' /\ NodesAccountedFor'
  BY DEF IInv, InstrumentsFiltered, CablesAreWiring, NodesAccountedFor
<1>6. SlotsAccountedFor'
  BY <1>2 DEF IInv, SlotsAccountedFor
<1> QED BY <1>3, <1>4, <1>5, <1>6 DEF IInv

LEMMA ShowPluginUiInv == ASSUME IInv, NEW s \in SlotIds, ShowPluginUi(s) PROVE IInv'
PROOF
<1>1. s \in DOMAIN slots /\ windows' = With(windows, s, TRUE)
      /\ UNCHANGED <<nextSlotId, nextAudioId, slots, channels, filePlayers, nodes,
                     cables, announced>>
  BY DEF ShowPluginUi
<1>2. \A r \in DOMAIN windows : windows[r] \in BOOLEAN
  BY DEF IInv, TypeOK
<1>3. DOMAIN windows' = DOMAIN windows \cup {s}
      /\ \A r \in DOMAIN windows' : windows'[r] \in BOOLEAN
  BY <1>1, <1>2 DEF With
<1> QED BY <1>1, <1>3, WindowsInv

LEMMA ClosePluginUiInv == ASSUME IInv, NEW s \in SlotIds, ClosePluginUi(s) PROVE IInv'
PROOF
<1>1. s \in DOMAIN windows /\ windows' = [windows EXCEPT ![s] = FALSE]
      /\ UNCHANGED <<nextSlotId, nextAudioId, slots, channels, filePlayers, nodes,
                     cables, announced>>
  BY DEF ClosePluginUi
<1>2. \A r \in DOMAIN windows : windows[r] \in BOOLEAN
  BY DEF IInv, TypeOK
<1>3. DOMAIN windows' = DOMAIN windows
      /\ \A r \in DOMAIN windows' : windows'[r] \in BOOLEAN
  BY <1>1, <1>2
<1> QED BY <1>1, <1>3, WindowsInv

LEMMA UnchangedInv == ASSUME IInv, UNCHANGED vars PROVE IInv'
PROOF
<1> USE DEF vars
<1>1. TypeOK' /\ SlotsAccountedFor'
  BY DEF IInv, TypeOK, SlotsAccountedFor
<1>2. ChainsMatchSlots' /\ InstrumentsFiltered'
  BY DEF IInv, ChainsMatchSlots, InstrumentsFiltered
<1>3. NodesAccountedFor' /\ CablesAreWiring'
  BY DEF IInv, NodesAccountedFor, CablesAreWiring
<1> QED BY <1>1, <1>2, <1>3 DEF IInv

\* What a step can be, to the books.
LEMMA Steps ==
    ASSUME IInv, Next
    PROVE  \/ \E ch, chain, gone, new : Rechained(ch, chain, gone, new)
           \/ \E ch : Torn(ch)
           \/ \E s \in SlotIds, active \in BOOLEAN : SetPluginActive(s, active)
           \/ \E s \in SlotIds : ShowPluginUi(s) \/ ClosePluginUi(s)
           \/ PlayAudioFile
           \/ \E a \in AudioIds : StopAudio(a)
           \/ UNCHANGED vars
PROOF
<1>1. CASE \E ch \in Channels : LoadPlugin(ch)
  BY <1>1, LoadInstrumentRechains DEF LoadPlugin
<1>2. CASE 0 \in Channels /\ LoadPhobosSynth
  BY <1>2, LoadInstrumentRechains DEF LoadPhobosSynth
<1>3. CASE \E ch \in Channels, i \in FxIndices : LoadFx(ch, i)
  BY <1>3, LoadFxRechains
<1>4. CASE \E s \in SlotIds : UnloadPlugin(s)
  BY <1>4, UnloadPluginCases
<1>5. CASE \E s \in SlotIds, i \in FxIndices : ReorderFx(s, i)
  BY <1>5, ReorderFxRechains
<1>6. CASE \E s \in SlotIds : UnknownSlot(s)
  BY <1>6 DEF UnknownSlot
<1>7. CASE \E a \in AudioIds : UnknownAudio(a)
  BY <1>7 DEF UnknownAudio
<1> QED BY <1>1, <1>2, <1>3, <1>4, <1>5, <1>6, <1>7 DEF Next

LEMMA NextInv == ASSUME IInv, [Next]_vars PROVE IInv'
PROOF
<1>1. CASE UNCHANGED vars
  BY <1>1, UnchangedInv
<1>2. CASE \E ch, chain, gone, new : Rechained(ch, chain, gone, new)
  BY <1>2, RechainedInv
<1>3. CASE \E ch : Torn(ch)
  BY <1>3, TornInv
<1>4. CASE \E s \in SlotIds, active \in BOOLEAN : SetPluginActive(s, active)
  BY <1>4, SetPluginActiveInv
<1>5. CASE \E s \in SlotIds : ShowPluginUi(s) \/ ClosePluginUi(s)
  BY <1>5, ShowPluginUiInv, ClosePluginUiInv
<1>6. CASE PlayAudioFile
  BY <1>6, PlayAudioFileInv
<1>7. CASE \E a \in AudioIds : StopAudio(a)
  BY <1>7, StopAudioInv
<1> QED BY <1>1, <1>2, <1>3, <1>4, <1>5, <1>6, <1>7, Steps

LEMMA Invariance == Spec => []IInv
PROOF
<1>1. IInv /\ [Next]_vars => IInv'
  BY NextInv
<1> QED BY <1>1, InitInv, PTL DEF Spec

-----------------------------------------------------------------------------
\* What it implies.

LEMMA CableOf ==
    ASSUME IInv, NEW k
    PROVE  k \in cables <=> \E ch \in DOMAIN channels :
               \/ k \in MidiWiring(ch, channels[ch])
               \/ OnPath(ch, channels[ch], k)
               \/ IntoSum(ch, channels[ch], filePlayers, k)
PROOF
<1>1. k \in cables <=> \E ch \in DOMAIN channels : k \in Wiring(ch, channels[ch], filePlayers)
  BY AllWiringIs DEF IInv, CablesAreWiring
<1>2. ASSUME NEW ch \in DOMAIN channels
      PROVE  k \in AudioWiring(ch, channels[ch], filePlayers)
             <=> OnPath(ch, channels[ch], k) \/ IntoSum(ch, channels[ch], filePlayers, k)
  <2>1. channels[ch] \in ChannelChain
    BY DEF IInv, TypeOK
  <2> QED BY <2>1, AudioWiringIs
<1> QED BY <1>1, <1>2 DEF Wiring

LEMMA CableEnds ==
    ASSUME IInv, NEW k \in cables
    PROVE  k.src \in nodes /\ k.dst \in nodes
PROOF
<1>1. PICK ch \in DOMAIN channels : k \in Wiring(ch, channels[ch], filePlayers)
  BY AllWiringIs DEF IInv, CablesAreWiring
<1> DEFINE own == NodesInChannel(ch, channels[ch], filePlayers)
<1>2. /\ k.src \in own \/ (k.src \in {MidiInput, Scheduler} /\ k.dst \in own)
      /\ k.dst \in own \cup {AudioOutput}
  <2>1. channels[ch] \in ChannelChain
        /\ (channels[ch].instrumentSlot # None => channels[ch].hasFilter)
    BY BooksWirable DEF Wirable
  <2> QED BY <1>1, <2>1, WiringEnds
<1>3. {MidiInput, Scheduler, AudioOutput, AudioSum} \subseteq nodes
  BY DEF IInv, NodesAccountedFor, Permanent
<1>4. ASSUME NEW n \in own PROVE n \in nodes
  <2>1. \A s \in Plugins(channels[ch]) : s \in DOMAIN slots
    BY PluginsOf
  <2>2. /\ \A s \in DOMAIN slots : SlotNode(s) \in nodes
        /\ channels[ch].hasFilter => FilterNode(ch) \in nodes
        /\ \A a \in filePlayers : FileNode(a) \in nodes
    BY DEF IInv, NodesAccountedFor
  <2> QED BY <1>3, <2>1, <2>2, OwnNodes
<1> QED BY <1>2, <1>3, <1>4

LEMMA IInvGraph == IInv => GraphMatchesBooks
PROOF
<1> SUFFICES ASSUME IInv PROVE GraphMatchesBooks
  OBVIOUS
<1>1. \A k \in cables : k.src \in nodes /\ k.dst \in nodes
  BY CableEnds
<1>2. \A ch \in DOMAIN channels : channels[ch].instrumentSlot # None => channels[ch].hasFilter
  BY DEF IInv, InstrumentsFiltered
<1>3. nodes = Permanent \cup {SlotNode(s) : s \in DOMAIN slots}
              \cup {FilterNode(ch) : ch \in {c \in DOMAIN channels : channels[c].hasFilter}}
              \cup {FileNode(a) : a \in filePlayers}
  BY DEF IInv, NodesAccountedFor
<1> QED BY <1>1, <1>2, <1>3 DEF GraphMatchesBooks

-----------------------------------------------------------------------------
\* Audio.

\* The tail of a channel that is fed is the node After counts from.
LEMMA TailIs ==
    ASSUME IInv, NEW ch \in DOMAIN channels
    PROVE  /\ Fed(ch) => AudioTail(ch, channels[ch]) = {After(ch, 0)}
           /\ ~Fed(ch) => AudioTail(ch, channels[ch]) = {}
PROOF
  BY DEF AudioTail, Fed, After, InstrumentOf

\* The audio cables of a channel's path, in the terms of After.
LEMMA PathCables ==
    ASSUME IInv, NEW ch \in DOMAIN channels, NEW k
    PROVE  LET fx == channels[ch].fxSlots
           IN  /\ Len(fx) \in Nat /\ DOMAIN fx = 1..Len(fx)
               /\ OnPath(ch, channels[ch], k) <=>
                      /\ Fed(ch)
                      /\ \/ \E i \in DOMAIN fx :
                                k = Cable(After(ch, i - 1), SlotNode(fx[i]), "audio")
                         \/ k = Cable(After(ch, Len(fx)), AudioOutput, "audio")
PROOF
<1> DEFINE fx == channels[ch].fxSlots
<1>1. fx \in Seq(SlotIds) /\ Len(fx) \in Nat /\ DOMAIN fx = 1..Len(fx)
  BY DEF IInv, TypeOK, ChannelChain
<1>2. OnPath(ch, channels[ch], k) <=>
          \E tail \in AudioTail(ch, channels[ch]), i \in 1..(Len(fx) + 1) :
              k = Cable(PathNode(tail, fx, i - 1), PathNode(tail, fx, i), "audio")
  BY DEF OnPath
<1> HIDE DEF fx
<1>3. CASE ~Fed(ch)
  BY <1>1, <1>2, <1>3, TailIs DEF fx
<1>4. CASE Fed(ch)
  <2> DEFINE tail == After(ch, 0)
  <2>1. OnPath(ch, channels[ch], k) <=>
            \E i \in 1..(Len(fx) + 1) :
                k = Cable(PathNode(tail, fx, i - 1), PathNode(tail, fx, i), "audio")
    BY <1>2, <1>4, TailIs
  <2>2. ASSUME NEW i \in 0..Len(fx) PROVE PathNode(tail, fx, i) = After(ch, i)
    BY <1>1 DEF PathNode, After, fx
  <2> HIDE DEF tail
  <2>3. ASSUME NEW i \in 1..Len(fx)
        PROVE  PathNode(tail, fx, i) = SlotNode(fx[i]) /\ PathNode(tail, fx, i - 1) = After(ch, i - 1)
    <3>1. i - 1 \in 0..Len(fx) /\ i # 0 /\ i <= Len(fx)
      BY <1>1
    <3> QED BY <2>2, <3>1 DEF PathNode
  <2>4. /\ PathNode(tail, fx, Len(fx) + 1) = AudioOutput
        /\ PathNode(tail, fx, Len(fx) + 1 - 1) = After(ch, Len(fx))
    <3>1. Len(fx) + 1 # 0 /\ ~(Len(fx) + 1 <= Len(fx)) /\ Len(fx) + 1 - 1 = Len(fx)
          /\ Len(fx) \in 0..Len(fx)
      BY <1>1
    <3> QED BY <2>2, <3>1 DEF PathNode
  <2>5. \A i : i \in 1..(Len(fx) + 1) <=> i \in 1..Len(fx) \/ i = Len(fx) + 1
    BY <1>1
  <2>6. OnPath(ch, channels[ch], k) <=>
            \/ \E i \in 1..Len(fx) : k = Cable(After(ch, i - 1), SlotNode(fx[i]), "audio")
            \/ k = Cable(After(ch, Len(fx)), AudioOutput, "audio")
    <3> HIDE DEF tail
    <3>1. OnPath(ch, channels[ch], k) <=>
            \/ \E i \in 1..Len(fx) :
                  k = Cable(PathNode(tail, fx, i - 1), PathNode(tail, fx, i), "audio")
            \/ k = Cable(PathNode(tail, fx, Len(fx) + 1 - 1), PathNode(tail, fx, Len(fx) + 1), "audio")
      BY <2>1, <2>5
    <3> QED BY <2>3, <2>4, <3>1
  <2> QED BY <1>1, <1>4, <2>6 DEF fx
<1> QED BY <1>3, <1>4

\* Every audio cable there is.
LEMMA AudioCables ==
    ASSUME IInv, NEW k
    PROVE  k \in cables /\ k.type = "audio" <=>
               \/ \E ch \in DOMAIN channels : OnPath(ch, channels[ch], k)
               \/ 0 \in DOMAIN channels /\ IntoSum(0, channels[0], filePlayers, k)
PROOF
<1>1. ASSUME NEW ch \in DOMAIN channels, k \in MidiWiring(ch, channels[ch]) PROVE k.type = "midi"
  BY <1>1, MidiWiringIs DEF IInv, InstrumentsFiltered, Cable
<1>2. ASSUME NEW ch \in DOMAIN channels, OnPath(ch, channels[ch], k) PROVE k.type = "audio"
  BY <1>2 DEF OnPath, Cable
<1>3. ASSUME NEW ch \in DOMAIN channels, IntoSum(ch, channels[ch], filePlayers, k)
      PROVE  k.type = "audio" /\ ch = 0
  BY <1>3 DEF IntoSum, Cable
<1>4. k \in cables <=> \E ch \in DOMAIN channels :
               \/ k \in MidiWiring(ch, channels[ch])
               \/ OnPath(ch, channels[ch], k)
               \/ IntoSum(ch, channels[ch], filePlayers, k)
  BY CableOf
<1> QED BY <1>1, <1>2, <1>3, <1>4

LEMMA IntoIs ==
    ASSUME NEW n, NEW x
    PROVE  x \in AudioInto(n) <=> \E k \in cables : k.type = "audio" /\ k.dst = n /\ k.src = x
PROOF
  BY DEF AudioInto

\* An effect has one channel and one place in it.
LEMMA FxPlace ==
    ASSUME IInv, NEW c \in DOMAIN channels, NEW d \in DOMAIN channels,
           NEW i \in DOMAIN channels[c].fxSlots, NEW j \in DOMAIN channels[d].fxSlots
    PROVE  /\ channels[c].fxSlots[i] = channels[d].fxSlots[j] => c = d /\ i = j
           /\ channels[c].fxSlots[i] \in DOMAIN slots
           /\ slots[channels[c].fxSlots[i]].kind = "Fx"
PROOF
<1>1. ChainFits(c, channels[c], slots) /\ ChainFits(d, channels[d], slots)
  BY BooksFit DEF IInv, AllFit
<1>2. channels[c].fxSlots[i] \in Range(channels[c].fxSlots)
      /\ channels[d].fxSlots[j] \in Range(channels[d].fxSlots)
  BY DEF Range
<1> QED BY <1>1, <1>2 DEF ChainFits, IsInjective

LEMMA IntoEffect ==
    ASSUME IInv, NEW ch \in DOMAIN channels, NEW i \in DOMAIN channels[ch].fxSlots
    PROVE  AudioInto(SlotNode(channels[ch].fxSlots[i]))
           = IF Fed(ch) THEN {After(ch, i - 1)} ELSE {}
PROOF
<1> DEFINE n == SlotNode(channels[ch].fxSlots[i])
<1>1. AudioSum \in Permanent /\ AudioOutput \in Permanent
  BY DEF Permanent
<1>2. ASSUME NEW x, x \in AudioInto(n) PROVE Fed(ch) /\ x = After(ch, i - 1)
  <2>1. PICK k \in cables : k.type = "audio" /\ k.dst = n /\ k.src = x
    BY <1>2, IntoIs
  <2>2. ~ IntoSum(0, channels[0], filePlayers, k)
    BY <1>1, <2>1, NodesDiffer DEF IntoSum, Cable
  <2>3. PICK c \in DOMAIN channels : OnPath(c, channels[c], k)
    BY <2>1, <2>2, AudioCables
  <2>4. Fed(c) /\ \/ \E j \in DOMAIN channels[c].fxSlots :
                         k = Cable(After(c, j - 1), SlotNode(channels[c].fxSlots[j]), "audio")
                  \/ k = Cable(After(c, Len(channels[c].fxSlots)), AudioOutput, "audio")
    BY <2>3, PathCables
  <2>5. PICK j \in DOMAIN channels[c].fxSlots :
            k = Cable(After(c, j - 1), SlotNode(channels[c].fxSlots[j]), "audio")
    BY <1>1, <2>1, <2>4, NodesDiffer DEF Cable
  <2>6. SlotNode(channels[c].fxSlots[j]) = n /\ After(c, j - 1) = x
    BY <2>1, <2>5 DEF Cable
  <2>7. c = ch /\ j = i
    BY <2>6, NodesDiffer, FxPlace
  <2> QED BY <2>4, <2>6, <2>7
<1>3. ASSUME Fed(ch) PROVE After(ch, i - 1) \in AudioInto(n)
  <2> DEFINE k == Cable(After(ch, i - 1), n, "audio")
  <2>1. OnPath(ch, channels[ch], k)
    BY <1>3, PathCables
  <2>2. k \in cables /\ k.type = "audio"
    BY <2>1, AudioCables
  <2>3. k.dst = n /\ k.src = After(ch, i - 1)
    BY DEF Cable
  <2> QED BY <2>2, <2>3, IntoIs
<1> HIDE DEF n
<1> QED BY <1>2, <1>3 DEF n

LEMMA IntoOutput ==
    ASSUME IInv
    PROVE  AudioInto(AudioOutput) = {After(ch, Len(channels[ch].fxSlots)) :
                                        ch \in {c \in DOMAIN channels : Fed(c)}}
PROOF
<1> DEFINE ends == {After(ch, Len(channels[ch].fxSlots)) : ch \in {c \in DOMAIN channels : Fed(c)}}
<1>1. AudioOutput \in Permanent
  BY DEF Permanent
<1>2. ASSUME NEW x, x \in AudioInto(AudioOutput) PROVE x \in ends
  <2>1. PICK k \in cables : k.type = "audio" /\ k.dst = AudioOutput /\ k.src = x
    BY <1>2, IntoIs
  <2>2. ~ IntoSum(0, channels[0], filePlayers, k)
    BY <2>1, NodesDiffer DEF IntoSum, Cable
  <2>3. PICK c \in DOMAIN channels : OnPath(c, channels[c], k)
    BY <2>1, <2>2, AudioCables
  <2>4. Fed(c) /\ \/ \E j \in DOMAIN channels[c].fxSlots :
                         k = Cable(After(c, j - 1), SlotNode(channels[c].fxSlots[j]), "audio")
                  \/ k = Cable(After(c, Len(channels[c].fxSlots)), AudioOutput, "audio")
    BY <2>3, PathCables
  <2>5. k = Cable(After(c, Len(channels[c].fxSlots)), AudioOutput, "audio")
    BY <1>1, <2>1, <2>4, NodesDiffer DEF Cable
  <2>6. x = After(c, Len(channels[c].fxSlots))
    BY <2>1, <2>5 DEF Cable
  <2> QED BY <2>4, <2>6
<1>3. ASSUME NEW ch \in DOMAIN channels, Fed(ch)
      PROVE  After(ch, Len(channels[ch].fxSlots)) \in AudioInto(AudioOutput)
  <2> DEFINE last == After(ch, Len(channels[ch].fxSlots))
             k == Cable(last, AudioOutput, "audio")
  <2>1. OnPath(ch, channels[ch], k)
    BY <1>3, PathCables
  <2>2. k \in cables /\ k.type = "audio"
    BY <2>1, AudioCables
  <2>3. k.dst = AudioOutput /\ k.src = last
    BY DEF Cable
  <2> QED BY <2>2, <2>3, IntoIs
<1> QED BY <1>2, <1>3

LEMMA IntoTheSum ==
    ASSUME IInv, 0 \in DOMAIN channels
    PROVE  AudioInto(AudioSum) = {SlotNode(s) : s \in InstrumentOf(channels[0])}
                                 \cup {FileNode(a) : a \in filePlayers}
PROOF
<1> DEFINE summed == Summed(channels[0], filePlayers)
<1>1. AudioSum \in Permanent
  BY DEF Permanent
<1>2. ASSUME NEW x, x \in AudioInto(AudioSum) PROVE x \in summed
  <2>1. PICK k \in cables : k.type = "audio" /\ k.dst = AudioSum /\ k.src = x
    BY <1>2, IntoIs
  <2>2. ASSUME NEW c \in DOMAIN channels PROVE ~ OnPath(c, channels[c], k)
    <3>1. SUFFICES ASSUME OnPath(c, channels[c], k) PROVE FALSE
      OBVIOUS
    <3>2. \/ \E j \in DOMAIN channels[c].fxSlots :
                 k = Cable(After(c, j - 1), SlotNode(channels[c].fxSlots[j]), "audio")
          \/ k = Cable(After(c, Len(channels[c].fxSlots)), AudioOutput, "audio")
      BY <3>1, PathCables
    <3> QED BY <1>1, <2>1, <3>2, NodesDiffer DEF Cable
  <2>3. IntoSum(0, channels[0], filePlayers, k)
    BY <2>1, <2>2, AudioCables
  <2>4. PICK n \in summed : k = Cable(n, AudioSum, "audio")
    BY <2>3 DEF IntoSum
  <2> QED BY <2>1, <2>4 DEF Cable
<1>3. ASSUME NEW n \in summed PROVE n \in AudioInto(AudioSum)
  <2> DEFINE k == Cable(n, AudioSum, "audio")
  <2>1. IntoSum(0, channels[0], filePlayers, k)
    BY DEF IntoSum
  <2>2. k \in cables /\ k.type = "audio"
    BY <2>1, AudioCables
  <2>3. k.dst = AudioSum /\ k.src = n
    BY DEF Cable
  <2> QED BY <2>2, <2>3, IntoIs
<1> HIDE DEF summed
<1>4. AudioInto(AudioSum) = summed
  BY <1>2, <1>3
<1> QED BY <1>4 DEF summed, Summed

LEMMA IInvAudio == IInv => AudioPath
PROOF
<1> SUFFICES ASSUME IInv PROVE AudioPath
  OBVIOUS
<1>1. ASSUME NEW k \in cables, k.type = "audio"
      PROVE  \/ k.dst \in {AudioSum, AudioOutput}
             \/ \E s \in DOMAIN slots : slots[s].kind = "Fx" /\ k.dst = SlotNode(s)
  <2>1. CASE 0 \in DOMAIN channels /\ IntoSum(0, channels[0], filePlayers, k)
    BY <2>1 DEF IntoSum, Cable
  <2>2. CASE \E ch \in DOMAIN channels : OnPath(ch, channels[ch], k)
    <3>1. PICK c \in DOMAIN channels : OnPath(c, channels[c], k)
      BY <2>2
    <3>2. \/ \E j \in DOMAIN channels[c].fxSlots :
                 k = Cable(After(c, j - 1), SlotNode(channels[c].fxSlots[j]), "audio")
          \/ k = Cable(After(c, Len(channels[c].fxSlots)), AudioOutput, "audio")
      BY <3>1, PathCables
    <3>3. CASE k = Cable(After(c, Len(channels[c].fxSlots)), AudioOutput, "audio")
      BY <3>3 DEF Cable
    <3>4. ASSUME NEW j \in DOMAIN channels[c].fxSlots,
                 k = Cable(After(c, j - 1), SlotNode(channels[c].fxSlots[j]), "audio")
          PROVE  \E s \in DOMAIN slots : slots[s].kind = "Fx" /\ k.dst = SlotNode(s)
      <4>1. /\ channels[c].fxSlots[j] \in DOMAIN slots
            /\ slots[channels[c].fxSlots[j]].kind = "Fx"
        BY FxPlace
      <4>2. k.dst = SlotNode(channels[c].fxSlots[j])
        BY <3>4 DEF Cable
      <4> QED BY <4>1, <4>2
    <3> QED BY <3>2, <3>3, <3>4
  <2> QED BY <1>1, <2>1, <2>2, AudioCables
<1>2. \A ch \in DOMAIN channels : \A i \in DOMAIN channels[ch].fxSlots :
          AudioInto(SlotNode(channels[ch].fxSlots[i])) = IF Fed(ch) THEN {After(ch, i - 1)} ELSE {}
  BY IntoEffect
<1>3. AudioInto(AudioOutput) = {After(ch, Len(channels[ch].fxSlots)) :
                                   ch \in {c \in DOMAIN channels : Fed(c)}}
  BY IntoOutput
<1>4. 0 \in DOMAIN channels =>
          AudioInto(AudioSum) = {SlotNode(s) : s \in InstrumentOf(channels[0])}
                                \cup {FileNode(a) : a \in filePlayers}
  BY IntoTheSum
<1> QED BY <1>1, <1>2, <1>3, <1>4 DEF AudioPath

-----------------------------------------------------------------------------
\* MIDI.

LEMMA MidiCables ==
    ASSUME IInv, NEW a, NEW b
    PROVE  Cable(a, b, "midi") \in cables <=> \E ch \in DOMAIN channels :
               /\ channels[ch].instrumentSlot # None
               /\ \/ a \in {MidiInput, Scheduler} /\ b = FilterNode(ch)
                  \/ a = FilterNode(ch) /\ b = SlotNode(channels[ch].instrumentSlot)
PROOF
<1> DEFINE k == Cable(a, b, "midi")
<1>1. k.type # "audio"
  BY DEF Cable
<1>2. \A ch : ~ OnPath(ch, channels[ch], k) /\ ~ IntoSum(ch, channels[ch], filePlayers, k)
  BY DEF OnPath, IntoSum, Cable
<1>3. ASSUME NEW ch \in DOMAIN channels
      PROVE  k \in MidiWiring(ch, channels[ch]) <=>
                 /\ channels[ch].instrumentSlot # None
                 /\ \/ a \in {MidiInput, Scheduler} /\ b = FilterNode(ch)
                    \/ a = FilterNode(ch) /\ b = SlotNode(channels[ch].instrumentSlot)
  <2>1. channels[ch].instrumentSlot # None => channels[ch].hasFilter
    BY DEF IInv, InstrumentsFiltered
  <2>2. k \in MidiWiring(ch, channels[ch]) <=>
            /\ channels[ch].instrumentSlot # None
            /\ k \in {Cable(MidiInput, FilterNode(ch), "midi"),
                      Cable(Scheduler, FilterNode(ch), "midi"),
                      Cable(FilterNode(ch), SlotNode(channels[ch].instrumentSlot), "midi")}
    BY <2>1, MidiWiringIs
  <2> QED BY <2>2 DEF Cable
<1>4. k \in cables <=> \E ch \in DOMAIN channels : k \in MidiWiring(ch, channels[ch])
  BY <1>2, CableOf
<1> QED BY <1>3, <1>4

LEMMA IInvMidi ==
    ASSUME IInv
    PROVE  MidiReachesItsChannel
PROOF
<1> DEFINE Sent(ch, m) == ch + 1 = m \/ (m = 16 /\ ch >= 16)
<1> SUFFICES ASSUME NEW src \in {MidiInput, Scheduler}, NEW m \in 1..16, NEW s \in DOMAIN slots
             PROVE  Hears(src, m, s) <=> slots[s].kind = "Instrument"
                                         /\ Sent(slots[s].channelIdx, m)
  BY DEF MidiReachesItsChannel
<1>1. MidiInput \in Permanent /\ Scheduler \in Permanent
  BY DEF Permanent
<1>2. Cable(src, SlotNode(s), "midi") \notin cables
  BY <1>1, MidiCables, NodesDiffer
<1>3. ASSUME NEW ch
      PROVE  Cable(src, FilterNode(ch), "midi") \in cables
                 /\ Cable(FilterNode(ch), SlotNode(s), "midi") \in cables
             <=> ch \in DOMAIN channels /\ channels[ch].instrumentSlot # None
                 /\ channels[ch].instrumentSlot = s
  <2>1. Cable(src, FilterNode(ch), "midi") \in cables
        <=> ch \in DOMAIN channels /\ channels[ch].instrumentSlot # None
    BY <1>1, MidiCables, NodesDiffer
  <2>2. Cable(FilterNode(ch), SlotNode(s), "midi") \in cables
        <=> ch \in DOMAIN channels /\ channels[ch].instrumentSlot # None
            /\ channels[ch].instrumentSlot = s
    BY <1>1, MidiCables, NodesDiffer
  <2> QED BY <2>1, <2>2
<1>4. ASSUME NEW ch \in Channels PROVE FilterChannel(ch) = m <=> Sent(ch, m)
  <2>1. ch \in Nat
    BY GraphAssumption
  <2> QED BY <2>1 DEF FilterChannel
<1> HIDE DEF Sent
<1>5. Hears(src, m, s) <=> \E ch \in Channels :
          /\ Sent(ch, m) /\ ch \in DOMAIN channels
          /\ channels[ch].instrumentSlot # None /\ channels[ch].instrumentSlot = s
  BY <1>2, <1>3, <1>4 DEF Hears
<1>6. ASSUME NEW ch \in DOMAIN channels
      PROVE  channels[ch].instrumentSlot # None /\ channels[ch].instrumentSlot = s
             <=> slots[s].kind = "Instrument" /\ slots[s].channelIdx = ch
  <2>1. ChainFits(ch, channels[ch], slots)
    BY BooksFit DEF IInv, AllFit
  <2>2. s \in InstrumentOf(channels[ch])
        <=> channels[ch].instrumentSlot # None /\ channels[ch].instrumentSlot = s
    BY DEF InstrumentOf
  <2>3. Plugins(channels[ch]) = {r \in DOMAIN slots : slots[r].channelIdx = ch}
    BY PluginsOf
  <2>4. s \in Range(channels[ch].fxSlots) => slots[s].kind = "Fx"
    BY <2>1 DEF ChainFits
  <2>5. s \in InstrumentOf(channels[ch]) => slots[s].kind = "Instrument" /\ slots[s].channelIdx = ch
    BY <2>1 DEF ChainFits
  <2> QED BY <2>2, <2>3, <2>4, <2>5 DEF Plugins
<1>7. slots[s].channelIdx \in DOMAIN channels /\ slots[s].channelIdx \in Channels
  BY DEF IInv, ChainsMatchSlots, TypeOK
<1> QED BY <1>5, <1>6, <1>7

-----------------------------------------------------------------------------
\* The order of the effects.

LEMMA OrderKept ==
    ASSUME IInv, [Next]_vars
    PROVE  \A ch \in DOMAIN channels \cap DOMAIN channels' :
               OneMoves(channels[ch].fxSlots, channels'[ch].fxSlots)
PROOF
<1>1. CASE channels' = channels
  BY <1>1, SameFxOneMoves
<1>2. ASSUME NEW c, NEW chain, NEW gone, NEW new, Rechained(c, chain, gone, new),
             NEW ch \in DOMAIN channels \cap DOMAIN channels'
      PROVE  OneMoves(channels[ch].fxSlots, channels'[ch].fxSlots)
  <2>1. CASE ch = c
    <3>1. channels'[c] = chain
      BY <1>2, OtherChannels
    <3> QED BY <1>2, <2>1, <3>1 DEF Rechained
  <2>2. CASE ch # c
    <3>0. \A c2 \in DOMAIN channels \ {c} : channels'[c2] = channels[c2]
      BY <1>2, OtherChannels
    <3>1. channels'[ch] = channels[ch]
      BY <2>2, <3>0
    <3> QED BY <3>1, SameFxOneMoves
  <2> QED BY <2>1, <2>2
<1>3. ASSUME NEW c, Torn(c), NEW ch \in DOMAIN channels \cap DOMAIN channels'
      PROVE  OneMoves(channels[ch].fxSlots, channels'[ch].fxSlots)
  <2>1. channels'[ch] = channels[ch]
    BY <1>3, TornIs
  <2> QED BY <2>1, SameFxOneMoves
<1>4. \/ channels' = channels
      \/ \E c, chain, gone, new : Rechained(c, chain, gone, new)
      \/ \E c : Torn(c)
  BY Steps DEF vars, SetPluginActive, ShowPluginUi, ClosePluginUi, PlayAudioFile, StopAudio
<1> QED BY <1>1, <1>2, <1>3, <1>4

LEMMA LoadFxLands ==
    ASSUME IInv, NEW ch \in Channels, NEW i \in FxIndices, LoadFx(ch, i)
    PROVE  Landed(channels'[ch].fxSlots, nextSlotId, i)
PROOF
<1> DEFINE fx    == ChainFor(ch).fxSlots
           newFx == InsertAt(fx, Position(i, Len(fx)), nextSlotId)
           chain == [ChainFor(ch) EXCEPT !.fxSlots = newFx]
<1>1. nextSlotId \in SlotIds /\ i \in Int
  BY GraphAssumption DEF IInv, TypeOK, LoadFx, AddSlot, SlotIds
<1>2. ChainFor(ch) \in ChannelChain
  BY ChainForFits DEF IInv, ChainFits
<1>3. Landed(newFx, nextSlotId, i)
  BY <1>1, <1>2, InsertedLands DEF ChannelChain
<1>4. channels' = With(channels, ch, chain)
  BY DEF LoadFx
<1> HIDE DEF newFx
<1>5. chain.fxSlots = newFx
  BY <1>2 DEF ChannelChain
<1> HIDE DEF chain
<1>6. channels'[ch] = chain
  BY <1>4 DEF With
<1> QED BY <1>3, <1>5, <1>6

LEMMA ReorderFxLands ==
    ASSUME IInv, NEW s \in SlotIds, NEW i \in FxIndices, ReorderFx(s, i)
    PROVE  Landed(channels'[slots[s].channelIdx].fxSlots, s, i)
PROOF
<1> DEFINE ch    == slots[s].channelIdx
           fx    == channels[ch].fxSlots
           newFx == Moved(fx, s, i)
           chain == [channels[ch] EXCEPT !.fxSlots = newFx]
<1>1. s \in DOMAIN slots /\ slots[s].kind # "Instrument" /\ i \in Int
  BY GraphAssumption DEF ReorderFx
<1>2. channels[ch] \in ChannelChain /\ IsInjective(fx) /\ s \in Range(fx)
  BY <1>1, FxInItsChain DEF ChainFits
<1>3. fx \in Seq(SlotIds)
  BY <1>2 DEF ChannelChain
<1>4. RemoveFirst(fx, s) \in Seq(SlotIds)
  BY <1>2, <1>3, RemovedFx
<1>5. Landed(newFx, s, i)
  BY <1>1, <1>4, InsertedLands DEF Moved
<1>6. channels' = With(channels, ch, chain)
  BY DEF ReorderFx
<1> HIDE DEF newFx
<1>7. chain.fxSlots = newFx
  BY <1>2 DEF ChannelChain
<1> HIDE DEF chain
<1>8. channels'[ch] = chain
  BY <1>6 DEF With
<1> QED BY <1>5, <1>7, <1>8

-----------------------------------------------------------------------------
(* Theorems.                                                               *)

\* Every variable keeps its type, and ids in use are ids that addPluginNode
\* and playAudioFile handed out.
THEOREM GraphTypeCorrect == Spec => []TypeOK
PROOF
<1>1. IInv => TypeOK
  BY DEF IInv
<1> QED BY <1>1, Invariance, PTL

\* The slot map and the chains name the same plugins, each in its place once,
\* after any loads, replacements, unloads, teardowns and reorderings.
THEOREM BooksAgree == Spec => []ChainsMatchSlots
PROOF
<1>1. IInv => ChainsMatchSlots
  BY DEF IInv
<1> QED BY <1>1, Invariance, PTL

\* No op leaves a plugin, a filter or a file player in the graph that the books
\* do not name, or a connection to a node that has gone.
THEOREM GraphFollowsBooks == Spec => []GraphMatchesBooks
PROOF
  BY Invariance, IInvGraph, PTL

\* rewireChannel looks at one channel only, and yet the audio of every channel
\* passes its effects in their order to the output, whatever was done to others.
THEOREM AudioStaysWired == Spec => []AudioPath
PROOF
  BY Invariance, IInvAudio, PTL

\* Whatever host channels are used, what is sent on a MIDI channel is heard by
\* the instrument of its host channel alone, except that channel 16, to which
\* setFilterChannel clamps, is heard by the instruments of all from 15 up.
THEOREM MidiStaysApart == Spec => []MidiReachesItsChannel
PROOF
<1>1. IInv => MidiReachesItsChannel
  BY IInvMidi
<1> QED BY <1>1, Invariance, PTL

\* The slot-removed callback was called for every slot that has gone, by
\* whichever op it went, and for no other; no editor window outlives its plugin.
THEOREM RemovalsAnnounced == Spec => []SlotsAccountedFor
PROOF
<1>1. IInv => SlotsAccountedFor
  BY DEF IInv
<1> QED BY <1>1, Invariance, PTL

\* No op takes more than one effect of a channel out of its order among those
\* that stay, and what loadPlugin or reorderFx puts into a chain is where the
\* index said, for every index and every place it came from.
THEOREM EffectsStayInOrder == Spec => EffectsKeepOrder
PROOF
<1> DEFINE Kept ==
        channels' # channels =>
        /\ \A ch \in DOMAIN channels \cap DOMAIN channels' :
               OneMoves(channels[ch].fxSlots, channels'[ch].fxSlots)
        /\ \A ch \in Channels, i \in FxIndices :
               LoadFx(ch, i) => Landed(channels'[ch].fxSlots, nextSlotId, i)
        /\ \A s \in SlotIds, i \in FxIndices :
               ReorderFx(s, i) => Landed(channels'[slots[s].channelIdx].fxSlots, s, i)
<1>1. ASSUME IInv, [Next]_vars PROVE [Kept]_vars
  BY <1>1, OrderKept, LoadFxLands, ReorderFxLands
<1>2. Spec => [][Kept]_vars
  <2>1. IInv /\ [Next]_vars => [Kept]_vars
    BY <1>1
  <2> HIDE DEF Kept
  <2> QED BY <2>1, Invariance, PTL DEF Spec
<1> QED BY <1>2 DEF EffectsKeepOrder
=============================================================================
