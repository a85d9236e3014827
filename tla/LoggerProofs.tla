----------------------------- MODULE LoggerProofs -----------------------------
(***************************************************************************)
(* As long as no two pushes run at once the log ring hands every line over *)
(* whole and in order, whatever its size and whichever threads push; its   *)
(* variables keep their types always.                                      *)
(***************************************************************************)
EXTENDS Logger, TLAPS

\* Two indices less than a ring apart are at different slots.
LEMMA SlotsDiffer ==
    ASSUME NEW i \in Nat, NEW j \in Nat, i < j, j - i < Slots
    PROVE  At(i) # At(j)
PROOF
<1> DEFINE d == (j \div Slots) - (i \div Slots)
<1>1. Slots \in Nat \ {0}
  BY LoggerAssumption
<1>2. /\ i = Slots * (i \div Slots) + (i % Slots)
      /\ j = Slots * (j \div Slots) + (j % Slots)
      /\ i \div Slots \in Int /\ j \div Slots \in Int
      /\ i % Slots \in Int /\ j % Slots \in Int
  BY <1>1
<1>3. SUFFICES ASSUME i % Slots = j % Slots PROVE FALSE
  BY DEF At
<1>4. Slots * (j \div Slots) - Slots * (i \div Slots) = j - i
  BY <1>1, <1>2, <1>3
<1>5. Slots * d = j - i /\ d \in Int
  BY <1>1, <1>2, <1>4
<1>6. CASE d <= 0
  <2>1. Slots * d <= 0
    BY <1>1, <1>5, <1>6
  <2> QED BY <2>1, <1>5
<1>7. CASE d >= 1
  <2>1. Slots * d >= Slots
    BY <1>1, <1>5, <1>7
  <2> QED BY <2>1, <1>1, <1>5
<1> QED BY <1>5, <1>6, <1>7

-----------------------------------------------------------------------------
Halfway == {"line", "store"}

\* The counts of lines are the indices, a producer that goes on holds the
\* index to be written, with room, and a drain that goes on holds one to read.
Indices ==
    /\ Len(stored) = writeIdx /\ Len(emitted) = readIdx
    /\ writeIdx - readIdx \in 0..Slots
    /\ \A p \in Producers :
           /\ pushPc[p] # "idle" => w[p] = writeIdx /\ pushes[p] \in 1..MaxPushes
           /\ pushPc[p] \notin {"idle", "check"} => writeIdx - readIdx < Slots
    /\ popPc \in {"level", "line", "store"} => readIdx < writeIdx /\ drained < MaxLines

\* What the slots in use, the slot being written and the copy hold.
Contents ==
    /\ \A i \in readIdx..(writeIdx - 1) :
           /\ ring[At(i)].level = stored[i + 1]
           /\ ring[At(i)].line = stored[i + 1]
    /\ \A p \in Producers :
           /\ pushPc[p] \in Halfway => ring[At(writeIdx)].level = <<p, pushes[p]>>
           /\ pushPc[p] = "store" => ring[At(writeIdx)].line = <<p, pushes[p]>>
    /\ popPc \in Halfway => out.level = stored[readIdx + 1]
    /\ popPc = "store" => out.line = stored[readIdx + 1]

\* One push is under way at most.
OneAtATime ==
    \A p, r \in Producers : pushPc[p] # "idle" /\ pushPc[r] # "idle" => p = r

IInv == ~overlapped /\ OneAtATime /\ TypeOK /\ Indices /\ Contents /\ LinesArriveWhole

LEMMA AtIsSlot == \A i \in Nat : At(i) \in 0..(Slots - 1)
PROOF
  BY LoggerAssumption DEF At

LEMMA InitIInv == Init => IInv
PROOF
<1> SUFFICES ASSUME Init PROVE IInv
  OBVIOUS
<1> USE LoggerAssumption DEF Init
<1>1. TypeOK
  <2>1. BlankSlot \in Slot
    BY DEF Slot, BlankSlot
  <2>2. overlapped \in BOOLEAN
    OBVIOUS
  <2>3. /\ writeIdx \in Nat /\ readIdx \in Nat /\ drained \in 0..MaxLines
        /\ pushes \in [Producers -> 0..MaxPushes] /\ w \in [Producers -> Nat]
    OBVIOUS
  <2>4. /\ pushPc \in [Producers -> {"idle", "check", "level", "line", "store"}]
        /\ popPc \in {"idle", "pop", "level", "line", "store"}
    OBVIOUS
  <2>5. ring \in [0..(Slots - 1) -> Slot] /\ out \in Slot
    BY <2>1
  <2>6. stored \in Seq(Lines) /\ emitted \in Seq(Slot)
    OBVIOUS
  <2> QED BY <2>2, <2>3, <2>4, <2>5, <2>6 DEF TypeOK
<1>2. Indices
  BY DEF Indices
<1>3. Contents
  BY DEF Contents, Halfway
<1>4. LinesArriveWhole
  BY DEF LinesArriveWhole
<1>5. ~overlapped /\ OneAtATime
  BY DEF OneAtATime
<1> QED BY <1>1, <1>2, <1>3, <1>4, <1>5 DEF IInv

-----------------------------------------------------------------------------
\* A push, while no other runs.

LEMMA PushBeginsKeeps ==
    ASSUME NEW q \in Producers, IInv, PushLoadWrite(q) \/ PushCheck(q), ~overlapped'
    PROVE  IInv'
PROOF
<1> USE LoggerAssumption
<1>0. OneAtATime' /\ \A p \in Producers \ {q} : pushPc[p] = "idle" /\ pushPc'[p] = "idle"
  <2>1. CASE PushLoadWrite(q)
    BY <2>1 DEF IInv, TypeOK, OneAtATime, PushLoadWrite
  <2>2. CASE PushCheck(q)
    BY <2>2 DEF IInv, TypeOK, OneAtATime, PushCheck
  <2> QED BY <2>1, <2>2
<1>1. TypeOK'
  <2>1. CASE PushLoadWrite(q)
    <3>1. overlapped' \in BOOLEAN
      BY <2>1 DEF IInv, TypeOK, PushLoadWrite
    <3> QED BY <2>1, <3>1 DEF IInv, TypeOK, PushLoadWrite, drain
  <2>2. CASE PushCheck(q)
    BY <2>2 DEF IInv, TypeOK, PushCheck, drain
  <2> QED BY <2>1, <2>2
<1>2. Indices'
  <2>1. CASE PushLoadWrite(q)
    BY <1>0, <2>1 DEF IInv, TypeOK, Indices, PushLoadWrite, drain
  <2>2. CASE PushCheck(q)
    BY <1>0, <2>2 DEF IInv, TypeOK, Indices, PushCheck, Full, drain
  <2> QED BY <2>1, <2>2
<1>3. Contents'
  <2>1. CASE PushLoadWrite(q)
    BY <1>0, <2>1 DEF IInv, TypeOK, Contents, Halfway, PushLoadWrite, drain
  <2>2. CASE PushCheck(q)
    BY <1>0, <2>2 DEF IInv, TypeOK, Contents, Halfway, PushCheck, drain
  <2> QED BY <2>1, <2>2
<1>4. LinesArriveWhole'
  BY DEF IInv, LinesArriveWhole, PushLoadWrite, PushCheck, drain
<1> QED BY <1>0, <1>1, <1>2, <1>3, <1>4 DEF IInv

LEMMA PushWritesKeeps ==
    ASSUME NEW q \in Producers, IInv, PushLevel(q) \/ PushLine(q)
    PROVE  IInv'
PROOF
<1> USE LoggerAssumption
<1>0. /\ OneAtATime' /\ ~overlapped'
      /\ \A p \in Producers \ {q} : pushPc[p] = "idle" /\ pushPc'[p] = "idle"
  <2>1. CASE PushLevel(q)
    BY <2>1 DEF IInv, TypeOK, OneAtATime, PushLevel
  <2>2. CASE PushLine(q)
    BY <2>2 DEF IInv, TypeOK, OneAtATime, PushLine
  <2> QED BY <2>1, <2>2
<1> DEFINE here == At(writeIdx)
<1>1. /\ w[q] = writeIdx /\ pushes[q] \in 1..MaxPushes
      /\ writeIdx \in Nat /\ readIdx \in Nat /\ writeIdx - readIdx < Slots
      /\ readIdx <= writeIdx
      /\ <<q, pushes[q]>> \in Lines
      /\ ring \in [0..(Slots - 1) -> Slot] /\ here \in 0..(Slots - 1)
  <2>1. pushPc[q] \in {"level", "line"}
    BY DEF PushLevel, PushLine
  <2>2. writeIdx \in Nat /\ readIdx \in Nat /\ ring \in [0..(Slots - 1) -> Slot]
    BY DEF IInv, TypeOK
  <2>3. w[q] = writeIdx /\ pushes[q] \in 1..MaxPushes /\ writeIdx - readIdx < Slots
    BY <2>1 DEF IInv, Indices
  <2>4. readIdx <= writeIdx
    BY <2>2 DEF IInv, Indices
  <2> QED BY <2>2, <2>3, <2>4, AtIsSlot DEF Lines
<1>2. \A i \in readIdx..(writeIdx - 1) : At(i) \in 0..(Slots - 1) /\ At(i) # here
  <2> TAKE i \in readIdx..(writeIdx - 1)
  <2>1. i \in Nat /\ i < writeIdx /\ writeIdx - i < Slots
    BY <1>1
  <2> QED BY <1>1, <2>1, SlotsDiffer, AtIsSlot
<1>3. TypeOK'
  <2>1. ring' \in [0..(Slots - 1) -> Slot]
    <3> DEFINE x == <<q, pushes[q]>>
    <3>1. [ring[here] EXCEPT !.level = x] \in Slot /\ [ring[here] EXCEPT !.line = x] \in Slot
      BY <1>1 DEF Slot
    <3>2. \/ ring' = [ring EXCEPT ![here] = [ring[here] EXCEPT !.level = x]]
          \/ ring' = [ring EXCEPT ![here] = [ring[here] EXCEPT !.line = x]]
      BY <1>1 DEF PushLevel, PushLine
    <3> HIDE DEF x, here
    <3> QED BY <1>1, <3>1, <3>2
  <2>2. pushPc' \in [Producers -> {"idle", "check", "level", "line", "store"}]
    BY DEF IInv, TypeOK, PushLevel, PushLine
  <2> QED BY <2>1, <2>2 DEF IInv, TypeOK, PushLevel, PushLine, drain
<1>4. Indices'
  BY <1>0 DEF IInv, TypeOK, Indices, PushLevel, PushLine, drain
<1>5. \A i \in readIdx..(writeIdx - 1) : ring'[At(i)] = ring[At(i)]
  BY <1>1, <1>2 DEF PushLevel, PushLine
<1>6. PushLevel(q) => ring'[here].level = <<q, pushes[q]>>
  BY <1>1 DEF PushLevel, Slot
<1>7. PushLine(q) => /\ ring'[here].line = <<q, pushes[q]>>
                     /\ ring'[here].level = ring[here].level
  BY <1>1 DEF PushLine, Slot
<1>8. /\ UNCHANGED <<writeIdx, readIdx, pushes, drain, stored>>
      /\ PushLevel(q) => pushPc'[q] = "line"
      /\ PushLine(q) => pushPc[q] = "line" /\ pushPc'[q] = "store"
  BY DEF IInv, TypeOK, PushLevel, PushLine, producers
<1>9. Contents'
  BY <1>0, <1>5, <1>6, <1>7, <1>8 DEF IInv, Contents, Halfway, drain, At
<1>10. LinesArriveWhole'
  BY <1>8 DEF IInv, LinesArriveWhole, drain
<1> QED BY <1>0, <1>3, <1>4, <1>9, <1>10 DEF IInv

LEMMA PushStoreKeeps ==
    ASSUME NEW q \in Producers, IInv, PushStore(q)
    PROVE  IInv'
PROOF
<1> USE LoggerAssumption
<1>0. OneAtATime' /\ ~overlapped' /\ \A p \in Producers : pushPc'[p] = "idle"
  BY DEF IInv, TypeOK, OneAtATime, PushStore
<1>1. /\ w[q] = writeIdx /\ <<q, pushes[q]>> \in Lines /\ stored \in Seq(Lines)
      /\ writeIdx \in Nat /\ readIdx \in Nat /\ writeIdx - readIdx < Slots
      /\ readIdx <= writeIdx /\ Len(stored) = writeIdx /\ Len(emitted) = readIdx
  <2>1. pushPc[q] = "store"
    BY DEF PushStore
  <2>2. writeIdx \in Nat /\ readIdx \in Nat /\ stored \in Seq(Lines)
    BY DEF IInv, TypeOK
  <2>3. w[q] = writeIdx /\ pushes[q] \in 1..MaxPushes /\ writeIdx - readIdx < Slots
    BY <2>1 DEF IInv, Indices
  <2>4. readIdx <= writeIdx /\ Len(stored) = writeIdx /\ Len(emitted) = readIdx
    BY <2>2 DEF IInv, Indices
  <2> QED BY <2>2, <2>3, <2>4 DEF Lines
<1>2. /\ writeIdx' = writeIdx + 1 /\ stored' = Append(stored, <<q, pushes[q]>>)
      /\ pushPc'[q] = "idle"
      /\ UNCHANGED <<ring, readIdx, pushes, w, popPc, drained, out, emitted>>
  BY <1>1 DEF IInv, TypeOK, PushStore, drain
<1>3. /\ stored' \in Seq(Lines) /\ Len(stored') = writeIdx + 1
      /\ \A i \in 1..writeIdx : stored'[i] = stored[i]
      /\ stored'[writeIdx + 1] = <<q, pushes[q]>>
  BY <1>1, <1>2
<1>4. TypeOK'
  <2>1. pushPc' \in [Producers -> {"idle", "check", "level", "line", "store"}]
    BY DEF IInv, TypeOK, PushStore
  <2>2. overlapped' \in BOOLEAN
    BY DEF IInv, TypeOK, PushStore
  <2> QED BY <1>1, <1>2, <1>3, <2>1, <2>2 DEF IInv, TypeOK
<1>5. Indices'
  BY <1>0, <1>1, <1>2, <1>3 DEF IInv, Indices
<1>6. Contents'
  <2>1. ASSUME NEW i \in readIdx'..(writeIdx' - 1)
        PROVE  ring'[At(i)].level = stored'[i + 1] /\ ring'[At(i)].line = stored'[i + 1]
    <3>1. CASE i = writeIdx
      BY <1>2, <1>3, <3>1 DEF IInv, Contents, Halfway, PushStore
    <3>2. CASE i # writeIdx
      <4>1. i \in readIdx..(writeIdx - 1) /\ i + 1 \in 1..writeIdx
        BY <1>1, <1>2, <3>2
      <4> QED BY <1>2, <1>3, <4>1 DEF IInv, Contents
    <3> QED BY <3>1, <3>2
  <2>2. popPc \in {"level", "line", "store"} => stored'[readIdx + 1] = stored[readIdx + 1]
    BY <1>1, <1>3 DEF IInv, Indices
  <2>3. \A p \in Producers : pushPc'[p] = "idle"
    BY <1>0
  <2>4. /\ popPc' \in Halfway => out'.level = stored'[readIdx' + 1]
        /\ popPc' = "store" => out'.line = stored'[readIdx' + 1]
    BY <1>2, <2>2 DEF IInv, Contents, Halfway
  <2> QED BY <2>1, <2>3, <2>4 DEF Contents, Halfway, At
<1>7. LinesArriveWhole'
  BY <1>1, <1>2, <1>3 DEF IInv, LinesArriveWhole
<1> QED BY <1>0, <1>4, <1>5, <1>6, <1>7 DEF IInv

-----------------------------------------------------------------------------
\* The drain.

LEMMA PopReadsKeeps ==
    ASSUME IInv, DrainOnce \/ PopLoad \/ PopLevel \/ PopLine
    PROVE  IInv'
PROOF
<1> USE LoggerAssumption
<1>1. /\ readIdx \in Nat /\ writeIdx \in Nat /\ ring \in [0..(Slots - 1) -> Slot]
      /\ At(readIdx) \in 0..(Slots - 1) /\ out \in Slot
      /\ readIdx <= writeIdx /\ drained \in 0..MaxLines
  BY AtIsSlot DEF IInv, TypeOK, Indices
<1>2. UNCHANGED <<ring, writeIdx, readIdx, producers, stored, emitted>>
  BY DEF DrainOnce, PopLoad, PopLevel, PopLine
<1>3. TypeOK'
  <2>1. out' \in Slot
    BY <1>1 DEF DrainOnce, PopLoad, PopLevel, PopLine, Slot
  <2>2. popPc' \in {"idle", "pop", "level", "line", "store"} /\ drained' \in 0..MaxLines
    BY DEF IInv, TypeOK, DrainOnce, PopLoad, PopLevel, PopLine
  <2> QED BY <1>2, <2>1, <2>2 DEF IInv, TypeOK, producers
<1>4. Indices'
  BY <1>1, <1>2 DEF IInv, Indices, producers, DrainOnce, PopLoad, PopLevel, PopLine, Empty
<1>5. /\ popPc' \in Halfway => out'.level = stored[readIdx + 1]
      /\ popPc' = "store" => out'.line = stored[readIdx + 1]
  <2>1. popPc \in {"level", "line"} =>
            /\ ring[At(readIdx)].level = stored[readIdx + 1]
            /\ ring[At(readIdx)].line = stored[readIdx + 1]
    BY <1>1 DEF IInv, Indices, Contents
  <2>2. PopLevel => popPc' = "line" /\ out'.level = ring[At(readIdx)].level
    BY <1>1 DEF PopLevel, Slot
  <2>3. PopLine => out'.line = ring[At(readIdx)].line /\ out'.level = out.level
    BY <1>1 DEF PopLine, Slot
  <2>4. DrainOnce \/ PopLoad => popPc' \notin Halfway
    BY DEF DrainOnce, PopLoad, Halfway
  <2> QED BY <2>1, <2>2, <2>3, <2>4 DEF IInv, Contents, Halfway, PopLevel, PopLine
<1>6. Contents'
  BY <1>2, <1>5 DEF IInv, Contents, producers, Halfway, At
<1>7. LinesArriveWhole'
  BY <1>2 DEF IInv, LinesArriveWhole
<1>8. ~overlapped' /\ OneAtATime'
  BY <1>2 DEF IInv, OneAtATime, producers
<1> QED BY <1>3, <1>4, <1>6, <1>7, <1>8 DEF IInv

LEMMA PopStoreKeeps ==
    ASSUME IInv, PopStore
    PROVE  IInv'
PROOF
<1> USE LoggerAssumption
<1>1. /\ readIdx \in Nat /\ writeIdx \in Nat /\ readIdx < writeIdx /\ out \in Slot
      /\ emitted \in Seq(Slot) /\ Len(emitted) = readIdx /\ Len(stored) = writeIdx
      /\ drained \in Nat
  BY DEF IInv, TypeOK, Indices, PopStore
<1>2. /\ readIdx' = readIdx + 1 /\ emitted' = Append(emitted, out)
      /\ popPc' = "pop" /\ out' = BlankSlot /\ drained' = drained + 1
      /\ UNCHANGED <<ring, writeIdx, producers, stored>>
  BY DEF PopStore
<1>3. /\ emitted' \in Seq(Slot) /\ Len(emitted') = readIdx + 1
      /\ \A i \in 1..readIdx : emitted'[i] = emitted[i]
      /\ emitted'[readIdx + 1] = out
  BY <1>1, <1>2
<1>4. out = [level |-> stored[readIdx + 1], line |-> stored[readIdx + 1]]
  BY <1>1 DEF IInv, Contents, Halfway, PopStore, Slot
<1>5. TypeOK'
  <2>1. out' \in Slot
    BY <1>2 DEF BlankSlot, Slot
  <2>2. drained' \in 0..MaxLines
    BY <1>1, <1>2 DEF IInv, TypeOK, Indices, PopStore
  <2> QED BY <1>1, <1>2, <1>3, <2>1, <2>2 DEF IInv, TypeOK, producers
<1>6. Indices'
  BY <1>1, <1>2, <1>3 DEF IInv, Indices, producers
<1>7. Contents'
  <2>1. \A i \in readIdx'..(writeIdx' - 1) : i \in readIdx..(writeIdx - 1)
    BY <1>1, <1>2
  <2>2. popPc' \notin Halfway /\ popPc' # "store"
    BY <1>2 DEF Halfway
  <2> QED BY <1>2, <2>1, <2>2 DEF IInv, Contents, producers, Halfway, At
<1>8. LinesArriveWhole'
  <2>1. ASSUME NEW i \in 1..Len(emitted')
        PROVE  emitted'[i] = [level |-> stored'[i], line |-> stored'[i]]
    <3>1. CASE i = readIdx + 1
      BY <1>2, <1>3, <1>4, <3>1
    <3>2. CASE i # readIdx + 1
      <4>1. i \in 1..readIdx
        BY <1>1, <1>3, <3>2
      <4> QED BY <1>1, <1>2, <1>3, <4>1 DEF IInv, LinesArriveWhole
    <3> QED BY <3>1, <3>2
  <2> QED BY <1>1, <1>2, <1>3, <2>1 DEF LinesArriveWhole
<1>9. ~overlapped' /\ OneAtATime'
  BY <1>2 DEF IInv, OneAtATime, producers
<1> QED BY <1>5, <1>6, <1>7, <1>8, <1>9 DEF IInv

-----------------------------------------------------------------------------
LEMMA NextKeeps ==
    ASSUME IInv, [Next]_vars, ~overlapped'
    PROVE  IInv'
PROOF
<1>1. ASSUME NEW p \in Producers, Push(p) PROVE IInv'
  BY <1>1, PushBeginsKeeps, PushWritesKeeps, PushStoreKeeps DEF Push
<1>2. CASE Drain
  BY <1>2, PopReadsKeeps, PopStoreKeeps DEF Drain
<1>3. CASE UNCHANGED vars
  <2>1. TypeOK' /\ Indices'
    BY <1>3 DEF vars, producers, drain, IInv, TypeOK, Indices
  <2>2. Contents'
    BY <1>3 DEF vars, producers, drain, IInv, Contents, Halfway, At
  <2>3. LinesArriveWhole' /\ OneAtATime' /\ ~overlapped'
    BY <1>3 DEF vars, producers, drain, IInv, LinesArriveWhole, OneAtATime
  <2> QED BY <2>1, <2>2, <2>3 DEF IInv
<1> QED BY <1>1, <1>2, <1>3 DEF Next

LEMMA OverlapStays == [Next]_vars /\ overlapped => overlapped'
PROOF
  BY DEF Next, vars, producers, Push, PushLoadWrite, PushCheck, PushLevel, PushLine,
         PushStore, Drain, DrainOnce, PopLoad, PopLevel, PopLine, PopStore

LEMMA Invariance == Spec => [](overlapped \/ IInv)
PROOF
<1>1. (overlapped \/ IInv) /\ [Next]_vars => (overlapped \/ IInv)'
  BY NextKeeps, OverlapStays
<1> QED BY <1>1, InitIInv, PTL DEF Spec

\* With any number of threads that push, the reader does not pass the writer,
\* nor the writer the reader by more than the ring holds, before two calls of
\* push() have run at once: nothing else can set an index back.
THEOREM IndicesStayInOrder == Spec => []IndicesInOrder
PROOF
<1>1. overlapped \/ IInv => IndicesInOrder
  BY DEF IInv, Indices, IndicesInOrder
<1> QED BY <1>1, Invariance, PTL

\* With any number of threads that push, what drainOnce emits is what was
\* stored, in order, each line once and with its level, until two calls of
\* push() have run at once.
THEOREM LinesStayWhole == Spec => []LinesArriveWhole
PROOF
<1>1. overlapped \/ IInv => LinesArriveWhole
  BY DEF IInv, LinesArriveWhole
<1> QED BY <1>1, Invariance, PTL

-----------------------------------------------------------------------------
\* Any number of producers.  A push under way has been counted, and a drain
\* that has an entry to read is below its bound.
Underway ==
    /\ \A p \in Producers : pushPc[p] # "idle" => pushes[p] \in 1..MaxPushes
    /\ popPc \in {"level", "line", "store"} => drained < MaxLines

LEMMA PushTyped ==
    ASSUME NEW p \in Producers, TypeOK, Underway, Push(p)
    PROVE  TypeOK' /\ Underway'
PROOF
<1> USE LoggerAssumption DEF TypeOK, Underway, drain
<1>1. CASE PushLoadWrite(p)
  BY <1>1 DEF PushLoadWrite
<1>2. CASE PushCheck(p)
  BY <1>2 DEF PushCheck
<1>3. CASE PushLevel(p) \/ PushLine(p)
  <2> DEFINE here == At(w[p])
  <2>1. here \in 0..(Slots - 1) /\ <<p, pushes[p]>> \in Lines
    BY <1>3, AtIsSlot DEF PushLevel, PushLine, Lines
  <2>2. ring' \in [0..(Slots - 1) -> Slot]
    <3>1. CASE PushLevel(p)
      <4> HIDE DEF here
      <4>1. ring' = [ring EXCEPT ![here].level = <<p, pushes[p]>>]
        BY <3>1 DEF PushLevel, here
      <4> QED BY <4>1, <2>1 DEF Slot
    <3>2. CASE PushLine(p)
      <4> HIDE DEF here
      <4>1. ring' = [ring EXCEPT ![here].line = <<p, pushes[p]>>]
        BY <3>2 DEF PushLine, here
      <4> QED BY <4>1, <2>1 DEF Slot
    <3> QED BY <1>3, <3>1, <3>2
  <2> QED BY <1>3, <2>2 DEF PushLevel, PushLine
<1>4. CASE PushStore(p)
  <2>1. <<p, pushes[p]>> \in Lines
    BY <1>4 DEF PushStore, Lines
  <2> QED BY <1>4, <2>1 DEF PushStore
<1> QED BY <1>1, <1>2, <1>3, <1>4 DEF Push

LEMMA DrainTyped ==
    ASSUME TypeOK, Underway, Drain
    PROVE  TypeOK' /\ Underway'
PROOF
<1> USE LoggerAssumption DEF TypeOK, Underway, producers
<1>1. CASE DrainOnce
  BY <1>1 DEF DrainOnce
<1>2. CASE PopLoad
  BY <1>2 DEF PopLoad
<1>3. CASE PopLevel \/ PopLine
  <2>1. ring[At(readIdx)] \in Slot
    BY AtIsSlot
  <2>2. out' \in Slot
    BY <1>3, <2>1 DEF PopLevel, PopLine, Slot
  <2> QED BY <1>3, <2>2 DEF PopLevel, PopLine
<1>4. CASE PopStore
  <2>1. BlankSlot \in Slot
    BY DEF BlankSlot, Slot
  <2> QED BY <1>4, <2>1 DEF PopStore
<1> QED BY <1>1, <1>2, <1>3, <1>4 DEF Drain

\* Every variable of the log ring keeps its type whatever the number of
\* threads that push, also when they overwrite each other's index, and a timer
\* tick of drainOnce forwards no more lines than its bound.
THEOREM LoggerTypeCorrect == Spec => []TypeOK
PROOF
<1>1. Init => TypeOK /\ Underway
  BY InitIInv DEF Init, IInv, Underway
<1>2. TypeOK /\ Underway /\ [Next]_vars => TypeOK' /\ Underway'
  <2> SUFFICES ASSUME TypeOK, Underway, [Next]_vars PROVE TypeOK' /\ Underway'
    OBVIOUS
  <2>1. CASE UNCHANGED vars
    BY <2>1 DEF vars, producers, drain, TypeOK, Underway
  <2> QED BY <2>1, PushTyped, DrainTyped DEF Next
<1> QED BY <1>1, <1>2, PTL DEF Spec
=============================================================================
