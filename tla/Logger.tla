-------------------------------- MODULE Logger --------------------------------
(***************************************************************************)
(* The log ring: push() in each producing thread, drainOnce() on the       *)
(* message thread's timer.  A step is one load or store of an index, or    *)
(* one field of a slot, copied in or out.                                  *)
(*                                                                         *)
(* Loads are seen in program order, as on x86-64: pop() loads writeIdx     *)
(* relaxed, and on a weaker machine could see a slot before it is written. *)
(* The indices are ints that only grow; their overflow is beyond the bound *)
(* on pushes.                                                              *)
(***************************************************************************)
EXTENDS Integers, Sequences, FiniteSets

CONSTANTS Producers,  \* threads that log
          Slots,      \* kSlots, a power of two
          MaxLines,   \* the most one drainOnce takes
          MaxPushes,  \* bound: calls of push() by each producer
          Blank       \* what a slot holds before it is written

ASSUME LoggerAssumption ==
    /\ Slots \in Nat \ {0} /\ MaxLines \in Nat \ {0} /\ MaxPushes \in Nat
    /\ Blank \notin Producers \X Nat

\* A line is named by who pushed it and as which; its level goes with it.
Lines == Producers \X (1..MaxPushes)
Slot == [level : Lines \union {Blank}, line : Lines \union {Blank}]
At(i) == i % Slots                       \* i & (kSlots - 1)

VARIABLES
    ring, writeIdx, readIdx,
    pushes, pushPc, w,      \* per producer: calls so far, where it is, its w
    overlapped,             \* history: two calls of push() have run at once
    popPc, drained, out,    \* drainOnce: where it is, its count, the line so far
    stored, emitted         \* lines that were stored; lines that were forwarded

producers == <<pushes, pushPc, w, overlapped>>
drain == <<popPc, drained, out, emitted>>
vars == <<ring, writeIdx, readIdx, producers, drain, stored>>

BlankSlot == [level |-> Blank, line |-> Blank]

Init ==
    /\ ring = [i \in 0..(Slots - 1) |-> BlankSlot]
    /\ writeIdx = 0 /\ readIdx = 0
    /\ pushes = [p \in Producers |-> 0]
    /\ pushPc = [p \in Producers |-> "idle"]
    /\ w = [p \in Producers |-> 0]
    /\ overlapped = FALSE
    /\ popPc = "idle" /\ drained = 0 /\ out = BlankSlot
    /\ stored = <<>> /\ emitted = <<>>

-----------------------------------------------------------------------------
PushLoadWrite(p) ==
    /\ pushPc[p] = "idle" /\ pushes[p] < MaxPushes
    /\ pushes' = [pushes EXCEPT ![p] = @ + 1]
    /\ w' = [w EXCEPT ![p] = writeIdx]
    /\ pushPc' = [pushPc EXCEPT ![p] = "check"]
    /\ overlapped' = (overlapped \/ \E q \in Producers : pushPc[q] # "idle")
    /\ UNCHANGED <<ring, writeIdx, readIdx, drain, stored>>

\* Mutant: the ring is taken to hold one line more.
FullLate(p) == w[p] - readIdx > Slots

Full(p) == w[p] - readIdx >= Slots

\* A ring that is full keeps what it has: the line is dropped.
PushCheck(p) ==
    /\ pushPc[p] = "check"
    /\ pushPc' = [pushPc EXCEPT ![p] = IF Full(p) THEN "idle" ELSE "level"]
    /\ UNCHANGED <<ring, writeIdx, readIdx, pushes, w, overlapped, drain, stored>>

PushLevel(p) ==
    /\ pushPc[p] = "level"
    /\ ring' = [ring EXCEPT ![At(w[p])].level = <<p, pushes[p]>>]
    /\ pushPc' = [pushPc EXCEPT ![p] = "line"]
    /\ UNCHANGED <<writeIdx, readIdx, pushes, w, overlapped, drain, stored>>

PushLine(p) ==
    /\ pushPc[p] = "line"
    /\ ring' = [ring EXCEPT ![At(w[p])].line = <<p, pushes[p]>>]
    /\ pushPc' = [pushPc EXCEPT ![p] = "store"]
    /\ UNCHANGED <<writeIdx, readIdx, pushes, w, overlapped, drain, stored>>

PushStore(p) ==
    /\ pushPc[p] = "store"
    /\ writeIdx' = w[p] + 1
    /\ stored' = Append(stored, <<p, pushes[p]>>)
    /\ pushPc' = [pushPc EXCEPT ![p] = "idle"]
    /\ UNCHANGED <<ring, readIdx, pushes, w, overlapped, drain>>

-----------------------------------------------------------------------------
DrainOnce ==
    /\ popPc = "idle"
    /\ drained' = 0
    /\ popPc' = "pop"
    /\ UNCHANGED <<ring, writeIdx, readIdx, producers, out, stored, emitted>>

\* Mutants: the last line is taken for none; an empty ring is popped.
EmptyEarly == readIdx + 1 >= writeIdx
EmptyNever == readIdx > writeIdx

Empty == readIdx = writeIdx

\* Bound: a drain that runs on over old slots is followed for one line more
\* than were stored.
RunAway == Len(emitted) > Len(stored)

\* Mutant: a tick drains until the ring is empty.
PopLoadUnbounded ==
    /\ popPc = "pop"
    /\ popPc' = IF Empty \/ RunAway THEN "idle" ELSE "level"
    /\ UNCHANGED <<ring, writeIdx, readIdx, producers, drained, out, stored, emitted>>

PopLoad ==
    /\ popPc = "pop"
    /\ popPc' = IF drained = MaxLines \/ Empty \/ RunAway THEN "idle" ELSE "level"
    /\ UNCHANGED <<ring, writeIdx, readIdx, producers, drained, out, stored, emitted>>

PopLevel ==
    /\ popPc = "level"
    /\ out' = [out EXCEPT !.level = ring[At(readIdx)].level]
    /\ popPc' = "line"
    /\ UNCHANGED <<ring, writeIdx, readIdx, producers, drained, stored, emitted>>

PopLine ==
    /\ popPc = "line"
    /\ out' = [out EXCEPT !.line = ring[At(readIdx)].line]
    /\ popPc' = "store"
    /\ UNCHANGED <<ring, writeIdx, readIdx, producers, drained, stored, emitted>>

\* The slot is given back, and drainOnce prints the line and forwards it.
PopStore ==
    /\ popPc = "store"
    /\ readIdx' = readIdx + 1
    /\ emitted' = Append(emitted, out)
    /\ out' = BlankSlot
    /\ drained' = drained + 1
    /\ popPc' = "pop"
    /\ UNCHANGED <<ring, writeIdx, producers, stored>>

Push(p) == PushLoadWrite(p) \/ PushCheck(p) \/ PushLevel(p) \/ PushLine(p) \/ PushStore(p)
Drain == DrainOnce \/ PopLoad \/ PopLevel \/ PopLine \/ PopStore

Next == Drain \/ \E p \in Producers : Push(p)

Spec == Init /\ [][Next]_vars

\* The timer fires again and again and drainOnce runs to its end.
FairSpec == Spec /\ WF_vars(Drain)

-----------------------------------------------------------------------------
\* The type of every variable; a timer tick drains no more than its bound.
TypeOK ==
    /\ ring \in [0..(Slots - 1) -> Slot]
    /\ writeIdx \in Nat /\ readIdx \in Nat
    /\ pushes \in [Producers -> 0..MaxPushes]
    /\ pushPc \in [Producers -> {"idle", "check", "level", "line", "store"}]
    /\ w \in [Producers -> Nat]
    /\ overlapped \in BOOLEAN
    /\ popPc \in {"idle", "pop", "level", "line", "store"}
    /\ drained \in 0..MaxLines
    /\ out \in Slot
    /\ stored \in Seq(Lines) /\ emitted \in Seq(Slot)

\* As long as no two pushes have run at once, whichever threads they are of,
\* what is drained is what was stored, in order and each line once, with the
\* level it was pushed with, although the ring is reused under the copy.  What
\* is stored is what found room: push() drops the newest line when the ring is
\* full, see NewestIsKept.
LinesArriveWhole ==
    ~overlapped =>
        /\ Len(emitted) <= Len(stored)
        /\ \A i \in 1..Len(emitted) : emitted[i] = [level |-> stored[i], line |-> stored[i]]

\* As long as no two pushes have run at once the reader never passes the
\* writer, nor the writer the reader by more than the ring holds: what both
\* tests of the difference of the indices rest on.
IndicesInOrder == ~overlapped => writeIdx - readIdx \in 0..Slots

\* Every line that was stored is printed and forwarded in the end, unless two
\* pushes run at once.
LinesDelivered ==
    \A n \in 1..(MaxPushes * Cardinality(Producers)) :
        Len(stored) >= n ~> overlapped \/ Len(emitted) >= n

-----------------------------------------------------------------------------
\* What comments say, and the code does not do.

\* "Returns false when ring is empty" (Logger.h): pop() returns no more lines
\* than push() has stored, whichever threads push.
PopsOnlyPushedLines == Len(emitted) <= Len(stored)

\* "Drop-oldest on full" (Logger.h:11): a push is never the one that loses its
\* line.  Line 28 drops it.
NewestIsKept ==
    \A p \in Producers :
        pushPc[p] = "idle" /\ pushes[p] > 0 => \E i \in DOMAIN stored : stored[i] = <<p, pushes[p]>>

=============================================================================
