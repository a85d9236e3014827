------------------------------- MODULE SpscRing ------------------------------
(***************************************************************************)
(* SpscRing<T, Capacity> of SchedulerNode.h, one atomic operation or one   *)
(* slot access a step.  The indices are unsigned and wrap at IndexMod      *)
(* (2^32 in the code); a slot is chosen by the low bits of an index.       *)
(*                                                                         *)
(* Each thread reads its own index exactly.  Its acquire load of the       *)
(* other's index may be late: it returns any value the other has stored    *)
(* since the last one this thread saw.  What is ordered by release and     *)
(* acquire -- the slot contents -- is then seen as the model shows it.     *)
(***************************************************************************)
EXTENDS Integers, Sequences

CONSTANTS Capacity,  \* number of slots, a power of two in the code
          IndexMod,  \* 2^32 in the code
          Values,    \* what is pushed (commands, freed sequences)
          Empty      \* a moved-from slot

ASSUME RingAssumption ==
    /\ Capacity \in Nat \ {0}
    /\ IndexMod \in Nat
    /\ \E m \in 2..IndexMod : IndexMod = m * Capacity
    /\ Empty \notin Values

Indices == 0..(IndexMod - 1)
Slot(i) == i % Capacity              \* i & (Capacity - 1)
PlusUnwrapped(i, k) == i + k         \* mutant: an index that does not wrap
Plus(i, k) == (i + k) % IndexMod     \* uint32_t addition
Minus(i, j) == (i - j) % IndexMod    \* uint32_t subtraction

VARIABLES
    slots, writeIdx, readIdx,  \* the ring
    pushPc, pushValue, pushR,  \* push: where it is, v, and r as last loaded
    popPc, popW, out           \* pop: where it is, w as last loaded, and out

ring == <<slots, writeIdx, readIdx>>
producer == <<pushPc, pushValue, pushR>>
consumer == <<popPc, popW, out>>
vars == <<ring, producer, consumer>>

Init ==
    /\ slots = [i \in 0..(Capacity - 1) |-> Empty]
    /\ writeIdx = 0 /\ readIdx = 0
    /\ pushPc = "idle" /\ pushValue = Empty /\ pushR = 0
    /\ popPc = "idle" /\ popW = 0 /\ out = Empty

\* What a load of index now may return when seen was the last value seen.
Loads(seen, now) == {Plus(seen, k) : k \in 0..Minus(now, seen)}

-----------------------------------------------------------------------------
\* Mutant: the full check is off by one.
PushLoadOneTooMany(v) ==
    /\ pushPc = "idle"
    /\ pushR' \in Loads(pushR, readIdx)
    /\ IF Minus(writeIdx, pushR') > Capacity
       THEN UNCHANGED <<pushPc, pushValue>>
       ELSE pushPc' = "write" /\ pushValue' = v
    /\ UNCHANGED <<ring, consumer>>

PushLoad(v) ==
    /\ pushPc = "idle"
    /\ pushR' \in Loads(pushR, readIdx)
    /\ IF Minus(writeIdx, pushR') >= Capacity
       THEN UNCHANGED <<pushPc, pushValue>>                  \* return false
       ELSE pushPc' = "write" /\ pushValue' = v
    /\ UNCHANGED <<ring, consumer>>

PushWrite ==
    /\ pushPc = "write"
    /\ slots' = [slots EXCEPT ![Slot(writeIdx)] = pushValue]
    /\ pushPc' = "publish"
    /\ pushValue' = Empty
    /\ UNCHANGED <<writeIdx, readIdx, pushR, consumer>>

PushPublish ==
    /\ pushPc = "publish"
    /\ writeIdx' = Plus(writeIdx, 1)
    /\ pushPc' = "idle"
    /\ UNCHANGED <<slots, readIdx, pushValue, pushR, consumer>>

\* Mutant: empty is tested with an order that does not survive the wrap.
PopLoadOrdered ==
    /\ popPc = "idle"
    /\ popW' \in Loads(popW, writeIdx)
    /\ popPc' = IF readIdx >= popW' THEN "idle" ELSE "read"
    /\ UNCHANGED <<ring, producer, out>>

PopLoad ==
    /\ popPc = "idle"
    /\ popW' \in Loads(popW, writeIdx)
    /\ popPc' = IF readIdx = popW' THEN "idle" ELSE "read"   \* return false
    /\ UNCHANGED <<ring, producer, out>>

PopRead ==
    /\ popPc = "read"
    /\ out' = slots[Slot(readIdx)]
    /\ slots' = [slots EXCEPT ![Slot(readIdx)] = Empty]
    /\ popPc' = "publish"
    /\ UNCHANGED <<writeIdx, readIdx, producer, popW>>

\* Mutant: the index jumps to the last one loaded.
PopPublishJumps ==
    /\ popPc = "publish"
    /\ readIdx' = popW
    /\ popPc' = "done"
    /\ UNCHANGED <<slots, writeIdx, producer, popW, out>>

PopPublish ==
    /\ popPc = "publish"
    /\ readIdx' = Plus(readIdx, 1)
    /\ popPc' = "done"
    /\ UNCHANGED <<slots, writeIdx, producer, popW, out>>

\* The caller of pop moves out away before it calls pop again.
Consume ==
    /\ popPc = "done"
    /\ out' = Empty
    /\ popPc' = "idle"
    /\ UNCHANGED <<ring, producer, popW>>

Push == PushWrite \/ PushPublish \/ \E v \in Values : PushLoad(v)
Pop  == PopLoad \/ PopRead \/ PopPublish \/ Consume

Next == Push \/ Pop

Spec == Init /\ [][Next]_vars

\* Both threads finish the call they are in; the consumer calls pop for ever
\* and a store becomes visible to its loads in the end.
Fairness ==
    /\ WF_vars(PushWrite \/ PushPublish)
    /\ WF_vars(PopRead \/ PopPublish \/ Consume)
    /\ WF_vars(PopLoad /\ popW' = writeIdx)

FairSpec == Spec /\ Fairness

-----------------------------------------------------------------------------
\* Every variable has its type.
TypeOK ==
    /\ slots \in [0..(Capacity - 1) -> Values \cup {Empty}]
    /\ writeIdx \in Indices /\ readIdx \in Indices
    /\ pushPc \in {"idle", "write", "publish"}
    /\ pushValue \in Values \cup {Empty} /\ pushR \in Indices
    /\ popPc \in {"idle", "read", "publish", "done"}
    /\ popW \in Indices /\ out \in Values \cup {Empty}

\* The push and the pop never access one slot at the same time, at any place
\* of the indices relative to their wrap: slots needs no atomics.
NoRace == pushPc = "write" /\ popPc = "read" => Slot(writeIdx) # Slot(readIdx)

\* The ring is a bounded queue; a value leaves it when it is moved out.
Popped == IF popPc = "publish" THEN 1 ELSE 0

Queue == [k \in 1..(Minus(writeIdx, readIdx) - Popped) |->
             slots[Slot(Plus(readIdx, Popped + k - 1))]]

Fifo == INSTANCE BoundedFifo WITH queue <- Queue

\* Every value is taken once, in order, and none is invented or lost.
IsFifo == Fifo!Spec

\* A value that was put in a slot is taken out in the end, past every wrap.
SlotsDrained ==
    \A i \in 0..(Capacity - 1) : slots[i] # Empty ~> slots[i] = Empty

=============================================================================
