------------------------- MODULE SchedulerNodeProofs -------------------------
(***************************************************************************)
(* Theorems about SchedulerNode for every size of the pool, the rings and  *)
(* the note table, every score and any number of sequences and slots.      *)
(***************************************************************************)
EXTENDS SchedulerNode, SequenceTheorems, FiniteSetTheorems,
        WellFoundedInduction, TLAPS

-----------------------------------------------------------------------------
(* Facts about command sequences.                                          *)

\* The sequences whose Add is in r, and that none is there twice.
AddArgs(r) == {r[i].arg : i \in {j \in DOMAIN r : r[j].kind = "Add"}}

AddsDistinct(r) ==
    \A i, j \in DOMAIN r :
        r[i].kind = "Add" /\ r[j].kind = "Add" /\ r[i].arg = r[j].arg => i = j

\* The queue and its distinctness, in those words.
LEMMA QueuedIsAddArgs ==
    /\ Queued = AddArgs(commandRing) /\ Queued' = AddArgs(commandRing')
    /\ (\A i, j \in Adds : commandRing[i].arg = commandRing[j].arg => i = j)
          <=> AddsDistinct(commandRing)
    /\ (\A i, j \in Adds : commandRing[i].arg = commandRing[j].arg => i = j)'
          <=> AddsDistinct(commandRing')
BY DEF Queued, Adds, AddArgs, AddsDistinct

\* Appending a command adds at most one sequence to the queue (push).
LEMMA AppendCommand ==
    ASSUME NEW r \in Seq(Command), NEW c \in Command
    PROVE  /\ c.kind # "Add" => /\ AddArgs(Append(r, c)) = AddArgs(r)
                                /\ AddsDistinct(r) => AddsDistinct(Append(r, c))
           /\ c.kind = "Add" =>
                /\ AddArgs(Append(r, c)) = AddArgs(r) \cup {c.arg}
                /\ AddsDistinct(r) /\ c.arg \notin AddArgs(r)
                      => AddsDistinct(Append(r, c))
<1> DEFINE s == Append(r, c)
<1>1. /\ DOMAIN r = 1..Len(r) /\ DOMAIN s = 1..(Len(r) + 1) /\ Len(r) \in Nat
      /\ \A i \in 1..Len(r) : s[i] = r[i]
      /\ s[Len(r) + 1] = c
  BY AppendProperties
<1> HIDE DEF s
<1>2. ASSUME c.kind # "Add"
      PROVE  /\ AddArgs(s) = AddArgs(r)
             /\ AddsDistinct(r) => AddsDistinct(s)
  BY <1>1, <1>2 DEF AddArgs, AddsDistinct
<1>3. ASSUME c.kind = "Add"
      PROVE  /\ AddArgs(s) = AddArgs(r) \cup {c.arg}
             /\ AddsDistinct(r) /\ c.arg \notin AddArgs(r) => AddsDistinct(s)
  BY <1>1, <1>3 DEF AddArgs, AddsDistinct
<1> QED BY <1>2, <1>3 DEF s

\* Taking the head removes at most one sequence from the queue (pop).
LEMMA TailCommand ==
    ASSUME NEW r \in Seq(Command), r # <<>>, AddsDistinct(r)
    PROVE  /\ AddsDistinct(Tail(r))
           /\ Head(r).kind # "Add" => AddArgs(Tail(r)) = AddArgs(r)
           /\ Head(r).kind = "Add" =>
                /\ Head(r).arg \in AddArgs(r)
                /\ AddArgs(Tail(r)) = AddArgs(r) \ {Head(r).arg}
<1> DEFINE s == Tail(r)
<1>1. /\ Len(r) \in Nat /\ Len(r) >= 1
      /\ DOMAIN r = 1..Len(r) /\ DOMAIN s = 1..(Len(r) - 1)
      /\ \A i \in 1..(Len(r) - 1) : s[i] = r[i + 1]
      /\ Head(r) = r[1]
  BY HeadTailProperties, EmptySeq
<1> HIDE DEF s
<1>2. /\ \A i \in DOMAIN s : /\ i \in Int /\ i + 1 \in DOMAIN r
                            /\ i + 1 # 1 /\ s[i] = r[i + 1]
      /\ \A i \in DOMAIN r : i = 1 \/ \E j \in DOMAIN s : r[i] = s[j]
      /\ 1 \in DOMAIN r
  <2>1. \A i \in DOMAIN r : i = 1 \/ (i - 1 \in DOMAIN s /\ s[i - 1] = r[i])
    BY <1>1
  <2> QED BY <1>1, <2>1
<1>3. AddsDistinct(s)
  <2> SUFFICES ASSUME NEW i \in DOMAIN s, NEW j \in DOMAIN s,
                      s[i].kind = "Add", s[j].kind = "Add", s[i].arg = s[j].arg
               PROVE  i = j
    BY DEF AddsDistinct
  <2>1. i + 1 = j + 1
    <3>1. /\ i + 1 \in DOMAIN r /\ j + 1 \in DOMAIN r
          /\ s[i] = r[i + 1] /\ s[j] = r[j + 1]
      BY <1>2
    <3> QED BY <3>1 DEF AddsDistinct
  <2> QED BY <1>2, <2>1
<1>4. \A x : x \in AddArgs(s) <=>
               \E i \in DOMAIN s : s[i].kind = "Add" /\ x = s[i].arg
  BY DEF AddArgs
<1>5. \A x : x \in AddArgs(r) <=>
               \E i \in DOMAIN r : r[i].kind = "Add" /\ x = r[i].arg
  BY DEF AddArgs
<1>6. AddArgs(s) \subseteq AddArgs(r)
  BY <1>2, <1>4, <1>5
<1>7. ASSUME NEW x \in AddArgs(r)
      PROVE  x \in AddArgs(s) \/ (r[1].kind = "Add" /\ x = r[1].arg)
  <2>1. PICK i \in DOMAIN r : r[i].kind = "Add" /\ x = r[i].arg
    BY <1>5
  <2>2. CASE i = 1
    BY <2>1, <2>2
  <2>3. CASE \E j \in DOMAIN s : r[i] = s[j]
    BY <2>1, <2>3, <1>4
  <2> QED BY <2>2, <2>3, <1>2
<1>8. ASSUME r[1].kind = "Add", r[1].arg \in AddArgs(s) PROVE FALSE
  <2>1. PICK i \in DOMAIN s : s[i].kind = "Add" /\ r[1].arg = s[i].arg
    BY <1>4, <1>8
  <2>2. i + 1 = 1
    BY <2>1, <1>2, <1>8 DEF AddsDistinct
  <2> QED BY <2>2, <1>2
<1>9. r[1].kind = "Add" => r[1].arg \in AddArgs(r)
  BY <1>2, <1>5
<1> QED BY <1>1, <1>3, <1>6, <1>7, <1>8, <1>9 DEF s

-----------------------------------------------------------------------------
(* The inductive invariant: types and ownership need each other, because a *)
(* step dereferences what the pool, the rings and the commands name.       *)

IInv == TypeOK /\ PayloadOwnership

\* Ownership only looks at five variables.
LEMMA OwnershipStutter ==
    ASSUME PayloadOwnership,
           UNCHANGED <<heap, commandRing, sequences, freedRing>>
    PROVE  PayloadOwnership'
BY DEF PayloadOwnership, Live, Queued, Adds, Pooled, Returned

\* Pushing a command that carries no payload (removeSequence,
\* cancelByTargetSlot), whether the ring has room or not.
LEMMA PushKeeps ==
    ASSUME IInv, NEW c \in Command, c.kind # "Add", Push(c),
           UNCHANGED <<heap, sequences, freedRing>>
    PROVE  /\ commandRing' \in Seq(Command) /\ Len(commandRing') =< CommandRingSize
           /\ lost' \subseteq Command
           /\ PayloadOwnership'
<1>1. CASE Len(commandRing) < CommandRingSize
  <2>1. commandRing' = Append(commandRing, c) /\ lost' = lost
    BY <1>1 DEF Push
  <2>2. commandRing \in Seq(Command) /\ Len(commandRing) \in Nat
    BY LenProperties DEF IInv, TypeOK
  <2>3. commandRing' \in Seq(Command) /\ Len(commandRing') = Len(commandRing) + 1
    BY <2>1, <2>2, AppendProperties
  <2>4. /\ AddArgs(commandRing') = AddArgs(commandRing)
        /\ AddsDistinct(commandRing) => AddsDistinct(commandRing')
    BY <2>1, <2>2, AppendCommand
  <2>5. PayloadOwnership'
    BY <2>4, QueuedIsAddArgs DEF IInv, PayloadOwnership, Live, Pooled, Returned
  <2> QED BY <1>1, <2>1, <2>2, <2>3, <2>5, SizesAssumption DEF IInv, TypeOK
<1>2. CASE ~(Len(commandRing) < CommandRingSize)
  <2>1. commandRing' = commandRing /\ lost' = lost \cup {c}
    BY <1>2 DEF Push
  <2>2. PayloadOwnership'
    BY <2>1, OwnershipStutter DEF IInv
  <2> QED BY <2>1, <2>2 DEF IInv, TypeOK
<1> QED BY <1>1, <1>2

-----------------------------------------------------------------------------
(* The message thread keeps the invariant.                                 *)

LEMMA InitKeeps == Init => IInv
<1> SUFFICES ASSUME Init PROVE IInv
  OBVIOUS
<1>1. Live = {} /\ Queued = {} /\ Returned = {} /\ Pooled = {}
  BY SizesAssumption DEF Init, Live, Queued, Adds, Returned, Pooled, PoolIndices, Null
<1>2. PayloadOwnership
  BY <1>1, SizesAssumption DEF Init, PayloadOwnership, Adds, Null
<1>3. TypeOK
  BY <1>1, SizesAssumption, EmptySeq
     DEF Init, TypeOK, Live, SequenceIds, SlotIds, PoolIndices, Null
<1> QED BY <1>2, <1>3 DEF IInv

LEMMA LoadKeeps == IInv /\ LoadPlugin => IInv'
<1> SUFFICES ASSUME IInv, LoadPlugin PROVE IInv'
  OBVIOUS
<1> USE DEF LoadPlugin, audioVars, history
<1>1. PayloadOwnership'
  BY OwnershipStutter DEF IInv
<1>2. /\ nextSlotId' \in 1..(MaxSlots + 1)
      /\ slots' \subseteq 1..(nextSlotId' - 1)
  BY SizesAssumption DEF IInv, TypeOK
<1>3. TypeOK'
  BY <1>2 DEF IInv, TypeOK, Live, mtVars
<1> QED BY <1>1, <1>3 DEF IInv

LEMMA UnloadKeeps ==
    ASSUME NEW slot \in SlotIds, IInv, UnloadPlugin(slot) PROVE IInv'
<1> DEFINE c == [kind |-> "CancelByTargetSlot", arg |-> slot]
<1>1. c \in Command /\ c.kind # "Add" /\ Push(c)
  BY DEF UnloadPlugin, Command
<1> HIDE DEF c
<1>2. /\ commandRing' \in Seq(Command) /\ Len(commandRing') =< CommandRingSize
      /\ lost' \subseteq Command
      /\ PayloadOwnership'
  BY <1>1, PushKeeps DEF UnloadPlugin, audioVars
<1>3. TypeOK'
  BY <1>2 DEF IInv, TypeOK, Live, UnloadPlugin, audioVars
<1> QED BY <1>2, <1>3 DEF IInv

LEMMA StopKeeps ==
    ASSUME NEW id \in SequenceIds, IInv, StopSequence(id) PROVE IInv'
<1> DEFINE c == [kind |-> "Remove", arg |-> id]
<1>1. c \in Command /\ c.kind # "Add" /\ Push(c)
  BY DEF StopSequence, Command
<1> HIDE DEF c
<1>2. /\ commandRing' \in Seq(Command) /\ Len(commandRing') =< CommandRingSize
      /\ lost' \subseteq Command
      /\ PayloadOwnership'
  BY <1>1, PushKeeps DEF StopSequence, audioVars
<1>3. stopped' \subseteq 1..(nextSequenceId' - 1)
  BY SizesAssumption DEF StopSequence, mtVars, IInv, TypeOK, SequenceIds
<1>4. TypeOK'
  BY <1>2, <1>3 DEF IInv, TypeOK, Live, StopSequence, mtVars, audioVars
<1> QED BY <1>2, <1>4 DEF IInv

\* What playMidiSequence hands to addSequence is a well-formed payload.
LEMMA NewSequenceType ==
    ASSUME NEW slot \in SlotIds, NEW score \in Scores, Accepts(score)
    PROVE  /\ NewSequence(slot, score) \in ActiveSequence
           /\ NewSequence(slot, score).next = 1
           /\ NewSequence(slot, score).notes = {}
           /\ Len(NewSequence(slot, score).events) \in Nat
<1>1. Len(score) \in Nat
  BY ScoresAssumption, LenProperties
<1>2. Compile(score) \in [1..Len(score) -> MidiEvent]
  BY ScoresAssumption DEF Compile
<1>3. Compile(score) \in Seq(MidiEvent)
  BY <1>1, <1>2, SeqDef
<1>4. MidiChannel(slot) \in MidiChannels
  BY ScoresAssumption DEF MidiChannel, MidiChannels
<1> QED BY <1>3, <1>4, ScoresAssumption, LenProperties
        DEF NewSequence, ActiveSequence

LEMMA PlayKeeps ==
    ASSUME NEW slot \in SlotIds, NEW score \in Scores, IInv,
           PlayMidiSequence(slot, score)
    PROVE  IInv'
<1> DEFINE id == nextSequenceId
           p  == NewSequence(slot, score)
           c  == [kind |-> "Add", arg |-> id]
<1>1. id \in SequenceIds /\ id \notin Live /\ c \in Command
  BY SizesAssumption DEF IInv, TypeOK, PlayMidiSequence, SequenceIds, Command
<1>2. p \in ActiveSequence /\ p.next = 1 /\ p.notes = {} /\ Len(p.events) \in Nat
  BY NewSequenceType DEF PlayMidiSequence
<1>3. c.kind = "Add" /\ c.arg = id
  OBVIOUS
<1>4. /\ nextSequenceId' \in 1..(MaxSequences + 1)
      /\ 1..(nextSequenceId - 1) \subseteq 1..(nextSequenceId' - 1)
      /\ id \in 1..(nextSequenceId' - 1)
  BY SizesAssumption DEF IInv, TypeOK, PlayMidiSequence
<1>5. CASE Len(commandRing) < CommandRingSize
  <2>1. /\ heap' = WithValue(heap, id, p)
        /\ commandRing' = Append(commandRing, c)
    BY <1>5 DEF PlayMidiSequence
  <2> HIDE DEF p, c
  <2>2. /\ Live' = Live \cup {id} /\ heap'[id] = p
        /\ \A other \in Live : heap'[other] = heap[other]
        /\ heap' \in [Live' -> ActiveSequence]
    BY <2>1, <1>1, <1>2 DEF WithValue, Live, IInv, TypeOK
  <2>3. commandRing \in Seq(Command) /\ Len(commandRing) \in Nat
    BY LenProperties DEF IInv, TypeOK
  <2>4. commandRing' \in Seq(Command) /\ Len(commandRing') =< CommandRingSize
    BY <2>1, <2>3, <1>1, <1>5, AppendProperties, SizesAssumption
  <2>5. id \notin Queued /\ id \notin Pooled /\ id \notin Returned
    BY <1>1 DEF IInv, PayloadOwnership
  <2>6. Queued' = Queued \cup {id} /\ AddsDistinct(commandRing')
    BY <2>1, <2>3, <2>5, <1>1, <1>3, QueuedIsAddArgs, AppendCommand
       DEF IInv, PayloadOwnership
  <2>7. Pooled' = Pooled /\ Returned' = Returned
    BY DEF Pooled, Returned, PlayMidiSequence, audioVars
  <2>8. PayloadOwnership'
    BY <2>2, <2>5, <2>6, <2>7, QueuedIsAddArgs
       DEF IInv, PayloadOwnership, PlayMidiSequence, audioVars
  <2>9. \A other \in Live' :
            /\ heap'[other].notes \subseteq 1..Len(heap'[other].events)
            /\ heap'[other].next \in 1..(Len(heap'[other].events) + 1)
    BY <2>2, <1>2 DEF IInv, TypeOK
  <2>10. Live' \subseteq 1..(nextSequenceId' - 1)
    BY <2>2, <1>4 DEF IInv, TypeOK
  <2>11. TypeOK'
    BY <1>4, <2>2, <2>4, <2>9, <2>10
       DEF IInv, TypeOK, PlayMidiSequence, audioVars, history
  <2> QED BY <2>8, <2>11 DEF IInv
<1>6. CASE ~(Len(commandRing) < CommandRingSize)
  <2>1. heap' = heap /\ commandRing' = commandRing
    BY <1>6 DEF PlayMidiSequence
  <2>2. PayloadOwnership'
    BY <2>1, OwnershipStutter DEF IInv, PlayMidiSequence, audioVars
  <2>3. TypeOK'
    BY <1>4, <2>1 DEF IInv, TypeOK, Live, PlayMidiSequence, audioVars, history
  <2> QED BY <2>2, <2>3 DEF IInv
<1> QED BY <1>5, <1>6

LEMMA DrainKeeps == IInv /\ DrainFinishedSequences => IInv'
<1> SUFFICES ASSUME IInv, DrainFinishedSequences PROVE IInv'
  OBVIOUS
<1>1. /\ Live' = Live \ Returned
      /\ \A id \in Live' : heap'[id] = heap[id]
      /\ heap' \in [Live' -> ActiveSequence]
  BY DEF DrainFinishedSequences, Live, IInv, TypeOK
<1>2. Returned' = {} /\ Queued' = Queued /\ Pooled' = Pooled /\ Adds' = Adds
  BY DEF DrainFinishedSequences, Returned, Queued, Adds, Pooled, audioVars
<1>3. DOMAIN freedRing' = {}
  BY DEF DrainFinishedSequences
<1>4. PayloadOwnership'
  BY <1>1, <1>2, <1>3 DEF IInv, PayloadOwnership, DrainFinishedSequences, audioVars
<1>5. freedRing' \in Seq(SequenceIds) /\ Len(freedRing') =< FreeRingSize
  BY EmptySeq, SizesAssumption DEF DrainFinishedSequences
<1>6. TypeOK'
  BY <1>1, <1>5 DEF IInv, TypeOK, DrainFinishedSequences, mtVars, audioVars, history
<1> QED BY <1>4, <1>6 DEF IInv

-----------------------------------------------------------------------------
(* The first of a set of numbers: of the empty pool entries, of the events *)
(* past the end of a block.                                                *)

LEMMA Least ==
    ASSUME NEW T, T \subseteq Nat, T # {}
    PROVE  \E x \in T : \A y \in T : x =< y
<1> DEFINE R == {ss \in Nat \X Nat : ss[1] < ss[2]}
<1>1. IsWellFoundedOn(R, Nat)
  BY NatLessThanWellFounded DEF OpToRel
<1>2. \A x, y \in Nat : y < x => <<y, x>> \in R
  OBVIOUS
<1> HIDE DEF R
<1>3. PICK x \in T : \A y \in T : ~(<<y, x>> \in R)
  BY <1>1, WFMin
<1>4. \A y \in T : ~(y < x)
  BY <1>2, <1>3
<1> QED BY <1>4

LEMMA FirstFreeType ==
    ASSUME FreeEntries # {}
    PROVE  FirstFree \in PoolIndices /\ sequences[FirstFree] = Null
<1>1. FreeEntries \subseteq Nat
  BY SizesAssumption DEF FreeEntries, PoolIndices
<1>2. \E i \in FreeEntries : \A j \in FreeEntries : i =< j
  BY <1>1, Least
<1> QED BY <1>2 DEF FirstFree, FreeEntries

-----------------------------------------------------------------------------
(* The audio thread keeps the invariant.                                   *)

LEMMA BeginKeeps ==
    ASSUME NEW n \in BlockSizes, IInv, BeginBlock(n) PROVE IInv'
<1>1. PayloadOwnership'
  BY OwnershipStutter DEF IInv, BeginBlock
<1>2. TypeOK'
  BY DEF IInv, TypeOK, Live, BeginBlock, mtVars, history
<1> QED BY <1>1, <1>2 DEF IInv

LEMMA DrainedKeeps == IInv /\ CommandsDrained => IInv'
<1> SUFFICES ASSUME IInv, CommandsDrained PROVE IInv'
  OBVIOUS
<1>1. PayloadOwnership'
  BY OwnershipStutter DEF IInv, CommandsDrained
<1>2. /\ pc' \in {"idle", "walk"} /\ cur' \in 1..(PoolSize + 1)
      /\ pc' = "walk" => numSamples > 0
  BY SizesAssumption DEF IInv, TypeOK, CommandsDrained
<1>3. TypeOK'
  BY <1>2 DEF IInv, TypeOK, Live, CommandsDrained, mtVars, history
<1> QED BY <1>1, <1>3 DEF IInv

\* AfterBlock yields <<channel, note>> pairs.
LEMMA EndKeeps == IInv /\ EndBlock => IInv'
<1> SUFFICES ASSUME IInv, EndBlock PROVE IInv'
  OBVIOUS
<1>1. PayloadOwnership'
  BY OwnershipStutter DEF IInv, EndBlock
<1>2. \A m \in midi : <<m.chan, m.note>> \in MidiChannels \X Notes
  BY DEF IInv, TypeOK, MidiMessage
<1>3. sounding' \subseteq MidiChannels \X Notes
  BY <1>2 DEF EndBlock, AfterBlock, IInv, TypeOK
<1>4. cur' \in 1..(PoolSize + 1)
  BY SizesAssumption DEF EndBlock
<1>5. TypeOK'
  BY <1>3, <1>4 DEF IInv, TypeOK, Live, EndBlock, mtVars, history
<1> QED BY <1>1, <1>5 DEF IInv

\* Appending an id to freedRing.
LEMMA AppendReturned ==
    ASSUME NEW r \in Seq(SequenceIds), NEW id \in SequenceIds
    PROVE  LET s == Append(r, id)
           IN  /\ s \in Seq(SequenceIds) /\ Len(s) = Len(r) + 1
               /\ {s[i] : i \in DOMAIN s} = {r[i] : i \in DOMAIN r} \cup {id}
               /\ (/\ \A i, j \in DOMAIN r : r[i] = r[j] => i = j
                   /\ id \notin {r[i] : i \in DOMAIN r})
                  => \A i, j \in DOMAIN s : s[i] = s[j] => i = j
<1> DEFINE s == Append(r, id)
<1>1. /\ DOMAIN r = 1..Len(r) /\ DOMAIN s = 1..(Len(r) + 1) /\ Len(r) \in Nat
      /\ \A i \in 1..Len(r) : s[i] = r[i]
      /\ s[Len(r) + 1] = id /\ s \in Seq(SequenceIds) /\ Len(s) = Len(r) + 1
  BY AppendProperties
<1> HIDE DEF s
<1>2. {s[i] : i \in DOMAIN s} = {r[i] : i \in DOMAIN r} \cup {id}
  BY <1>1
<1>3. ASSUME \A i, j \in DOMAIN r : r[i] = r[j] => i = j,
             id \notin {r[i] : i \in DOMAIN r}
      PROVE  \A i, j \in DOMAIN s : s[i] = s[j] => i = j
  BY <1>1, <1>3
<1> QED BY <1>1, <1>2, <1>3 DEF s

\* A step that only sets stop flags disturbs neither types nor ownership.
LEMMA RequestStopKeeps ==
    ASSUME IInv, NEW M, RequestStop(M)
    PROVE  /\ Live' = Live
           /\ heap' \in [Live' -> ActiveSequence]
           /\ \A id \in Live : /\ heap'[id].notes = heap[id].notes
                               /\ heap'[id].next = heap[id].next
                               /\ heap'[id].events = heap[id].events
<1>1. Live' = Live /\ DOMAIN heap' = Live
  BY DEF RequestStop, Live
<1>2. \A id \in Live : heap[id] \in ActiveSequence
  BY DEF IInv, TypeOK
<1>3. \A id \in Live : heap'[id] = heap[id] \/ heap'[id] = [heap[id] EXCEPT !.stop = TRUE]
  BY DEF RequestStop
<1>4. \A id \in Live : /\ heap'[id] \in ActiveSequence
                       /\ heap'[id].notes = heap[id].notes
                       /\ heap'[id].next = heap[id].next
                       /\ heap'[id].events = heap[id].events
  <2> SUFFICES ASSUME NEW id \in Live,
                      heap'[id] = [heap[id] EXCEPT !.stop = TRUE]
               PROVE  /\ heap'[id] \in ActiveSequence
                      /\ heap'[id].notes = heap[id].notes
                      /\ heap'[id].next = heap[id].next
                      /\ heap'[id].events = heap[id].events
    BY <1>2, <1>3
  <2> DEFINE p == heap[id]
  <2>1. p \in ActiveSequence
    BY <1>2
  <2> HIDE DEF p
  <2>2. LET q == [p EXCEPT !.stop = TRUE]
        IN  /\ q \in ActiveSequence
            /\ q.notes = p.notes /\ q.next = p.next /\ q.events = p.events
    BY <2>1 DEF ActiveSequence
  <2> QED BY <2>2 DEF p
<1>5. heap' = [id \in Live |-> heap'[id]]
  BY DEF RequestStop
<1> QED BY <1>1, <1>4, <1>5

LEMMA ApplyKeeps == IInv /\ ApplyCommand => IInv'
<1> SUFFICES ASSUME IInv, ApplyCommand PROVE IInv'
  OBVIOUS
<1> DEFINE c == Head(commandRing)
<1>1. commandRing \in Seq(Command) /\ commandRing # <<>> /\ AddsDistinct(commandRing)
  BY QueuedIsAddArgs DEF ApplyCommand, IInv, TypeOK, PayloadOwnership
<1>2. /\ commandRing' \in Seq(Command) /\ Len(commandRing') =< CommandRingSize
      /\ c \in Command
  BY <1>1, HeadTailProperties, LenProperties, SizesAssumption
     DEF ApplyCommand, IInv, TypeOK
<1>3. /\ AddsDistinct(commandRing')
      /\ c.kind # "Add" => Queued' = Queued
      /\ c.kind = "Add" => c.arg \in Queued /\ Queued' = Queued \ {c.arg}
  BY <1>1, TailCommand, QueuedIsAddArgs DEF ApplyCommand
<1>4. \A i, j \in Adds' : commandRing'[i].arg = commandRing'[j].arg => i = j
  BY <1>3, QueuedIsAddArgs
<1> DEFINE id == c.arg
<1>5. c.kind = "Add" => /\ id \in SequenceIds /\ id \in Live
                        /\ id \notin Pooled /\ id \notin Returned
  BY <1>2, <1>3, SizesAssumption
     DEF Command, IInv, TypeOK, PayloadOwnership, SequenceIds
<1> HIDE DEF c
<1>0. UNCHANGED <<nextSlotId, slots, nextSequenceId, pc, cur, numSamples, midi,
                  sounding, lost, stopped, untracked>>
  BY DEF ApplyCommand, mtVars
<1>6. CASE c.kind # "Add"
  <2>1. PICK M : RequestStop(M)
    BY <1>6 DEF ApplyCommand, c
  <2>2. /\ Live' = Live
        /\ heap' \in [Live' -> ActiveSequence]
        /\ \A i \in Live : /\ heap'[i].notes = heap[i].notes
                           /\ heap'[i].next = heap[i].next
                           /\ heap'[i].events = heap[i].events
    BY <2>1, RequestStopKeeps
  <2>3. /\ sequences' = sequences /\ freedRing' = freedRing
        /\ audioFreed' = audioFreed /\ dropped' = dropped
    BY <2>1 DEF RequestStop
  <2>4. PayloadOwnership'
    BY <1>3, <1>4, <1>6, <2>2, <2>3 DEF IInv, PayloadOwnership, Pooled, Returned
  <2>5. TypeOK'
    BY <1>0, <1>2, <2>2, <2>3 DEF IInv, TypeOK
  <2> QED BY <2>4, <2>5 DEF IInv
<1>7. CASE c.kind = "Add"
  <2>1. PlaceSequence(id)
    BY <1>7 DEF ApplyCommand, c
  <2>2. CASE FreeEntries # {}
    <3>1. /\ sequences' = [sequences EXCEPT ![FirstFree] = id]
          /\ UNCHANGED <<freedRing, heap, audioFreed, dropped>>
      BY <2>1, <2>2 DEF PlaceSequence
    <3>2. FirstFree \in PoolIndices /\ sequences[FirstFree] = Null
      BY <2>2, FirstFreeType
    <3>3. sequences' \in [PoolIndices -> SequenceIds \cup {Null}]
      BY <3>1, <1>5, <1>7 DEF IInv, TypeOK
    <3>4. Pooled' = Pooled \cup {id} /\ Returned' = Returned /\ Live' = Live
      BY <3>1, <3>2, <1>5, <1>7
         DEF IInv, TypeOK, Pooled, Returned, Live, SequenceIds, Null
    <3>5. \A i, j \in PoolIndices :
              sequences'[i] = sequences'[j] /\ sequences'[i] # Null => i = j
      BY <3>1, <3>2, <1>5, <1>7 DEF IInv, TypeOK, PayloadOwnership, Pooled
    <3>6. PayloadOwnership'
      BY <1>3, <1>4, <1>5, <1>7, <3>1, <3>4, <3>5 DEF IInv, PayloadOwnership
    <3>7. TypeOK'
      BY <1>0, <1>2, <3>1, <3>3, <3>4 DEF IInv, TypeOK
    <3> QED BY <3>6, <3>7 DEF IInv
  <2>3. CASE FreeEntries = {} /\ Len(freedRing) < FreeRingSize
    <3>1. /\ freedRing' = Append(freedRing, id) /\ dropped' = dropped \cup {id}
          /\ UNCHANGED <<sequences, heap, audioFreed>>
      BY <2>1, <2>3, LenProperties, SizesAssumption DEF PlaceSequence, IInv, TypeOK
    <3>2. freedRing \in Seq(SequenceIds) /\ Len(freedRing) \in Nat
      BY LenProperties DEF IInv, TypeOK
    <3>3. /\ freedRing' \in Seq(SequenceIds) /\ Len(freedRing') =< FreeRingSize
          /\ Returned' = Returned \cup {id}
          /\ \A i, j \in DOMAIN freedRing' : freedRing'[i] = freedRing'[j] => i = j
      BY <3>1, <3>2, <1>5, <1>7, <2>3, AppendReturned, SizesAssumption
         DEF Returned, IInv, PayloadOwnership
    <3>4. Pooled' = Pooled /\ Live' = Live
      BY <3>1 DEF Pooled, Live
    <3>5. PayloadOwnership'
      BY <1>3, <1>4, <1>5, <1>7, <3>1, <3>3, <3>4 DEF IInv, PayloadOwnership
    <3>6. TypeOK'
      BY <1>0, <1>2, <1>5, <1>7, <3>1, <3>3, <3>4 DEF IInv, TypeOK
    <3> QED BY <3>5, <3>6 DEF IInv
  <2>4. CASE FreeEntries = {} /\ Len(freedRing) >= FreeRingSize
    <3>1. /\ heap' = Without(heap, id) /\ audioFreed' = audioFreed \cup {id}
          /\ dropped' = dropped \cup {id} /\ UNCHANGED <<sequences, freedRing>>
      BY <2>1, <2>4, LenProperties, SizesAssumption DEF PlaceSequence, IInv, TypeOK
    <3>2. /\ Live' = Live \ {id} /\ heap' \in [Live' -> ActiveSequence]
          /\ \A i \in Live' : heap'[i] = heap[i]
      BY <3>1 DEF Without, Live, IInv, TypeOK
    <3>3. Pooled' = Pooled /\ Returned' = Returned
      BY <3>1 DEF Pooled, Returned
    <3>4. PayloadOwnership'
      BY <1>3, <1>4, <1>5, <1>7, <3>1, <3>2, <3>3 DEF IInv, PayloadOwnership
    <3>5. TypeOK'
      BY <1>0, <1>2, <1>5, <1>7, <3>1, <3>2 DEF IInv, TypeOK
    <3> QED BY <3>4, <3>5 DEF IInv
  <2> QED BY <2>1, <2>2, <2>3, <2>4 DEF PlaceSequence
<1> QED BY <1>6, <1>7

\* The parts of a payload.
LEMMA PayloadParts ==
    ASSUME NEW p \in ActiveSequence
    PROVE  /\ Len(p.events) \in Nat /\ p.next \in Nat /\ p.cursor \in Nat
           /\ p.chan \in MidiChannels
           /\ \A k \in 1..Len(p.events) : /\ p.events[k].start \in Nat
                                          /\ p.events[k].end \in Nat
                                          /\ p.events[k].note \in Notes
<1>1. p.events \in Seq(MidiEvent)
  BY DEF ActiveSequence
<1>2. ASSUME NEW k \in 1..Len(p.events)
      PROVE  /\ p.events[k].start \in Nat /\ p.events[k].end \in Nat
             /\ p.events[k].note \in Notes
  <2>1. p.events[k] \in MidiEvent
    BY <1>1, ElementOfSeq
  <2> QED BY <2>1 DEF MidiEvent
<1> QED BY <1>1, <1>2, LenProperties, ScoresAssumption DEF ActiveSequence

\* Offsets are natural numbers.
LEMMA OffsetType ==
    ASSUME NEW a \in Nat, NEW b \in Nat, NEW n \in Nat \ {0}
    PROVE  AtLeastZero(a - b) \in Nat /\ AtMost(AtLeastZero(a - b), n - 1) \in Nat
BY DEF AtLeastZero, AtMost

\* The event loop stops at the first event past the block, or at the end.
LEMMA WalkEndProperties ==
    ASSUME NEW p \in ActiveSequence, p.next \in 1..(Len(p.events) + 1),
           NEW b \in Int
    PROVE  /\ WalkEnd(p, b) \in p.next..(Len(p.events) + 1)
           /\ \A j \in p.next..(WalkEnd(p, b) - 1) : p.events[j].start < b
           /\ WalkEnd(p, b) =< Len(p.events) => p.events[WalkEnd(p, b)].start >= b
<1> DEFINE N == Len(p.events)
           T == {k \in p.next..(N + 1) : k =< N => p.events[k].start >= b}
<1>1. N \in Nat /\ p.next \in Nat /\ \A k \in 1..N : p.events[k].start \in Nat
  BY PayloadParts
<1>2. N + 1 \in T /\ T \subseteq Nat
  BY <1>1
<1>3. PICK x \in T : \A y \in T : x =< y
  BY <1>2, Least
<1>4. ASSUME NEW j \in p.next..(x - 1) PROVE p.events[j].start < b
  <2>1. j \in p.next..(N + 1) /\ j =< N /\ j < x /\ j \in 1..N
    BY <1>1, <1>3
  <2>2. j \notin T
    BY <1>1, <1>3, <2>1
  <2> QED BY <1>1, <2>1, <2>2
<1>5. \E k \in p.next..(N + 1) :
          /\ \A j \in p.next..(k - 1) : p.events[j].start < b
          /\ k =< N => p.events[k].start >= b
  BY <1>3, <1>4
<1> QED BY <1>5 DEF WalkEnd

\* What processBlock makes of a payload in one block is again a payload.
LEMMA PlayedType ==
    ASSUME NEW p \in ActiveSequence, IInv,
           p.next \in 1..(Len(p.events) + 1), p.notes \subseteq 1..Len(p.events)
    PROVE  /\ Played(p) \in ActiveSequence
           /\ Played(p).events = p.events
           /\ Played(p).next \in 1..(Len(p.events) + 1)
           /\ Played(p).notes \subseteq 1..Len(p.events)
           /\ Due(p) \subseteq 1..Len(p.events)
           /\ Expired(p) \subseteq 1..Len(p.events)
<1>1. /\ Len(p.events) \in Nat /\ p.next \in Nat \ {0} /\ p.cursor \in 0..Horizon
      /\ p.cursor \in Nat
  BY LenProperties, ScoresAssumption DEF ActiveSequence
<1>2. numSamples \in Nat
  BY SizesAssumption DEF IInv, TypeOK
<1>3. BlockEnd(p) \in Nat
  BY <1>1, <1>2 DEF BlockEnd
<1>4. WalkEnd(p, BlockEnd(p)) \in p.next..(Len(p.events) + 1)
  BY <1>3, WalkEndProperties
<1>5. /\ WalkEnd(p, BlockEnd(p)) \in 1..(Len(p.events) + 1)
      /\ WalkEnd(p, BlockEnd(p)) \in Nat \ {0}
      /\ Due(p) \subseteq 1..Len(p.events)
  BY <1>1, <1>4 DEF Due
<1>6. /\ Tracked(p) \subseteq 1..Len(p.events)
      /\ Expired(p) \subseteq 1..Len(p.events)
  BY <1>5 DEF Tracked, Expired
<1>7. AtMost(BlockEnd(p), Horizon) \in 0..Horizon
  BY <1>3, ScoresAssumption DEF AtMost
<1>8. /\ (p.notes \cup Tracked(p)) \ Expired(p) \subseteq 1..Len(p.events)
      /\ (p.notes \cup Tracked(p)) \ Expired(p) \subseteq Nat \ {0}
  BY <1>1, <1>6
<1> QED BY <1>5, <1>6, <1>7, <1>8 DEF Played, ActiveSequence

\* A message about an event of a payload is a message.
LEMMA NoteMessageType ==
    ASSUME NEW p \in ActiveSequence, NEW k \in 1..Len(p.events),
           NEW on \in BOOLEAN, NEW pos \in Nat, cur \in PoolIndices
    PROVE  /\ NoteMessage(p, k, on, pos) \in MidiMessage
           /\ <<p.chan, p.events[k].note>> \in MidiChannels \X Notes
BY PayloadParts DEF NoteMessage, MidiMessage

\* The payload of pool entry cur is replaced in place.
LEMMA UpdateEntry ==
    ASSUME IInv, NEW id, id = sequences[cur], cur \in PoolIndices, id # Null,
           NEW p \in ActiveSequence,
           p.next \in 1..(Len(p.events) + 1), p.notes \subseteq 1..Len(p.events),
           heap' = [heap EXCEPT ![id] = p]
    PROVE  /\ id \in Live /\ id \in Pooled /\ id \in SequenceIds
           /\ Live' = Live
           /\ heap' \in [Live' -> ActiveSequence]
           /\ \A other \in Live' :
                 /\ heap'[other].notes \subseteq 1..Len(heap'[other].events)
                 /\ heap'[other].next \in 1..(Len(heap'[other].events) + 1)
<1>1. id \in Pooled /\ id \in SequenceIds
  BY DEF Pooled, IInv, TypeOK
<1>2. id \in Live
  BY <1>1 DEF IInv, PayloadOwnership
<1>3. Live' = Live /\ heap' \in [Live' -> ActiveSequence]
  BY <1>2 DEF Live, IInv, TypeOK
<1>4. \A other \in Live : heap'[other] = IF other = id THEN p ELSE heap[other]
  BY <1>2 DEF Live, IInv, TypeOK
<1> QED BY <1>1, <1>2, <1>3, <1>4 DEF IInv, TypeOK

\* retireSequence, whether freedRing has room or not.
LEMMA RetireKeeps ==
    ASSUME IInv, cur \in PoolIndices, sequences[cur] # Null,
           NEW p \in ActiveSequence,
           p.next \in 1..(Len(p.events) + 1), p.notes \subseteq 1..Len(p.events),
           Retire(p), commandRing' = commandRing
    PROVE  /\ PayloadOwnership'
           /\ sequences' \in [PoolIndices -> SequenceIds \cup {Null}]
           /\ freedRing' \in Seq(SequenceIds) /\ Len(freedRing') =< FreeRingSize
<1> DEFINE id == sequences[cur]
<1>1. /\ id \in Live /\ id \in Pooled /\ id \in SequenceIds /\ Live' = Live
  BY UpdateEntry DEF Retire
<1>2. Queued' = Queued /\ Adds' = Adds
  BY DEF Queued, Adds
<1>3. freedRing \in Seq(SequenceIds) /\ Len(freedRing) \in Nat
  BY LenProperties DEF IInv, TypeOK
<1>4. CASE Len(freedRing) < FreeRingSize
  <2>1. /\ freedRing' = Append(freedRing, id)
        /\ sequences' = [sequences EXCEPT ![cur] = Null]
    BY <1>4 DEF Retire
  <2>2. id \notin Returned
    BY <1>1 DEF IInv, PayloadOwnership
  <2>3. /\ freedRing' \in Seq(SequenceIds) /\ Len(freedRing') =< FreeRingSize
        /\ Returned' = Returned \cup {id}
        /\ \A i, j \in DOMAIN freedRing' : freedRing'[i] = freedRing'[j] => i = j
    BY <2>1, <2>2, <1>1, <1>3, <1>4, AppendReturned, SizesAssumption
       DEF Returned, IInv, PayloadOwnership
  <2>4. sequences' \in [PoolIndices -> SequenceIds \cup {Null}]
    BY <2>1 DEF IInv, TypeOK
  <2>5. \A i \in PoolIndices : sequences'[i] = IF i = cur THEN Null ELSE sequences[i]
    BY <2>1 DEF IInv, TypeOK
  <2>6. /\ \A i, j \in PoolIndices :
               sequences'[i] = sequences'[j] /\ sequences'[i] # Null => i = j
        /\ Pooled' = Pooled \ {id}
    BY <2>5 DEF IInv, PayloadOwnership, Pooled
  <2>7. PayloadOwnership'
    BY <1>1, <1>2, <2>3, <2>6 DEF IInv, PayloadOwnership
  <2> QED BY <2>3, <2>4, <2>7
<1>5. CASE ~(Len(freedRing) < FreeRingSize)
  <2>1. freedRing' = freedRing /\ sequences' = sequences
    BY <1>5 DEF Retire
  <2>2. Pooled' = Pooled /\ Returned' = Returned
    BY <2>1 DEF Pooled, Returned
  <2>3. PayloadOwnership'
    BY <1>1, <1>2, <2>1, <2>2 DEF IInv, PayloadOwnership
  <2> QED BY <2>1, <2>3 DEF IInv, TypeOK
<1> QED BY <1>4, <1>5

LEMMA ProcessKeeps == IInv /\ ProcessEntry => IInv'
<1> SUFFICES ASSUME IInv, ProcessEntry PROVE IInv'
  OBVIOUS
<1>0. /\ cur \in PoolIndices /\ pc = "walk" /\ cur' = cur + 1
      /\ UNCHANGED <<nextSlotId, slots, nextSequenceId, commandRing, pc, numSamples,
                     sounding, lost, stopped, audioFreed, dropped>>
  BY DEF ProcessEntry, mtVars
<1>1. cur' \in 1..(PoolSize + 1)
  BY <1>0, SizesAssumption DEF PoolIndices
<1>2. CASE SkipEntry
  <2>1. UNCHANGED <<heap, freedRing, sequences, midi, untracked>>
    BY <1>2 DEF SkipEntry
  <2>2. PayloadOwnership'
    BY <1>0, <2>1, OwnershipStutter DEF IInv
  <2>3. TypeOK'
    BY <1>0, <1>1, <2>1 DEF IInv, TypeOK, Live
  <2> QED BY <2>2, <2>3 DEF IInv
<1> DEFINE id == sequences[cur]
           p  == heap[id]
<1>3. ASSUME id # Null
      PROVE  /\ id \in Live /\ p \in ActiveSequence
             /\ p.next \in 1..(Len(p.events) + 1) /\ p.notes \subseteq 1..Len(p.events)
             /\ Len(p.events) \in Nat
  <2>1. id \in Live
    BY <1>0, <1>3 DEF Pooled, IInv, TypeOK, PayloadOwnership
  <2> QED BY <2>1, LenProperties DEF IInv, TypeOK, ActiveSequence
<1>p. p = heap[id]
  OBVIOUS
<1> HIDE DEF p
<1>4. CASE id # Null /\ StopEntry
  <2> DEFINE q == [p EXCEPT !.notes = {}]
  <2>1. /\ Retire(q) /\ untracked' = untracked
        /\ midi' = midi \cup {NoteMessage(p, k, FALSE, 0) : k \in p.notes}
    BY <1>4, <1>p DEF StopEntry
  <2>2. /\ q \in ActiveSequence
        /\ q.next \in 1..(Len(q.events) + 1) /\ q.notes \subseteq 1..Len(q.events)
    BY <1>3, <1>4 DEF ActiveSequence
  <2>3. midi' \subseteq MidiMessage
    <3>1. \A k \in p.notes : NoteMessage(p, k, FALSE, 0) \in MidiMessage
      BY <1>0, <1>3, <1>4, NoteMessageType
    <3> QED BY <2>1, <3>1 DEF IInv, TypeOK
  <2> HIDE DEF q
  <2>4. /\ PayloadOwnership'
        /\ sequences' \in [PoolIndices -> SequenceIds \cup {Null}]
        /\ freedRing' \in Seq(SequenceIds) /\ Len(freedRing') =< FreeRingSize
    BY <2>1, <2>2, <1>0, <1>4, RetireKeeps
  <2>5. /\ Live' = Live /\ heap' \in [Live' -> ActiveSequence]
        /\ \A other \in Live' :
              /\ heap'[other].notes \subseteq 1..Len(heap'[other].events)
              /\ heap'[other].next \in 1..(Len(heap'[other].events) + 1)
    BY <2>1, <2>2, <1>0, <1>4, UpdateEntry DEF Retire
  <2>6. TypeOK'
    BY <1>0, <1>1, <2>1, <2>3, <2>4, <2>5 DEF IInv, TypeOK
  <2> QED BY <2>4, <2>6 DEF IInv
<1>5. CASE id # Null /\ PlayEntry
  <2> DEFINE q == Played(p)
  <2>1. /\ q \in ActiveSequence
        /\ q.next \in 1..(Len(q.events) + 1) /\ q.notes \subseteq 1..Len(q.events)
        /\ Due(p) \subseteq 1..Len(p.events) /\ Expired(p) \subseteq 1..Len(p.events)
    BY <1>3, <1>5, PlayedType
  <2>2. /\ midi' = midi
              \cup {NoteMessage(p, k, TRUE,
                       AtLeastZero(p.events[k].start - p.cursor)) : k \in Due(p)}
              \cup {NoteMessage(p, k, FALSE,
                       AtMost(AtLeastZero(p.events[k].end - p.cursor),
                              numSamples - 1)) : k \in Expired(p)}
        /\ untracked' = untracked
              \cup {<<p.chan, p.events[k].note>> : k \in Due(p) \ Tracked(p)}
        /\ \/ Retire(q)
           \/ /\ heap' = [heap EXCEPT ![id] = q]
              /\ freedRing' = freedRing /\ sequences' = sequences
    BY <1>5, <1>p DEF PlayEntry
  <2>3. numSamples \in Nat \ {0}
    <3>1. numSamples \in Nat
      BY SizesAssumption DEF IInv, TypeOK
    <3>2. numSamples > 0
      BY <1>0 DEF IInv, TypeOK
    <3> QED BY <3>1, <3>2
  <2>4. \A k \in 1..Len(p.events) :
            /\ AtLeastZero(p.events[k].start - p.cursor) \in Nat
            /\ AtMost(AtLeastZero(p.events[k].end - p.cursor), numSamples - 1) \in Nat
    BY <1>3, <1>5, <2>3, PayloadParts, OffsetType
  <2>5. midi' \subseteq MidiMessage /\ untracked' \subseteq MidiChannels \X Notes
    <3>1. \A k \in Due(p) : NoteMessage(p, k, TRUE,
              AtLeastZero(p.events[k].start - p.cursor)) \in MidiMessage
      BY <1>0, <1>3, <1>5, <2>1, <2>4, NoteMessageType
    <3>2. \A k \in Expired(p) : NoteMessage(p, k, FALSE,
              AtMost(AtLeastZero(p.events[k].end - p.cursor), numSamples - 1))
                  \in MidiMessage
      BY <1>0, <1>3, <1>5, <2>1, <2>4, NoteMessageType
    <3>3. \A k \in Due(p) : <<p.chan, p.events[k].note>> \in MidiChannels \X Notes
      BY <1>3, <1>5, <1>0, <2>1, NoteMessageType
    <3>4. midi \subseteq MidiMessage /\ untracked \subseteq MidiChannels \X Notes
      BY DEF IInv, TypeOK
    <3>5. midi' \subseteq MidiMessage
      BY <2>2, <3>1, <3>2, <3>4
    <3>6. untracked' \subseteq MidiChannels \X Notes
      BY <2>2, <3>3, <3>4
    <3> QED BY <3>5, <3>6
  <2> HIDE DEF q
  <2>6. heap' = [heap EXCEPT ![id] = q]
    BY <2>2 DEF Retire
  <2>7. /\ Live' = Live /\ heap' \in [Live' -> ActiveSequence]
        /\ \A other \in Live' :
              /\ heap'[other].notes \subseteq 1..Len(heap'[other].events)
              /\ heap'[other].next \in 1..(Len(heap'[other].events) + 1)
    BY <2>1, <2>6, <1>0, <1>5, UpdateEntry
  <2>8. /\ PayloadOwnership'
        /\ sequences' \in [PoolIndices -> SequenceIds \cup {Null}]
        /\ freedRing' \in Seq(SequenceIds) /\ Len(freedRing') =< FreeRingSize
    <3>1. CASE Retire(q)
      BY <3>1, <2>1, <1>0, <1>5, RetireKeeps
    <3>2. CASE freedRing' = freedRing /\ sequences' = sequences
      <4>1. Pooled' = Pooled /\ Returned' = Returned /\ Queued' = Queued /\ Adds' = Adds
        BY <3>2, <1>0 DEF Pooled, Returned, Queued, Adds
      <4> QED BY <3>2, <4>1, <2>7, <1>0 DEF IInv, TypeOK, PayloadOwnership
    <3> QED BY <2>2, <3>1, <3>2
  <2>9. TypeOK'
    BY <1>0, <1>1, <2>5, <2>7, <2>8 DEF IInv, TypeOK
  <2> QED BY <2>8, <2>9 DEF IInv
<1> QED BY <1>2, <1>4, <1>5 DEF ProcessEntry

-----------------------------------------------------------------------------
(* The theorems.                                                           *)

LEMMA NextKeeps == IInv /\ [Next]_vars => IInv'
<1> SUFFICES ASSUME IInv, [Next]_vars PROVE IInv'
  OBVIOUS
<1>1. CASE LoadPlugin
  BY <1>1, LoadKeeps
<1>2. ASSUME NEW slot \in SlotIds, UnloadPlugin(slot) PROVE IInv'
  BY <1>2, UnloadKeeps
<1>3. ASSUME NEW slot \in SlotIds, NEW score \in Scores, PlayMidiSequence(slot, score)
      PROVE  IInv'
  BY <1>3, PlayKeeps
<1>4. ASSUME NEW id \in SequenceIds, StopSequence(id) PROVE IInv'
  BY <1>4, StopKeeps
<1>5. CASE DrainFinishedSequences
  BY <1>5, DrainKeeps
<1>6. ASSUME NEW n \in BlockSizes, BeginBlock(n) PROVE IInv'
  BY <1>6, BeginKeeps
<1>7. CASE ApplyCommand
  BY <1>7, ApplyKeeps
<1>8. CASE CommandsDrained
  BY <1>8, DrainedKeeps
<1>9. CASE ProcessEntry
  BY <1>9, ProcessKeeps
<1>10. CASE EndBlock
  BY <1>10, EndKeeps
<1>11. CASE UNCHANGED vars
  <2>1. PayloadOwnership'
    BY <1>11, OwnershipStutter DEF IInv, vars, audioVars
  <2>2. TypeOK'
    BY <1>11 DEF IInv, TypeOK, Live, vars, mtVars, audioVars, history
  <2> QED BY <2>1, <2>2 DEF IInv
<1> QED BY <1>1, <1>2, <1>3, <1>4, <1>5, <1>6, <1>7, <1>8, <1>9, <1>10, <1>11
        DEF Next, MessageThread, AudioThread

LEMMA Invariance == Spec => []IInv
BY InitKeeps, NextKeeps, PTL DEF Spec

\* SchedulerNode: no step of either thread leaves the types; in particular the
\* walk dereferences only payloads that exist and events of the score.
THEOREM TypeCorrect == Spec => []TypeOK
BY Invariance, PTL DEF IInv

\* SchedulerNode: for any pool, rings and scores every payload has exactly one
\* owner at every moment, so none is leaked, freed twice or freed in use.
THEOREM OwnershipHolds == Spec => []PayloadOwnership
BY Invariance, PTL DEF IInv

=============================================================================
