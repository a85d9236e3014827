------------------------ MODULE SchedulerSafetyProofs ------------------------
(***************************************************************************)
(* The safety properties of SchedulerNode for every size of the pool, the  *)
(* rings and the note table, every score and any number of sequences and   *)
(* slots: commands reach what they are meant for, sequences live once and  *)
(* in order (the refinement of SequenceLifecycle), nothing is emitted      *)
(* late, no note is left behind.  All of them rest on the types and the    *)
(* ownership of payloads that SchedulerNodeProofs shows.                   *)
(***************************************************************************)
EXTENDS SchedulerNodeProofs

-----------------------------------------------------------------------------
(* What the properties need beyond themselves to be inductive.             *)

\* The lifecycle: Adds are queued in the order of their ids.
QueueInOrder ==
    \A i, j \in Adds : i < j => commandRing[i].arg < commandRing[j].arg

\* Retiring: a queued payload holds no note, so one turned away is silent.
QueuedFresh == \A id \in Queued : heap[id].notes = {}

\* Timing: events are in order, an event ends no earlier than it starts, and
\* nothing that is still to be emitted lies before the cursor.
InOrder(events) ==
    \A j, k \in 1..Len(events) : j < k => events[j].start =< events[k].start

Timely(p) ==
    /\ InOrder(p.events)
    /\ \A k \in 1..Len(p.events) : p.events[k].start =< p.events[k].end
    /\ \A k \in p.next..Len(p.events) : p.events[k].start >= p.cursor
    /\ \A k \in p.notes : p.events[k].end >= p.cursor

PayloadsTimely == \A id \in Live : Timely(heap[id])

\* Notes: pool entry i holds the note cn in its table ...
Holds(i, cn) ==
    /\ sequences[i] # Null
    /\ \E k \in heap[sequences[i]].notes :
          cn = <<heap[sequences[i]].chan, heap[sequences[i]].events[k].note>>

\* ... the messages of a block come from the entries walked so far ...
BlockSoFar ==
    /\ pc # "walk" => midi = {}
    /\ \A m \in midi : m.src < cur

\* ... a note-on of the block is untracked, ended behind it in the block, or
\* held by its own entry (another's would be ended with that one) ...
OnsEnd ==
    \A a \in midi : a.on =>
        \/ <<a.chan, a.note>> \in untracked
        \/ \E o \in midi : ~o.on /\ SameNote(a, o) /\ Before(a, o)
        \/ Holds(a.src, <<a.chan, a.note>>)

\* ... and a note that sounded before the block is ended in it or still held.
SoundingEnds ==
    \A cn \in sounding \ untracked :
        \/ \E o \in midi : ~o.on /\ cn = <<o.chan, o.note>>
        \/ \E i \in PoolIndices : Holds(i, cn)

NotesEnd == BlockSoFar /\ OnsEnd /\ SoundingEnds

-----------------------------------------------------------------------------
(* What each step does to the queue, the pool, freedRing and the payloads. *)

\* Unloading and stopping push a command that carries no payload.
LEMMA PushEffect ==
    ASSUME IInv, NEW c \in Command, c.kind # "Add", Push(c)
    PROVE  /\ Queued' = Queued
           /\ \/ commandRing' = Append(commandRing, c) /\ lost' = lost
              \/ commandRing' = commandRing /\ lost' = lost \cup {c}
<1>1. commandRing \in Seq(Command)
  BY DEF IInv, TypeOK
<1>2. CASE commandRing' = Append(commandRing, c) /\ lost' = lost
  BY <1>1, <1>2, AppendCommand, QueuedIsAddArgs
<1>3. CASE commandRing' = commandRing /\ lost' = lost \cup {c}
  BY <1>3, QueuedIsAddArgs
<1> QED BY <1>2, <1>3 DEF Push

\* playMidiSequence queues one new payload or uses up an id.
LEMMA PlayEffect ==
    ASSUME NEW slot \in SlotIds, NEW score \in Scores, IInv,
           PlayMidiSequence(slot, score)
    PROVE  /\ nextSequenceId \in SequenceIds /\ nextSequenceId \notin Live
           /\ \A id \in Live \cup stopped : id \in Nat /\ id < nextSequenceId
           /\ Pooled' = Pooled /\ Returned' = Returned
           /\ \/ /\ commandRing' = Append(commandRing,
                                           [kind |-> "Add", arg |-> nextSequenceId])
                 /\ Queued' = Queued \cup {nextSequenceId}
                 /\ Live' = Live \cup {nextSequenceId}
                 /\ heap'[nextSequenceId] = NewSequence(slot, score)
                 /\ \A id \in Live : heap'[id] = heap[id]
              \/ /\ commandRing' = commandRing /\ heap' = heap
                 /\ Queued' = Queued /\ Live' = Live
<1> DEFINE id == nextSequenceId
           c  == [kind |-> "Add", arg |-> id]
<1>1. id \in SequenceIds /\ id \notin Live /\ c \in Command
  BY SizesAssumption DEF IInv, TypeOK, PlayMidiSequence, SequenceIds, Command
<1>2. \A other \in Live \cup stopped : other \in Nat /\ other < id
  BY SizesAssumption DEF IInv, TypeOK
<1>3. Pooled' = Pooled /\ Returned' = Returned
  BY DEF Pooled, Returned, PlayMidiSequence, audioVars
<1>4. CASE Len(commandRing) < CommandRingSize
  <2>1. /\ heap' = WithValue(heap, id, NewSequence(slot, score))
        /\ commandRing' = Append(commandRing, c)
    BY <1>4 DEF PlayMidiSequence
  <2>2. /\ Live' = Live \cup {id} /\ heap'[id] = NewSequence(slot, score)
        /\ \A other \in Live : heap'[other] = heap[other]
    BY <2>1, <1>1 DEF WithValue, Live
  <2>3. commandRing \in Seq(Command) /\ c.kind = "Add" /\ c.arg = id
    BY DEF IInv, TypeOK
  <2> HIDE DEF c
  <2>4. Queued' = Queued \cup {id}
    BY <2>1, <2>3, <1>1, QueuedIsAddArgs, AppendCommand
  <2> QED BY <1>1, <1>2, <1>3, <2>1, <2>2, <2>4 DEF c
<1>5. CASE ~(Len(commandRing) < CommandRingSize)
  <2>1. commandRing' = commandRing /\ heap' = heap
    BY <1>5 DEF PlayMidiSequence
  <2> QED BY <1>1, <1>2, <1>3, <2>1 DEF Queued, Adds, Live
<1> QED BY <1>4, <1>5

\* The timer frees what was returned, and nothing else.
LEMMA DrainEffect ==
    ASSUME IInv, DrainFinishedSequences
    PROVE  /\ Live' = Live \ Returned /\ \A id \in Live' : heap'[id] = heap[id]
           /\ Returned' = {} /\ Queued' = Queued /\ Pooled' = Pooled
           /\ Returned # {}
<1>1. /\ Live' = Live \ Returned /\ \A id \in Live' : heap'[id] = heap[id]
  BY DEF DrainFinishedSequences, Live
<1>2. Returned' = {} /\ Queued' = Queued /\ Pooled' = Pooled
  BY DEF DrainFinishedSequences, Returned, Queued, Adds, Pooled, audioVars
<1>3. freedRing \in Seq(SequenceIds) /\ freedRing # <<>>
  BY DEF DrainFinishedSequences, IInv, TypeOK
<1>4. 1 \in DOMAIN freedRing
  BY <1>3, LenProperties, EmptySeq
<1>5. Returned # {}
  BY <1>4 DEF Returned
<1> QED BY <1>1, <1>2, <1>5

\* The oldest command sets stop flags in the pool, or moves its payload to an
\* empty entry, to freedRing or to its end.
LEMMA ApplyEffect ==
    ASSUME IInv, ApplyCommand, NEW c, c = Head(commandRing)
    PROVE  /\ c \in Command
           /\ \/ /\ c.kind # "Add"
                 /\ Live' = Live /\ Queued' = Queued
                 /\ Pooled' = Pooled /\ Returned' = Returned
                 /\ UNCHANGED <<sequences, dropped>>
                 /\ \A id \in Live : \/ heap'[id] = heap[id]
                                      \/ /\ id \in Pooled
                                         /\ heap'[id] = [heap[id] EXCEPT !.stop = TRUE]
                 /\ \A id \in Pooled : Cancels(1, id) => heap'[id].stop
              \/ /\ c.kind = "Add" /\ c.arg \in Queued
                 /\ c.arg \notin Pooled /\ c.arg \notin Returned
                 /\ Queued' = Queued \ {c.arg}
                 /\ \A id \in Live' : heap'[id] = heap[id]
                 /\ \/ /\ Live' = Live /\ Returned' = Returned
                       /\ Pooled' = Pooled \cup {c.arg}
                       /\ \E i \in PoolIndices :
                             /\ sequences[i] = Null
                             /\ sequences' = [sequences EXCEPT ![i] = c.arg]
                       /\ dropped' = dropped
                    \/ /\ Live' = Live /\ Returned' = Returned \cup {c.arg}
                       /\ Pooled' = Pooled /\ sequences' = sequences
                       /\ dropped' = dropped \cup {c.arg}
                    \/ /\ Live' = Live \ {c.arg} /\ Returned' = Returned
                       /\ Pooled' = Pooled /\ sequences' = sequences
                       /\ dropped' = dropped \cup {c.arg}
<1>1. commandRing \in Seq(Command) /\ commandRing # <<>> /\ AddsDistinct(commandRing)
  BY QueuedIsAddArgs DEF ApplyCommand, IInv, TypeOK, PayloadOwnership
<1>2. c \in Command /\ c = commandRing[1]
  BY <1>1, HeadTailProperties DEF ApplyCommand
<1>3. /\ c.kind # "Add" => Queued' = Queued
      /\ c.kind = "Add" => c.arg \in Queued /\ Queued' = Queued \ {c.arg}
  BY <1>1, TailCommand, QueuedIsAddArgs DEF ApplyCommand
<1>4. c.kind = "Add" => /\ c.arg \in SequenceIds /\ c.arg \in Live
                        /\ c.arg \notin Pooled /\ c.arg \notin Returned
  BY <1>2, <1>3, SizesAssumption
     DEF Command, IInv, TypeOK, PayloadOwnership, SequenceIds
<1>5. CASE c.kind # "Add"
  <2>1. PICK M : /\ RequestStop(M)
                 /\ \/ c.kind = "Remove" /\ M = {c.arg}
                    \/ /\ c.kind = "CancelByTargetSlot"
                       /\ M = {id \in Live : heap[id].slot = c.arg}
    BY <1>5 DEF ApplyCommand
  <2>2. /\ Live' = Live
        /\ UNCHANGED <<sequences, freedRing, dropped>>
        /\ \A id \in Live : heap'[id] = IF id \in Pooled \cap M
                                        THEN [heap[id] EXCEPT !.stop = TRUE]
                                        ELSE heap[id]
    BY <2>1 DEF RequestStop, Live
  <2>3. Pooled' = Pooled /\ Returned' = Returned /\ Pooled \subseteq Live
    BY <2>2 DEF Pooled, Returned, IInv, PayloadOwnership
  <2>4. ASSUME NEW id \in Pooled, Cancels(1, id) PROVE heap'[id].stop
    <3>1. id \in M
      BY <2>1, <2>3, <2>4, <1>2 DEF Cancels
    <3>2. heap'[id] = [heap[id] EXCEPT !.stop = TRUE] /\ heap[id] \in ActiveSequence
      BY <3>1, <2>2, <2>3 DEF IInv, TypeOK
    <3> QED BY <3>2 DEF ActiveSequence
  <2> QED BY <1>2, <1>3, <1>5, <2>2, <2>3, <2>4
<1>6. CASE c.kind = "Add"
  <2> DEFINE id == c.arg
  <2>1. PlaceSequence(id)
    BY <1>6 DEF ApplyCommand
  <2> HIDE DEF id
  <2>i. id = c.arg
    BY DEF id
  <2>2. CASE FreeEntries # {}
    <3>1. /\ sequences' = [sequences EXCEPT ![FirstFree] = id]
          /\ UNCHANGED <<freedRing, heap, dropped>>
      BY <2>1, <2>2 DEF PlaceSequence
    <3>2. FirstFree \in PoolIndices /\ sequences[FirstFree] = Null
      BY <2>2, FirstFreeType
    <3>3. Pooled' = Pooled \cup {id} /\ Returned' = Returned /\ Live' = Live
      BY <2>i, <3>1, <3>2, <1>4, <1>6
         DEF IInv, TypeOK, Pooled, Returned, Live, SequenceIds, Null
    <3> QED BY <1>2, <1>3, <1>4, <1>6, <2>i, <3>1, <3>2, <3>3
  <2>3. CASE FreeEntries = {} /\ Len(freedRing) < FreeRingSize
    <3>1. /\ freedRing' = Append(freedRing, id) /\ dropped' = dropped \cup {id}
          /\ UNCHANGED <<sequences, heap>>
      BY <2>1, <2>3, LenProperties, SizesAssumption DEF PlaceSequence, IInv, TypeOK
    <3>2. freedRing \in Seq(SequenceIds)
      BY DEF IInv, TypeOK
    <3>3. Returned' = Returned \cup {id}
      BY <2>i, <3>1, <3>2, <1>4, <1>6, AppendReturned DEF Returned
    <3>4. Pooled' = Pooled /\ Live' = Live
      BY <3>1 DEF Pooled, Live
    <3> QED BY <1>2, <1>3, <1>4, <1>6, <2>i, <3>1, <3>3, <3>4
  <2>4. CASE FreeEntries = {} /\ Len(freedRing) >= FreeRingSize
    <3>1. /\ heap' = Without(heap, id) /\ dropped' = dropped \cup {id}
          /\ UNCHANGED <<sequences, freedRing>>
      BY <2>1, <2>4, LenProperties, SizesAssumption DEF PlaceSequence, IInv, TypeOK
    <3>2. Live' = Live \ {id} /\ \A i \in Live' : heap'[i] = heap[i]
      BY <3>1 DEF Without, Live
    <3>3. Pooled' = Pooled /\ Returned' = Returned
      BY <3>1 DEF Pooled, Returned
    <3> QED BY <1>2, <1>3, <1>4, <1>6, <2>i, <3>1, <3>2, <3>3
  <2> QED BY <2>1, <2>2, <2>3, <2>4 DEF PlaceSequence
<1> QED BY <1>5, <1>6

\* A pool entry that is stopped or has finished is handed back when there is
\* room; otherwise its payload is replaced in place.
LEMMA ProcessEffect ==
    ASSUME IInv, ProcessEntry
    PROVE  /\ cur \in PoolIndices /\ pc = "walk" /\ cur' = cur + 1
           /\ Queued' = Queued /\ Live' = Live
           /\ \/ UNCHANGED <<heap, sequences, freedRing, midi, untracked>>
              \/ \E id \in Pooled, q \in ActiveSequence :
                    /\ id = sequences[cur] /\ id \in Live /\ id # Null
                    /\ heap' = [heap EXCEPT ![id] = q]
                    /\ StopEntry \/ PlayEntry
                    /\ StopEntry => q = [heap[id] EXCEPT !.notes = {}]
                    /\ PlayEntry => q = Played(heap[id])
                    /\ q.slot = heap[id].slot /\ q.chan = heap[id].chan
                    /\ q.events = heap[id].events /\ q.stop = heap[id].stop
                    /\ \/ /\ q.notes = {} /\ (q.stop \/ q.next > Len(q.events))
                          /\ sequences' = [sequences EXCEPT ![cur] = Null]
                          /\ Pooled' = Pooled \ {id}
                          /\ Returned' = Returned \cup {id}
                       \/ /\ sequences' = sequences
                          /\ Pooled' = Pooled /\ Returned' = Returned
<1>1. /\ cur \in PoolIndices /\ pc = "walk" /\ cur' = cur + 1
      /\ Queued' = Queued
  BY DEF ProcessEntry, Queued, Adds
<1>2. CASE SkipEntry
  BY <1>1, <1>2 DEF SkipEntry, Live
<1> DEFINE id == sequences[cur]
           p  == heap[id]
<1>3. CASE id # Null /\ (StopEntry \/ PlayEntry)
  <2>1. /\ id \in Live /\ id \in Pooled /\ id \in SequenceIds
        /\ p \in ActiveSequence
        /\ p.next \in 1..(Len(p.events) + 1) /\ p.notes \subseteq 1..Len(p.events)
    BY <1>1, <1>3 DEF Pooled, IInv, TypeOK, PayloadOwnership
  <2>p. p = heap[id] /\ id = sequences[cur]
    OBVIOUS
  <2> HIDE DEF p, id
  <2>2. ~(StopEntry /\ PlayEntry)
    BY DEF StopEntry, PlayEntry
  <2>3. PICK q \in ActiveSequence :
            /\ StopEntry => q = [p EXCEPT !.notes = {}]
            /\ PlayEntry => q = Played(p)
            /\ q.slot = p.slot /\ q.chan = p.chan
            /\ q.events = p.events /\ q.stop = p.stop
            /\ \/ /\ q.notes = {} /\ (q.stop \/ q.next > Len(q.events))
                  /\ Retire(q)
               \/ /\ heap' = [heap EXCEPT ![id] = q]
                  /\ UNCHANGED <<sequences, freedRing>>
    <3>1. CASE StopEntry
      <4>1. Retire([p EXCEPT !.notes = {}]) /\ p.stop
        BY <3>1, <2>p DEF StopEntry
      <4>2. /\ [p EXCEPT !.notes = {}] \in ActiveSequence
            /\ [p EXCEPT !.notes = {}].notes = {}
            /\ [p EXCEPT !.notes = {}].stop = p.stop
            /\ [p EXCEPT !.notes = {}].slot = p.slot
            /\ [p EXCEPT !.notes = {}].chan = p.chan
            /\ [p EXCEPT !.notes = {}].events = p.events
        BY <2>1 DEF ActiveSequence
      <4> QED BY <2>2, <3>1, <4>1, <4>2
    <3>2. CASE PlayEntry
      <4>1. Played(p) \in ActiveSequence
        BY <2>1, PlayedType
      <4>2. /\ Played(p).slot = p.slot /\ Played(p).chan = p.chan
            /\ Played(p).events = p.events /\ Played(p).stop = p.stop
        BY <2>1 DEF Played, ActiveSequence
      <4>3. IF Finished(Played(p))
            THEN Retire(Played(p))
            ELSE /\ heap' = [heap EXCEPT ![id] = Played(p)]
                 /\ UNCHANGED <<freedRing, sequences>>
        BY <3>2, <2>p DEF PlayEntry
      <4>4. Finished(Played(p)) => /\ Played(p).notes = {}
                                  /\ Played(p).next > Len(Played(p).events)
        BY DEF Finished
      <4> QED BY <2>2, <3>2, <4>1, <4>2, <4>3, <4>4
    <3> QED BY <1>3, <3>1, <3>2, <2>p
  <2>4. heap' = [heap EXCEPT ![id] = q] /\ Live' = Live
    BY <2>3, <2>p DEF Retire, Live
  <2>5. \/ UNCHANGED <<sequences, freedRing>>
        \/ /\ q.notes = {} /\ (q.stop \/ q.next > Len(q.events))
           /\ freedRing' = Append(freedRing, id)
           /\ sequences' = [sequences EXCEPT ![cur] = Null]
    BY <2>3, <2>p DEF Retire
  <2>6. CASE UNCHANGED <<sequences, freedRing>>
    <3>1. Pooled' = Pooled /\ Returned' = Returned
      BY <2>6 DEF Pooled, Returned
    <3> QED BY <1>1, <1>3, <2>1, <2>p, <2>3, <2>4, <2>6, <3>1
  <2>7. CASE /\ q.notes = {} /\ (q.stop \/ q.next > Len(q.events))
             /\ freedRing' = Append(freedRing, id)
             /\ sequences' = [sequences EXCEPT ![cur] = Null]
    <3>0. freedRing \in Seq(SequenceIds) /\ freedRing' = Append(freedRing, id)
      BY <2>7 DEF IInv, TypeOK
    <3>1. Returned' = Returned \cup {id}
      BY <2>1, <3>0, AppendReturned DEF Returned
    <3>2. \A i \in PoolIndices : sequences'[i] = IF i = cur THEN Null ELSE sequences[i]
      BY <2>7, <1>1 DEF IInv, TypeOK
    <3>3. Pooled' = Pooled \ {id}
      BY <3>2, <2>p, <1>1, <1>3 DEF Pooled, IInv, PayloadOwnership
    <3> QED BY <1>1, <1>3, <2>1, <2>p, <2>3, <2>4, <2>7, <3>1, <3>3
  <2> QED BY <2>5, <2>6, <2>7
<1> QED BY <1>2, <1>3 DEF ProcessEntry

-----------------------------------------------------------------------------
(* Cancelling.                                                             *)

\* Taking the head moves every other command up by one.
LEMMA TailShift ==
    ASSUME NEW r \in Seq(Command), r # <<>>
    PROVE  /\ 1 \in DOMAIN r /\ Head(r) = r[1]
           /\ \A i \in DOMAIN r :
                 /\ i \in Nat
                 /\ i # 1 => i - 1 \in DOMAIN Tail(r) /\ Tail(r)[i - 1] = r[i]
           /\ \A i \in DOMAIN Tail(r) :
                 i \in Nat /\ i + 1 \in DOMAIN r /\ Tail(r)[i] = r[i + 1]
<1> DEFINE s == Tail(r)
<1>1. /\ Len(r) \in Nat /\ Len(r) >= 1
      /\ DOMAIN r = 1..Len(r) /\ DOMAIN s = 1..(Len(r) - 1)
      /\ \A i \in 1..(Len(r) - 1) : s[i] = r[i + 1]
      /\ Head(r) = r[1]
  BY HeadTailProperties, EmptySeq
<1> HIDE DEF s
<1>2. ASSUME NEW i \in DOMAIN r, i # 1
      PROVE  i - 1 \in DOMAIN s /\ s[i - 1] = r[i]
  <2>1. i - 1 \in 1..(Len(r) - 1) /\ (i - 1) + 1 = i
    BY <1>1, <1>2
  <2> QED BY <1>1, <2>1
<1> QED BY <1>1, <1>2 DEF s

\* A sequence that will stop still will after any step that keeps the commands
\* in the ring where they are.
LEMMA RingKept ==
    ASSUME NEW id, WillStop(id),
           \A i \in DOMAIN commandRing :
               i \in DOMAIN commandRing' /\ commandRing'[i] = commandRing[i],
           heap'[id].slot = heap[id].slot, heap[id].stop => heap'[id].stop,
           id \in Pooled => id \in Pooled' \cup Returned',
           id \in Returned => id \in Returned'
    PROVE  WillStop(id)'
<1>1. \A i \in DOMAIN commandRing : Cancels(i, id) => Cancels(i, id)'
  BY DEF Cancels
<1> QED BY <1>1 DEF WillStop

\* So it will after a command has been applied: if the command was its Add the
\* one that stops it is still behind, and if it was that one the flag is set.
LEMMA ApplyWillStop ==
    ASSUME IInv, ApplyCommand, NEW id \in Live, id \in Live', WillStop(id)
    PROVE  heap'[id].slot = heap[id].slot /\ WillStop(id)'
<1> DEFINE c == Head(commandRing)
           s == commandRing'
<1>1. /\ commandRing \in Seq(Command) /\ commandRing # <<>>
      /\ s = Tail(commandRing)
  BY DEF ApplyCommand, IInv, TypeOK
<1>2. /\ c = commandRing[1] /\ 1 \in DOMAIN commandRing
      /\ \A i \in DOMAIN commandRing :
            /\ i \in Nat
            /\ i # 1 => i - 1 \in DOMAIN s /\ s[i - 1] = commandRing[i]
  BY <1>1, TailShift
<1>3. heap[id] \in ActiveSequence
  BY DEF IInv, TypeOK
<1> DEFINE p == heap[id]
<1>4. LET q == [p EXCEPT !.stop = TRUE] IN q.slot = p.slot /\ q.stop
  BY <1>3 DEF ActiveSequence
<1> HIDE DEF c, s, p
<1>5. CASE c.kind # "Add"
  <2>1. /\ Pooled' = Pooled /\ Returned' = Returned
        /\ heap'[id] = p \/ heap'[id] = [p EXCEPT !.stop = TRUE]
        /\ id \in Pooled /\ Cancels(1, id) => heap'[id].stop
    BY <1>5, ApplyEffect DEF c, p
  <2>2. heap'[id].slot = p.slot /\ (p.stop => heap'[id].stop)
    BY <1>4, <2>1
  <2>3. \A i \in DOMAIN commandRing : i # 1 /\ Cancels(i, id) => Cancels(i - 1, id)'
    BY <1>2, <2>2 DEF Cancels, s, p
  <2>4. CASE id \in Returned
    BY <2>1, <2>2, <2>4 DEF WillStop, p
  <2>5. CASE id \in Pooled /\ heap[id].stop
    BY <2>1, <2>2, <2>5 DEF WillStop, p
  <2>6. ASSUME NEW i \in DOMAIN commandRing, id \in Pooled, Cancels(i, id)
        PROVE  WillStop(id)'
    <3>1. CASE i = 1
      BY <2>1, <2>6, <3>1 DEF WillStop
    <3>2. CASE i # 1
      BY <2>1, <2>3, <2>6, <3>2, <1>2 DEF WillStop, s
    <3> QED BY <3>1, <3>2
  <2>7. ASSUME NEW i \in DOMAIN commandRing, NEW j \in DOMAIN commandRing,
               commandRing[i] = [kind |-> "Add", arg |-> id], i < j, Cancels(j, id)
        PROVE  WillStop(id)'
    <3>1. i # 1 /\ j # 1
      BY <1>2, <1>5, <2>7, <1>1, LenProperties
    <3>2. /\ i - 1 \in DOMAIN s /\ j - 1 \in DOMAIN s /\ i - 1 < j - 1
          /\ s[i - 1] = [kind |-> "Add", arg |-> id]
      BY <1>2, <2>7, <3>1
    <3>3. Cancels(j - 1, id)'
      BY <2>3, <2>7, <3>1
    <3> QED BY <3>2, <3>3 DEF WillStop, s
  <2> QED BY <2>2, <2>4, <2>5, <2>6, <2>7 DEF WillStop, p
<1>6. CASE c.kind = "Add"
  <2>1. /\ heap'[id] = heap[id] /\ Returned \subseteq Returned'
        /\ Pooled \subseteq Pooled'
        /\ c.arg \notin Pooled /\ c.arg \notin Returned
        /\ c.arg \in Live' => c.arg \in Pooled' \cup Returned'
    BY <1>6, ApplyEffect DEF c
  <2>2. \A i \in DOMAIN commandRing : i # 1 /\ Cancels(i, id) => Cancels(i - 1, id)'
    BY <1>2, <2>1 DEF Cancels, s
  <2>3. ~Cancels(1, id)
    BY <1>2, <1>6 DEF Cancels
  <2>4. CASE id \in Returned \/ id \in Pooled
    BY <2>1, <2>2, <2>3, <2>4, <1>2 DEF WillStop, s
  <2>5. ASSUME NEW i \in DOMAIN commandRing, NEW j \in DOMAIN commandRing,
               commandRing[i] = [kind |-> "Add", arg |-> id], i < j, Cancels(j, id)
        PROVE  WillStop(id)'
    <3>1. j # 1
      BY <2>3, <2>5
    <3>2. j - 1 \in DOMAIN s /\ Cancels(j - 1, id)'
      BY <1>2, <2>2, <2>5, <3>1
    <3>3. CASE i = 1
      <4>1. id \in Pooled' \cup Returned'
        BY <1>2, <2>1, <2>5, <3>3
      <4> QED BY <3>2, <4>1 DEF WillStop, s
    <3>4. CASE i # 1
      <4>1. /\ i - 1 \in DOMAIN s /\ i - 1 < j - 1
            /\ s[i - 1] = [kind |-> "Add", arg |-> id]
        BY <1>2, <2>5, <3>1, <3>4
      <4> QED BY <3>2, <4>1 DEF WillStop, s
    <3> QED BY <3>3, <3>4
  <2> QED BY <2>1, <2>4, <2>5 DEF WillStop
<1> QED BY <1>5, <1>6

\* Every step keeps a sequence's slot, and what will stop it.
LEMMA NextWillStop ==
    ASSUME IInv, [Next]_vars, NEW id \in Live, id \in Live'
    PROVE  heap'[id].slot = heap[id].slot /\ (WillStop(id) => WillStop(id)')
<1> DEFINE RingStays == \A i \in DOMAIN commandRing :
               i \in DOMAIN commandRing' /\ commandRing'[i] = commandRing[i]
<1>r. commandRing \in Seq(Command)
  BY DEF IInv, TypeOK
<1>0. ASSUME NEW c \in Command,
             commandRing' = Append(commandRing, c) \/ commandRing' = commandRing
      PROVE  RingStays
  BY <1>r, <1>0, AppendProperties
<1> HIDE DEF RingStays
<1>1. ASSUME UNCHANGED <<heap, sequences, freedRing>>, RingStays
      PROVE  heap'[id].slot = heap[id].slot /\ (WillStop(id) => WillStop(id)')
  <2>1. Pooled' = Pooled /\ Returned' = Returned
    BY <1>1 DEF Pooled, Returned
  <2> QED BY <1>1, <2>1, RingKept DEF RingStays
<1>2. CASE LoadPlugin \/ (\E n \in BlockSizes : BeginBlock(n)) \/ CommandsDrained
              \/ EndBlock \/ UNCHANGED vars
  <2>1. UNCHANGED <<heap, sequences, freedRing, commandRing>>
    BY <1>2 DEF LoadPlugin, BeginBlock, CommandsDrained, EndBlock, vars, audioVars
  <2>2. RingStays
    BY <2>1 DEF RingStays
  <2> QED BY <1>1, <2>1, <2>2
<1>3. ASSUME NEW slot \in SlotIds, UnloadPlugin(slot)
      PROVE  heap'[id].slot = heap[id].slot /\ (WillStop(id) => WillStop(id)')
  <2> DEFINE c == [kind |-> "CancelByTargetSlot", arg |-> slot]
  <2>1. c \in Command /\ Push(c) /\ UNCHANGED <<heap, sequences, freedRing>>
    BY <1>3 DEF UnloadPlugin, Command, audioVars
  <2> HIDE DEF c
  <2>2. RingStays
    BY <2>1, <1>0 DEF Push
  <2> QED BY <1>1, <2>1, <2>2
<1>4. ASSUME NEW other \in SequenceIds, StopSequence(other)
      PROVE  heap'[id].slot = heap[id].slot /\ (WillStop(id) => WillStop(id)')
  <2> DEFINE c == [kind |-> "Remove", arg |-> other]
  <2>1. c \in Command /\ Push(c) /\ UNCHANGED <<heap, sequences, freedRing>>
    BY <1>4 DEF StopSequence, Command, audioVars
  <2> HIDE DEF c
  <2>2. RingStays
    BY <2>1, <1>0 DEF Push
  <2> QED BY <1>1, <2>1, <2>2
<1>5. ASSUME NEW slot \in SlotIds, NEW score \in Scores, PlayMidiSequence(slot, score)
      PROVE  heap'[id].slot = heap[id].slot /\ (WillStop(id) => WillStop(id)')
  <2> DEFINE c == [kind |-> "Add", arg |-> nextSequenceId]
  <2>1. /\ Pooled' = Pooled /\ Returned' = Returned /\ heap'[id] = heap[id]
        /\ nextSequenceId \in SequenceIds
        /\ commandRing' = Append(commandRing, c) \/ commandRing' = commandRing
    BY <1>5, PlayEffect
  <2>2. c \in Command
    BY <2>1 DEF Command
  <2> HIDE DEF c
  <2>3. RingStays
    BY <2>1, <2>2, <1>0
  <2> QED BY <2>1, <2>3, RingKept DEF RingStays
<1>6. CASE DrainFinishedSequences
  <2>1. heap'[id] = heap[id] /\ id \notin Returned /\ Pooled' = Pooled
    BY <1>6, DrainEffect
  <2>2. RingStays
    BY <1>6 DEF DrainFinishedSequences, RingStays
  <2> QED BY <2>1, <2>2, RingKept DEF RingStays
<1>7. CASE ApplyCommand
  <2>1. heap'[id].slot = heap[id].slot
    <3> DEFINE p == heap[id]
    <3>1. p \in ActiveSequence
      BY DEF IInv, TypeOK
    <3>2. [p EXCEPT !.stop = TRUE].slot = p.slot
      BY <3>1 DEF ActiveSequence
    <3>3. heap'[id] = p \/ heap'[id] = [p EXCEPT !.stop = TRUE]
      <4> HIDE DEF p
      <4> QED BY <1>7, ApplyEffect DEF p
    <3> HIDE DEF p
    <3> QED BY <3>2, <3>3 DEF p
  <2> QED BY <1>7, <2>1, ApplyWillStop
<1>8. CASE ProcessEntry
  <2>1. RingStays
    BY <1>8 DEF ProcessEntry, RingStays
  <2>2. CASE UNCHANGED <<heap, sequences, freedRing>>
    BY <2>1, <2>2, <1>1
  <2>3. CASE ~UNCHANGED <<heap, sequences, freedRing>>
    <3>1. PICK other \in Pooled, q \in ActiveSequence :
            /\ other \in Live /\ heap' = [heap EXCEPT ![other] = q]
            /\ q.slot = heap[other].slot /\ q.stop = heap[other].stop
            /\ \/ Pooled' = Pooled \ {other} /\ Returned' = Returned \cup {other}
               \/ Pooled' = Pooled /\ Returned' = Returned
      BY <1>8, <2>3, ProcessEffect
    <3>2. heap'[id] = IF id = other THEN q ELSE heap[id]
      BY <3>1 DEF IInv, TypeOK, Live
    <3>3. heap'[id].slot = heap[id].slot /\ (heap[id].stop => heap'[id].stop)
      BY <3>1, <3>2
    <3>4. /\ id \in Pooled => id \in Pooled' \cup Returned'
          /\ id \in Returned => id \in Returned'
      BY <3>1
    <3> QED BY <2>1, <3>3, <3>4, RingKept DEF RingStays
  <2> QED BY <2>2, <2>3
<1> QED BY <1>2, <1>3, <1>4, <1>5, <1>6, <1>7, <1>8 DEF Next, MessageThread, AudioThread

\* A command that cancels a sequence is behind its Add, wherever the sequence is.
LEMMA PushedReaches ==
    ASSUME IInv, NEW id \in Live, NEW c \in Command, c.kind # "Add",
           commandRing' = Append(commandRing, c),
           UNCHANGED <<heap, sequences, freedRing>>,
           \/ c = [kind |-> "CancelByTargetSlot", arg |-> heap[id].slot]
           \/ c = [kind |-> "Remove", arg |-> id]
    PROVE  WillStop(id)'
<1>1. commandRing \in Seq(Command)
  BY DEF IInv, TypeOK
<1>0. PICK n : n = Len(commandRing) + 1
  OBVIOUS
<1>2. /\ DOMAIN commandRing = 1..Len(commandRing)
      /\ n \in DOMAIN commandRing' /\ commandRing'[n] = c
      /\ \A i \in DOMAIN commandRing :
            i < n /\ i \in DOMAIN commandRing' /\ commandRing'[i] = commandRing[i]
  BY <1>0, <1>1, AppendProperties, LenProperties
<1>3. n \in DOMAIN commandRing' /\ Cancels(n, id)'
  BY <1>2 DEF Cancels
<1>4. Pooled' = Pooled /\ Returned' = Returned
  BY DEF Pooled, Returned
<1>5. id \in Queued \/ id \in Pooled \/ id \in Returned
  BY DEF IInv, PayloadOwnership
<1>6. ASSUME id \in Queued PROVE WillStop(id)'
  <2>1. PICK i \in DOMAIN commandRing :
            commandRing[i].kind = "Add" /\ commandRing[i].arg = id
    BY <1>6 DEF Queued, Adds
  <2>2. commandRing[i] \in Command
    BY <1>1, ElementOfSeq, <1>2
  <2>3. commandRing[i] = [kind |-> "Add", arg |-> id]
    BY <2>1, <2>2 DEF Command
  <2>4. /\ i \in DOMAIN commandRing' /\ i < n
        /\ commandRing'[i] = [kind |-> "Add", arg |-> id]
    BY <1>2, <2>3
  <2> QED BY <1>3, <2>4 DEF WillStop
<1> QED BY <1>3, <1>4, <1>5, <1>6 DEF WillStop

\* What can change a slot's sequences, the slots, the ids stopped and the
\* commands lost.
LEMMA WhatGrows ==
    ASSUME IInv, [Next]_vars
    PROVE  /\ lost \subseteq lost'
           /\ \A id \in Live' \ Live : \E slot \in SlotIds, score \in Scores :
                  id = nextSequenceId /\ PlayMidiSequence(slot, score)
           /\ \A id \in stopped' \ stopped : StopSequence(id) /\ id \in SequenceIds
           /\ \A slot \in slots \ slots' : UnloadPlugin(slot) /\ slot \in SlotIds
<1> DEFINE Goal ==
           /\ lost \subseteq lost'
           /\ \A id \in Live' \ Live : \E slot \in SlotIds, score \in Scores :
                  id = nextSequenceId /\ PlayMidiSequence(slot, score)
           /\ \A id \in stopped' \ stopped : StopSequence(id) /\ id \in SequenceIds
           /\ \A slot \in slots \ slots' : UnloadPlugin(slot) /\ slot \in SlotIds
<1>1. CASE LoadPlugin
  BY <1>1 DEF LoadPlugin, history, Live
<1>2. ASSUME NEW n \in BlockSizes, BeginBlock(n) PROVE Goal
  BY <1>2 DEF BeginBlock, history, mtVars, Live
<1>3. CASE CommandsDrained
  BY <1>3 DEF CommandsDrained, history, mtVars, Live
<1>4. CASE EndBlock
  BY <1>4 DEF EndBlock, history, mtVars, Live
<1>5. CASE UNCHANGED vars
  BY <1>5 DEF vars, history, mtVars, Live
<1>6. ASSUME NEW slot \in SlotIds, UnloadPlugin(slot) PROVE Goal
  BY <1>6 DEF UnloadPlugin, Push, Live
<1>7. ASSUME NEW other \in SequenceIds, StopSequence(other) PROVE Goal
  BY <1>7 DEF StopSequence, Push, mtVars, Live
<1>8. ASSUME NEW slot \in SlotIds, NEW score \in Scores, PlayMidiSequence(slot, score)
      PROVE  Goal
  <2>1. lost' = lost /\ stopped' = stopped /\ slots' = slots
    BY <1>8 DEF PlayMidiSequence, history
  <2>2. Live' \subseteq Live \cup {nextSequenceId}
    BY <1>8, PlayEffect
  <2> QED BY <1>8, <2>1, <2>2
<1>9. CASE DrainFinishedSequences
  <2>1. Live' \subseteq Live
    BY <1>9, DrainEffect
  <2> QED BY <1>9, <2>1 DEF DrainFinishedSequences, history, mtVars
<1>10. CASE ApplyCommand
  <2>1. Live' \subseteq Live
    BY <1>10, ApplyEffect
  <2> QED BY <1>10, <2>1 DEF ApplyCommand, mtVars
<1>11. CASE ProcessEntry
  <2>1. Live' \subseteq Live
    BY <1>11, ProcessEffect
  <2> QED BY <1>11, <2>1 DEF ProcessEntry, mtVars
<1> QED BY <1>1, <1>2, <1>3, <1>4, <1>5, <1>6, <1>7, <1>8, <1>9, <1>10, <1>11
        DEF Next, MessageThread, AudioThread

LEMMA StopHonouredKept == IInv /\ StopHonoured /\ [Next]_vars => StopHonoured'
<1> SUFFICES ASSUME IInv, StopHonoured, [Next]_vars, NEW id \in Live' \cap stopped'
             PROVE  [kind |-> "Remove", arg |-> id] \in lost' \/ WillStop(id)'
  BY DEF StopHonoured
<1> DEFINE c == [kind |-> "Remove", arg |-> id]
<1>1. CASE id \in Live /\ id \in stopped
  <2>1. c \in lost \/ WillStop(id)
    BY <1>1 DEF StopHonoured
  <2> QED BY <1>1, <2>1, WhatGrows, NextWillStop
<1>2. CASE id \notin stopped
  <2>1. StopSequence(id) /\ id \in SequenceIds
    BY <1>2, WhatGrows
  <2>2. c \in Command /\ c.kind # "Add" /\ Push(c)
        /\ UNCHANGED <<heap, sequences, freedRing>>
    BY <2>1 DEF StopSequence, Command, audioVars
  <2>3. id \in Live
    BY <2>2 DEF Live
  <2> HIDE DEF c
  <2>4. CASE commandRing' = Append(commandRing, c)
    BY <2>2, <2>3, <2>4, PushedReaches DEF c
  <2>5. CASE lost' = lost \cup {c}
    BY <2>5 DEF c
  <2> QED BY <2>2, <2>4, <2>5 DEF Push
<1>3. CASE id \in stopped /\ id \notin Live
  <2>1. PICK slot \in SlotIds, score \in Scores :
            id = nextSequenceId /\ PlayMidiSequence(slot, score)
    BY <1>3, WhatGrows
  <2>2. id \in Nat /\ id < id
    BY <1>3, <2>1, PlayEffect
  <2> QED BY <2>2
<1> QED BY <1>1, <1>2, <1>3

LEMMA CancelHonouredKept == IInv /\ CancelHonoured /\ [Next]_vars => CancelHonoured'
<1> SUFFICES ASSUME IInv, CancelHonoured, [Next]_vars, NEW id \in Live'
             PROVE  \/ heap'[id].slot \in slots'
                    \/ [kind |-> "CancelByTargetSlot", arg |-> heap'[id].slot] \in lost'
                    \/ WillStop(id)'
  BY DEF CancelHonoured
<1>1. CASE id \notin Live
  <2>1. PICK slot \in SlotIds, score \in Scores :
            id = nextSequenceId /\ PlayMidiSequence(slot, score)
    BY <1>1, WhatGrows
  <2>2. heap'[id] = NewSequence(slot, score) /\ slot \in slots /\ slots' = slots
    BY <1>1, <2>1, PlayEffect DEF PlayMidiSequence
  <2> QED BY <2>2 DEF NewSequence
<1> DEFINE slot == heap[id].slot
           c == [kind |-> "CancelByTargetSlot", arg |-> slot]
<1>2. CASE id \in Live /\ ~(slot \in slots \ slots')
  <2>1. slot \in slots' \/ c \in lost \/ WillStop(id)
    BY <1>2 DEF CancelHonoured
  <2>2. heap'[id].slot = slot /\ (WillStop(id) => WillStop(id)')
    BY <1>2, NextWillStop
  <2> QED BY <2>1, <2>2, WhatGrows
<1>3. CASE id \in Live /\ slot \in slots \ slots'
  <2>1. UnloadPlugin(slot) /\ slot \in SlotIds
    BY <1>3, WhatGrows
  <2>2. c \in Command /\ c.kind # "Add" /\ Push(c)
        /\ UNCHANGED <<heap, sequences, freedRing>>
    BY <2>1 DEF UnloadPlugin, Command, audioVars
  <2> HIDE DEF c
  <2>3. CASE commandRing' = Append(commandRing, c)
    BY <1>3, <2>2, <2>3, PushedReaches DEF c
  <2>4. CASE lost' = lost \cup {c}
    BY <2>2, <2>4 DEF c
  <2> QED BY <2>2, <2>3, <2>4 DEF Push
<1> QED BY <1>1, <1>2, <1>3

LEMMA HonouredFromStart == Init => StopHonoured /\ CancelHonoured
<1>1. Init => Live = {}
  BY DEF Init, Live
<1> QED BY <1>1 DEF StopHonoured, CancelHonoured

\* SchedulerNode: whatever the threads interleave and however the rings are
\* filled, stopSequence reaches the sequence it names, unless the ring was full.
THEOREM StopReaches == Spec => []StopHonoured
BY Invariance, HonouredFromStart, StopHonouredKept, PTL DEF Spec

\* SchedulerNode: unloading a plugin reaches every sequence on its slot, played
\* before or while the unload is under way, unless the command was lost.
THEOREM CancelReaches == Spec => []CancelHonoured
BY Invariance, HonouredFromStart, CancelHonouredKept, PTL DEF Spec

-----------------------------------------------------------------------------
(* The lifecycle.                                                          *)

\* Sequences are queued in the order of their ids.
LEMMA QueueOrderKept == IInv /\ QueueInOrder /\ [Next]_vars => QueueInOrder'
<1> SUFFICES ASSUME IInv, QueueInOrder, [Next]_vars PROVE QueueInOrder'
  OBVIOUS
<1>r. commandRing \in Seq(Command)
  BY DEF IInv, TypeOK
<1>1. ASSUME commandRing' = commandRing PROVE QueueInOrder'
  BY <1>1 DEF QueueInOrder, Adds
<1>2. ASSUME NEW c \in Command, commandRing' = Append(commandRing, c),
             c.kind = "Add" => \A id \in Queued : id < c.arg
      PROVE  QueueInOrder'
  <2>0. PICK n : n = Len(commandRing) + 1
    OBVIOUS
  <2>1. /\ commandRing'[n] = c
        /\ \A i \in DOMAIN commandRing' :
              i \in DOMAIN commandRing \/ i = n
        /\ \A i \in DOMAIN commandRing :
              i < n /\ ~(n < i) /\ commandRing'[i] = commandRing[i]
        /\ ~(n < n)
    BY <2>0, <1>r, <1>2, AppendProperties, LenProperties
  <2> SUFFICES ASSUME NEW i \in DOMAIN commandRing', NEW j \in DOMAIN commandRing',
                      commandRing'[i].kind = "Add", commandRing'[j].kind = "Add", i < j
               PROVE  commandRing'[i].arg < commandRing'[j].arg
    BY DEF QueueInOrder, Adds
  <2>2. CASE i \in DOMAIN commandRing /\ j \in DOMAIN commandRing
    BY <2>1, <2>2 DEF QueueInOrder, Adds
  <2>3. CASE i \in DOMAIN commandRing /\ j = n
    <3>1. commandRing[i].arg \in Queued
      BY <2>1, <2>3 DEF Queued, Adds
    <3> QED BY <2>1, <2>3, <3>1, <1>2
  <2> QED BY <2>1, <2>2, <2>3
<1>3. CASE LoadPlugin \/ (\E n \in BlockSizes : BeginBlock(n)) \/ CommandsDrained
              \/ EndBlock \/ UNCHANGED vars \/ DrainFinishedSequences \/ ProcessEntry
  BY <1>1, <1>3 DEF LoadPlugin, BeginBlock, CommandsDrained, EndBlock, vars,
                    DrainFinishedSequences, ProcessEntry
<1>4. ASSUME NEW slot \in SlotIds, UnloadPlugin(slot) PROVE QueueInOrder'
  <2> DEFINE c == [kind |-> "CancelByTargetSlot", arg |-> slot]
  <2>1. c \in Command /\ c.kind # "Add" /\ Push(c)
    BY <1>4 DEF UnloadPlugin, Command
  <2> HIDE DEF c
  <2> QED BY <2>1, <1>1, <1>2 DEF Push
<1>5. ASSUME NEW other \in SequenceIds, StopSequence(other) PROVE QueueInOrder'
  <2> DEFINE c == [kind |-> "Remove", arg |-> other]
  <2>1. c \in Command /\ c.kind # "Add" /\ Push(c)
    BY <1>5 DEF StopSequence, Command
  <2> HIDE DEF c
  <2> QED BY <2>1, <1>1, <1>2 DEF Push
<1>6. ASSUME NEW slot \in SlotIds, NEW score \in Scores, PlayMidiSequence(slot, score)
      PROVE  QueueInOrder'
  <2> DEFINE c == [kind |-> "Add", arg |-> nextSequenceId]
  <2>1. /\ \A id \in Live : id < nextSequenceId
        /\ nextSequenceId \in SequenceIds
        /\ commandRing' = Append(commandRing, c) \/ commandRing' = commandRing
    BY <1>6, PlayEffect
  <2>2. c \in Command /\ c.kind = "Add" /\ c.arg = nextSequenceId /\ Queued \subseteq Live
    BY <2>1 DEF Command, IInv, PayloadOwnership
  <2>3. \A id \in Queued : id < c.arg
    BY <2>1, <2>2
  <2> HIDE DEF c
  <2> QED BY <2>1, <2>2, <2>3, <1>1, <1>2
<1>7. CASE ApplyCommand
  <2>1. commandRing' = Tail(commandRing) /\ commandRing # <<>>
    BY <1>7 DEF ApplyCommand
  <2>2. \A i \in DOMAIN commandRing' :
            i \in Nat /\ i + 1 \in DOMAIN commandRing
            /\ commandRing'[i] = commandRing[i + 1]
    BY <2>1, <1>r, TailShift
  <2>3. \A i, j \in DOMAIN commandRing' : i < j => i + 1 < j + 1
    BY <2>2
  <2> QED BY <2>2, <2>3 DEF QueueInOrder, Adds
<1> QED BY <1>3, <1>4, <1>5, <1>6, <1>7 DEF Next, MessageThread, AudioThread

LEMMA OrderInvariance == Spec => [](IInv /\ QueueInOrder)
<1>1. Init => QueueInOrder
  BY DEF Init, QueueInOrder, Adds
<1> QED BY <1>1, Invariance, QueueOrderKept, PTL DEF Spec

\* The oldest queued sequence is the one at the head of the ring.
LEMMA HeadIsOldest ==
    ASSUME IInv, QueueInOrder, ApplyCommand, Head(commandRing).kind = "Add"
    PROVE  \A id \in Queued : id = Head(commandRing).arg \/ Head(commandRing).arg < id
<1>1. commandRing \in Seq(Command) /\ commandRing # <<>>
  BY DEF ApplyCommand, IInv, TypeOK
<1>2. /\ 1 \in Adds /\ Head(commandRing) = commandRing[1]
      /\ \A i \in Adds : i = 1 \/ 1 < i
  BY <1>1, TailShift, HeadTailProperties, LenProperties DEF Adds
<1> QED BY <1>2 DEF Queued, QueueInOrder

\* Statuses follow from where a sequence is.
LEMMA StatusProperties ==
    ASSUME IInv, NEW id \in SequenceIds
    PROVE  /\ Status(id) = "queued"   <=> id \in Queued
           /\ Status(id) = "playing"  <=> id \in Pooled
           /\ Status(id) = "returned" <=> id \in Returned
           /\ Status(id) = "freed"    <=> id \notin Live /\ id < nextSequenceId
           /\ Status(id) = "none"     <=> id >= nextSequenceId
<1>1. id \in Live => id < nextSequenceId
  BY SizesAssumption DEF IInv, TypeOK
<1>2. id \in Nat /\ nextSequenceId \in Nat
  BY SizesAssumption DEF IInv, TypeOK, SequenceIds
<1> QED BY <1>1, <1>2 DEF Status, IInv, PayloadOwnership

\* The status of every sequence, which refines the variable of SequenceLifecycle.
StatusMap == [id \in SequenceIds |-> Status(id)]

\* A step of SequenceLifecycle or none.
LifecycleStep == Lifecycle!Next \/ StatusMap' = StatusMap

LEMMA SameStatus ==
    ASSUME Queued' = Queued, Pooled' = Pooled, Returned' = Returned,
           nextSequenceId' = nextSequenceId
    PROVE  LifecycleStep
BY DEF LifecycleStep, StatusMap, Status

\* One sequence moves.
LEMMA OneMoves ==
    ASSUME NEW id \in SequenceIds, NEW s, Status(id)' = s,
           \A other \in SequenceIds \ {id} : Status(other)' = Status(other)
    PROVE  Lifecycle!Become(id, s)
BY DEF Lifecycle!Become, StatusMap

LEMMA PlayRefines ==
    ASSUME IInv, IInv', NEW slot \in SlotIds, NEW score \in Scores,
           PlayMidiSequence(slot, score)
    PROVE  LifecycleStep
<1>0. PICK id : id = nextSequenceId
  OBVIOUS
<1>1. /\ id \in SequenceIds /\ nextSequenceId' = id + 1 /\ id \in Nat
      /\ \A other \in SequenceIds : other \in Nat
  BY <1>0, PlayEffect, SizesAssumption DEF PlayMidiSequence, SequenceIds
<1>2. Lifecycle!Oldest(id, "none")
  <2>1. Status(id) = "none"
    BY <1>0, <1>1, StatusProperties
  <2>2. \A other \in 1..(id - 1) : other \in SequenceIds /\ Status(other) # "none"
    BY <1>0, <1>1, StatusProperties, SizesAssumption DEF SequenceIds
  <2> QED BY <1>1, <2>1, <2>2 DEF Lifecycle!Oldest
<1>3. /\ Pooled' = Pooled /\ Returned' = Returned
      /\ id \notin Live /\ id \notin Pooled /\ id \notin Queued /\ id \notin Returned
  BY <1>0, PlayEffect DEF IInv, PayloadOwnership
<1>4. CASE Queued' = Queued \cup {id}
  <2>1. Status(id)' = "queued"
    BY <1>4 DEF Status
  <2>2. \A other \in SequenceIds \ {id} : Status(other)' = Status(other)
    BY <1>0, <1>1, <1>3, <1>4 DEF Status
  <2>3. Lifecycle!Issue(id)
    BY <1>1, <1>2, <2>1, <2>2, OneMoves DEF Lifecycle!Issue
  <2> QED BY <1>1, <2>3 DEF LifecycleStep, Lifecycle!Next, Lifecycle!SequenceIds, SequenceIds
<1>5. CASE Queued' = Queued
  <2>1. Status(id)' = "freed"
    BY <1>1, <1>3, <1>5 DEF Status
  <2>2. \A other \in SequenceIds \ {id} : Status(other)' = Status(other)
    BY <1>0, <1>1, <1>3, <1>5 DEF Status
  <2>3. Lifecycle!Refuse(id)
    BY <1>1, <1>2, <2>1, <2>2, OneMoves DEF Lifecycle!Refuse
  <2> QED BY <1>1, <2>3 DEF LifecycleStep, Lifecycle!Next, Lifecycle!SequenceIds, SequenceIds
<1> QED BY <1>0, <1>4, <1>5, PlayEffect

LEMMA DrainRefines ==
    ASSUME IInv, DrainFinishedSequences
    PROVE  LifecycleStep
<1>1. /\ Returned # {} /\ Returned' = {} /\ Queued' = Queued /\ Pooled' = Pooled
      /\ nextSequenceId' = nextSequenceId
  BY DrainEffect DEF DrainFinishedSequences, mtVars
<1>2. \A id \in Returned : id \in SequenceIds /\ id < nextSequenceId
  BY SizesAssumption DEF IInv, TypeOK, PayloadOwnership, SequenceIds
<1>3. \A id \in SequenceIds : Status(id)' = IF Status(id) = "returned"
                                            THEN "freed" ELSE Status(id)
  BY <1>1, <1>2, StatusProperties DEF Status
<1>4. \E id \in SequenceIds : Status(id) = "returned"
  BY <1>1, <1>2, StatusProperties
<1>5. Lifecycle!FreeReturned
  BY <1>3, <1>4 DEF Lifecycle!FreeReturned, Lifecycle!SequenceIds, SequenceIds
<1> QED BY <1>5 DEF LifecycleStep, Lifecycle!Next

LEMMA ApplyRefines ==
    ASSUME IInv, IInv', QueueInOrder, ApplyCommand
    PROVE  LifecycleStep
<1>0. PICK c : c = Head(commandRing)
  OBVIOUS
<1>1. c \in Command /\ nextSequenceId' = nextSequenceId
  BY <1>0, ApplyEffect DEF ApplyCommand, mtVars
<1>2. CASE c.kind # "Add"
  BY <1>0, <1>1, <1>2, ApplyEffect, SameStatus
<1>3. CASE c.kind = "Add"
  <2>0. PICK id : id = c.arg
    OBVIOUS
  <2>1. /\ id \in SequenceIds /\ id \in Queued /\ id < nextSequenceId
        /\ id \notin Pooled /\ id \notin Returned /\ Queued' = Queued \ {id}
        /\ id \in Nat /\ \A other \in SequenceIds : other \in Nat
    <3>1. /\ id \in Queued /\ id \notin Pooled /\ id \notin Returned
          /\ Queued' = Queued \ {id}
      BY <1>0, <1>3, <2>0, ApplyEffect
    <3>2. id \in 1..(nextSequenceId - 1) /\ nextSequenceId \in 1..(MaxSequences + 1)
      BY <3>1 DEF IInv, TypeOK, PayloadOwnership
    <3> QED BY <3>1, <3>2, SizesAssumption DEF SequenceIds
  <2>2. Lifecycle!Oldest(id, "queued")
    <3>1. Status(id) = "queued"
      BY <2>1, StatusProperties
    <3>2. ASSUME NEW other \in 1..(id - 1)
          PROVE  other \in SequenceIds /\ Status(other) # "queued"
      <4>1. other \in SequenceIds /\ other # id /\ ~(id < other)
        BY <2>1, SizesAssumption DEF SequenceIds
      <4>2. other \notin Queued
        BY <4>1, <1>0, <1>3, <2>0, HeadIsOldest
      <4> QED BY <4>1, <4>2, StatusProperties
    <3> QED BY <2>1, <3>1, <3>2 DEF Lifecycle!Oldest
  <2>3. \A other \in SequenceIds \ {id} :
            (Pooled' \subseteq Pooled \cup {id} /\ Pooled \subseteq Pooled'
             /\ Returned' \subseteq Returned \cup {id} /\ Returned \subseteq Returned')
            => Status(other)' = Status(other)
    BY <1>1, <2>1 DEF Status
  <2>4. CASE Pooled' = Pooled \cup {id} /\ Returned' = Returned
    <3>1. Status(id)' = "playing"
      BY <2>1, <2>4 DEF Status
    <3>2. Lifecycle!Start(id)
      BY <2>1, <2>2, <2>3, <2>4, <3>1, OneMoves DEF Lifecycle!Start
    <3> QED BY <2>1, <3>2 DEF LifecycleStep, Lifecycle!Next, Lifecycle!SequenceIds, SequenceIds
  <2>5. CASE Pooled' = Pooled /\ Returned' = Returned \cup {id}
    <3>1. Status(id)' = "returned"
      BY <2>1, <2>5 DEF Status
    <3>2. Lifecycle!TurnAway(id)
      BY <2>1, <2>2, <2>3, <2>5, <3>1, OneMoves DEF Lifecycle!TurnAway
    <3> QED BY <2>1, <3>2 DEF LifecycleStep, Lifecycle!Next, Lifecycle!SequenceIds, SequenceIds
  <2>6. CASE Pooled' = Pooled /\ Returned' = Returned
    <3>1. Status(id)' = "freed"
      BY <1>1, <2>1, <2>6 DEF Status
    <3>2. Lifecycle!Destroy(id)
      BY <2>1, <2>2, <2>3, <2>6, <3>1, OneMoves DEF Lifecycle!Destroy
    <3> QED BY <2>1, <3>2 DEF LifecycleStep, Lifecycle!Next, Lifecycle!SequenceIds, SequenceIds
  <2> QED BY <1>0, <1>3, <2>0, <2>4, <2>5, <2>6, ApplyEffect
<1> QED BY <1>2, <1>3

LEMMA ProcessRefines ==
    ASSUME IInv, IInv', ProcessEntry
    PROVE  LifecycleStep
<1>1. Queued' = Queued /\ nextSequenceId' = nextSequenceId
  BY ProcessEffect DEF ProcessEntry, mtVars
<1>2. CASE Pooled' = Pooled /\ Returned' = Returned
  BY <1>1, <1>2, SameStatus
<1>3. ASSUME NEW id \in Pooled, Pooled' = Pooled \ {id}, Returned' = Returned \cup {id}
      PROVE  LifecycleStep
  <2>1. id \in SequenceIds /\ id \notin Queued
    BY SizesAssumption DEF IInv, TypeOK, PayloadOwnership, SequenceIds
  <2>2. Status(id) = "playing" /\ Status(id)' = "returned"
    BY <1>1, <1>3, <2>1 DEF Status
  <2>3. \A other \in SequenceIds \ {id} : Status(other)' = Status(other)
    BY <1>1, <1>3 DEF Status
  <2>4. Lifecycle!Return(id)
    BY <2>1, <2>2, <2>3, OneMoves DEF Lifecycle!Return
  <2> QED BY <2>1, <2>4 DEF LifecycleStep, Lifecycle!Next, Lifecycle!SequenceIds, SequenceIds
<1>4. CASE UNCHANGED <<heap, sequences, freedRing, midi, untracked>>
  BY <1>2, <1>4 DEF Pooled, Returned
<1>5. CASE ~UNCHANGED <<heap, sequences, freedRing, midi, untracked>>
  <2>1. PICK id \in Pooled :
            \/ Pooled' = Pooled \ {id} /\ Returned' = Returned \cup {id}
            \/ Pooled' = Pooled /\ Returned' = Returned
    BY <1>5, ProcessEffect
  <2> QED BY <1>2, <1>3, <2>1
<1> QED BY <1>4, <1>5

LEMMA NextRefines ==
    ASSUME IInv, IInv', QueueInOrder, [Next]_vars
    PROVE  [Lifecycle!Next]_StatusMap
<1> SUFFICES LifecycleStep
  BY DEF LifecycleStep
<1>1. ASSUME UNCHANGED <<nextSequenceId, heap, sequences, freedRing>>, Queued' = Queued
      PROVE  LifecycleStep
  <2>1. Pooled' = Pooled /\ Returned' = Returned
    BY <1>1 DEF Pooled, Returned
  <2> QED BY <1>1, <2>1, SameStatus
<1>2. CASE LoadPlugin \/ (\E n \in BlockSizes : BeginBlock(n)) \/ CommandsDrained
              \/ EndBlock \/ UNCHANGED vars
  <2>1. UNCHANGED <<nextSequenceId, heap, sequences, freedRing, commandRing>>
    BY <1>2 DEF LoadPlugin, BeginBlock, CommandsDrained, EndBlock, vars, audioVars, mtVars
  <2>2. Queued' = Queued
    BY <2>1 DEF Queued, Adds
  <2> QED BY <1>1, <2>1, <2>2 DEF LifecycleStep
<1>3. ASSUME NEW slot \in SlotIds, UnloadPlugin(slot) PROVE LifecycleStep
  <2> DEFINE c == [kind |-> "CancelByTargetSlot", arg |-> slot]
  <2>1. c \in Command /\ c.kind # "Add" /\ Push(c)
        /\ UNCHANGED <<nextSequenceId, heap, sequences, freedRing>>
    BY <1>3 DEF UnloadPlugin, Command, audioVars
  <2> HIDE DEF c
  <2> QED BY <2>1, <1>1, PushEffect
<1>4. ASSUME NEW other \in SequenceIds, StopSequence(other) PROVE LifecycleStep
  <2> DEFINE c == [kind |-> "Remove", arg |-> other]
  <2>1. c \in Command /\ c.kind # "Add" /\ Push(c)
        /\ UNCHANGED <<nextSequenceId, heap, sequences, freedRing>>
    BY <1>4 DEF StopSequence, Command, audioVars, mtVars
  <2> HIDE DEF c
  <2> QED BY <2>1, <1>1, PushEffect
<1>5. ASSUME NEW slot \in SlotIds, NEW score \in Scores, PlayMidiSequence(slot, score)
      PROVE  LifecycleStep
  BY <1>5, PlayRefines
<1>6. DrainFinishedSequences => LifecycleStep
  BY DrainRefines
<1>7. ApplyCommand => LifecycleStep
  BY ApplyRefines
<1>8. ProcessEntry => LifecycleStep
  BY ProcessRefines
<1> QED BY <1>2, <1>3, <1>4, <1>5, <1>6, <1>7, <1>8
        DEF Next, MessageThread, AudioThread

LEMMA InitRefines == Init => Lifecycle!Init
<1> SUFFICES ASSUME Init PROVE Lifecycle!Init
  OBVIOUS
<1>1. Live = {} /\ Queued = {} /\ Returned = {} /\ Pooled = {}
  BY SizesAssumption DEF Init, Live, Queued, Adds, Returned, Pooled, PoolIndices, Null
<1>2. \A id \in SequenceIds : Status(id) = "none"
  BY <1>1, SizesAssumption DEF Status, SequenceIds, Init
<1> QED BY <1>2 DEF Lifecycle!Init, Lifecycle!SequenceIds, SequenceIds

\* SchedulerNode implements SequenceLifecycle: for any pool, rings, scores and
\* number of sequences each one is queued, started, handed back and freed once
\* and in order, whatever the two threads interleave.
THEOREM LifecycleRefined == Spec => LifecycleKept
<1>1. (IInv /\ QueueInOrder) /\ (IInv /\ QueueInOrder)' /\ [Next]_vars
         => [Lifecycle!Next]_StatusMap
  BY NextRefines
<1> QED BY <1>1, InitRefines, OrderInvariance, PTL
        DEF Spec, LifecycleKept, Lifecycle!Spec, StatusMap

-----------------------------------------------------------------------------
(* Timing.                                                                 *)

\* What a step can make of a payload.
LEMMA HeapChanges ==
    ASSUME IInv, [Next]_vars, NEW id \in Live'
    PROVE  \/ id \in Live /\ heap'[id] = heap[id]
           \/ /\ id \in Pooled /\ id \in Live
              /\ heap'[id] = [heap[id] EXCEPT !.stop = TRUE]
           \/ /\ id \in Pooled /\ id \in Live /\ ProcessEntry
              /\ \/ heap'[id] = [heap[id] EXCEPT !.notes = {}]
                 \/ heap'[id] = Played(heap[id])
           \/ /\ id \notin Live
              /\ \E slot \in SlotIds, score \in Scores :
                    Accepts(score) /\ heap'[id] = NewSequence(slot, score)
<1> DEFINE Goal ==
           \/ id \in Live /\ heap'[id] = heap[id]
           \/ /\ id \in Pooled /\ id \in Live
              /\ heap'[id] = [heap[id] EXCEPT !.stop = TRUE]
           \/ /\ id \in Pooled /\ id \in Live /\ ProcessEntry
              /\ \/ heap'[id] = [heap[id] EXCEPT !.notes = {}]
                 \/ heap'[id] = Played(heap[id])
           \/ /\ id \notin Live
              /\ \E slot \in SlotIds, score \in Scores :
                    Accepts(score) /\ heap'[id] = NewSequence(slot, score)
<1> SUFFICES Goal
  OBVIOUS
<1>1. ASSUME id \in Live, heap'[id] = heap[id] PROVE Goal
  BY <1>1
<1>2. ASSUME id \in Pooled, id \in Live, heap'[id] = [heap[id] EXCEPT !.stop = TRUE]
      PROVE  Goal
  BY <1>2
<1>3. ASSUME id \in Pooled, id \in Live, ProcessEntry,
             \/ heap'[id] = [heap[id] EXCEPT !.notes = {}]
             \/ heap'[id] = Played(heap[id])
      PROVE  Goal
  BY <1>3
<1>4. ASSUME id \notin Live, NEW slot \in SlotIds, NEW score \in Scores,
             Accepts(score), heap'[id] = NewSequence(slot, score)
      PROVE  Goal
  BY <1>4
<1> HIDE DEF Goal
<1>5. CASE UNCHANGED heap
  BY <1>1, <1>5 DEF Live
<1>6. ASSUME NEW slot \in SlotIds, NEW score \in Scores, PlayMidiSequence(slot, score)
      PROVE  Goal
  <2>1. CASE id \in Live
    BY <1>1, <1>6, <2>1, PlayEffect
  <2>2. CASE id \notin Live
    <3>1. heap'[id] = NewSequence(slot, score)
      BY <1>6, <2>2, PlayEffect
    <3> QED BY <1>4, <1>6, <2>2, <3>1 DEF PlayMidiSequence
  <2> QED BY <2>1, <2>2
<1>7. CASE DrainFinishedSequences
  BY <1>1, <1>7, DrainEffect
<1>8. CASE ApplyCommand
  <2>1. Live' \subseteq Live
    BY <1>8, ApplyEffect
  <2> DEFINE q == [heap[id] EXCEPT !.stop = TRUE]
  <2>2. heap'[id] = heap[id] \/ (id \in Pooled /\ heap'[id] = q)
    <3> HIDE DEF q
    <3> QED BY <1>8, <2>1, ApplyEffect DEF q
  <2> QED BY <1>1, <1>2, <2>1, <2>2
<1>9. CASE ProcessEntry
  <2>1. CASE ~UNCHANGED <<heap, sequences, freedRing, midi, untracked>>
    <3>1. PICK other \in Pooled, q \in ActiveSequence :
              /\ other \in Live /\ heap' = [heap EXCEPT ![other] = q]
              /\ StopEntry \/ PlayEntry
              /\ StopEntry => q = [heap[other] EXCEPT !.notes = {}]
              /\ PlayEntry => q = Played(heap[other])
      BY <1>9, <2>1, ProcessEffect
    <3>2. /\ id \in Live
          /\ heap'[id] = IF id = other THEN q ELSE heap[id]
      BY <3>1 DEF IInv, TypeOK, Live
    <3>3. CASE id = other
      <4>1. q = [heap[id] EXCEPT !.notes = {}] \/ q = Played(heap[id])
        BY <3>1, <3>3
      <4> QED BY <1>3, <1>9, <3>1, <3>2, <3>3, <4>1
    <3> QED BY <1>1, <3>2, <3>3
  <2> QED BY <1>5, <2>1
<1> QED BY <1>5, <1>6, <1>7, <1>8, <1>9
        DEF Next, MessageThread, AudioThread, vars, LoadPlugin, UnloadPlugin,
            StopSequence, BeginBlock, CommandsDrained, EndBlock

\* The events handed to addSequence are in order of time: the check of each
\* against the one before is enough.
LEMMA CompileInOrder ==
    ASSUME NEW score \in Scores, Accepts(score)
    PROVE  /\ Len(Compile(score)) = Len(score) /\ Len(score) \in Nat
           /\ InOrder(Compile(score))
           /\ \A k \in 1..Len(score) :
                 /\ Compile(score)[k].start \in Nat
                 /\ Compile(score)[k].start =< Compile(score)[k].end
<1> DEFINE N == Len(score)
           e == Compile(score)
           T == {k \in 1..N : \E j \in 1..N : j < k /\ ~(e[j].start =< e[k].start)}
<1>1. N \in Nat
  BY ScoresAssumption, LenProperties
<1>2. \A k \in 1..N : e[k] \in MidiEvent /\ e[k].start =< e[k].end
  BY ScoresAssumption
<1>3. e \in [1..N -> MidiEvent]
  BY <1>2 DEF Compile
<1>4. e \in Seq(MidiEvent) /\ Len(e) = N
  BY <1>1, <1>3, SeqDef, LenProperties
<1>5. \A k \in 1..N : e[k].start \in Nat
  BY <1>2 DEF MidiEvent
<1>6. \A k \in 2..N : e[k - 1].start =< e[k].start
  <2>1. \A k \in 1..N : e[k].start = Samples(score[k].start)
    BY DEF Compile
  <2>2. \A k \in 2..N : Samples(score[k - 1].start) =< Samples(score[k].start)
    BY DEF Accepts
  <2>3. \A k \in 2..N : k \in 1..N /\ k - 1 \in 1..N
    BY <1>1
  <2> QED BY <2>1, <2>2, <2>3
<1> HIDE DEF e
<1>7. ASSUME T # {} PROVE FALSE
  <2>1. T \subseteq Nat
    BY <1>1
  <2>2. PICK k \in T : \A y \in T : k =< y
    BY <1>7, <2>1, Least
  <2>3. PICK j \in 1..N : j < k /\ ~(e[j].start =< e[k].start)
    BY <2>2
  <2>4. k \in 2..N /\ k - 1 \in 1..N /\ k - 1 \notin T /\ j \in 1..N
    BY <1>1, <2>2, <2>3
  <2>5. e[j].start =< e[k - 1].start
    <3>1. CASE j = k - 1
      BY <1>5, <2>4, <3>1
    <3>2. CASE j < k - 1
      BY <2>4, <3>2
    <3> QED BY <1>1, <2>2, <2>3, <3>1, <3>2
  <2>6. e[k - 1].start =< e[k].start
    BY <1>6, <2>4
  <2> QED BY <1>5, <2>2, <2>3, <2>4, <2>5, <2>6
<1>8. InOrder(e)
  BY <1>4, <1>7 DEF InOrder
<1> QED BY <1>1, <1>2, <1>4, <1>5, <1>8 DEF e

LEMMA NewSequenceTimely ==
    ASSUME NEW slot \in SlotIds, NEW score \in Scores, Accepts(score)
    PROVE  Timely(NewSequence(slot, score))
<1> DEFINE e == Compile(score)
<1>1. /\ Len(e) = Len(score) /\ Len(score) \in Nat /\ InOrder(e)
      /\ \A k \in 1..Len(score) : e[k].start \in Nat /\ e[k].start =< e[k].end
  BY CompileInOrder
<1> HIDE DEF e
<1>2. \A k \in 1..Len(e) : e[k].start >= 0
  BY <1>1
<1> QED BY <1>1, <1>2 DEF Timely, NewSequence, e

\* A block that is walked leaves the payload's cursor at or before everything
\* that is still to be emitted.
LEMMA PlayedTimely ==
    ASSUME NEW p \in ActiveSequence, IInv,
           p.next \in 1..(Len(p.events) + 1), p.notes \subseteq 1..Len(p.events),
           Timely(p)
    PROVE  Timely(Played(p))
<1> DEFINE q == Played(p)
           b == BlockEnd(p)
           N == Len(p.events)
<1>1. /\ N \in Nat /\ p.next \in Nat /\ p.cursor \in Nat
      /\ \A k \in 1..N : p.events[k].start \in Nat /\ p.events[k].end \in Nat
  BY PayloadParts
<1>2. b \in Nat
  BY <1>1, SizesAssumption DEF IInv, TypeOK, BlockEnd
<1>3. /\ WalkEnd(p, b) \in p.next..(N + 1)
      /\ WalkEnd(p, b) =< N => p.events[WalkEnd(p, b)].start >= b
  BY <1>2, WalkEndProperties
<1>4. /\ q.events = p.events /\ q.cursor = AtMost(b, Horizon)
      /\ q.next = WalkEnd(p, b) /\ q.notes = (p.notes \cup Tracked(p)) \ Expired(p)
      /\ q.notes \subseteq 1..N
  BY PlayedType DEF Played, ActiveSequence
<1>5. q.cursor \in Nat /\ q.cursor =< b
  BY <1>2, <1>4, ScoresAssumption DEF AtMost
<1> HIDE DEF q, N, b
<1>6. ASSUME NEW k \in q.next..N PROVE q.events[k].start >= q.cursor
  <2>1. k \in 1..N /\ WalkEnd(p, b) \in 1..N /\ WalkEnd(p, b) =< k
    BY <1>1, <1>3, <1>4
  <2>2. p.events[WalkEnd(p, b)].start =< p.events[k].start
    <3>1. CASE WalkEnd(p, b) = k
      BY <1>1, <2>1, <3>1
    <3>2. CASE WalkEnd(p, b) < k
      BY <2>1, <3>2 DEF Timely, InOrder, N
    <3> QED BY <1>1, <2>1, <3>1, <3>2
  <2>3. p.events[WalkEnd(p, b)].start >= b
    BY <1>1, <1>3, <2>1
  <2> QED BY <1>1, <1>2, <1>4, <1>5, <2>1, <2>2, <2>3
<1>7. ASSUME NEW k \in q.notes PROVE q.events[k].end >= q.cursor
  <2>1. k \in 1..N /\ ~(p.events[k].end < b)
    BY <1>4 DEF Expired, b
  <2> QED BY <1>1, <1>2, <1>4, <1>5, <2>1
<1> QED BY <1>4, <1>6, <1>7 DEF Timely, q, N

LEMMA TimelyKept == IInv /\ PayloadsTimely /\ [Next]_vars => PayloadsTimely'
<1> SUFFICES ASSUME IInv, PayloadsTimely, [Next]_vars, NEW id \in Live'
             PROVE  Timely(heap'[id])
  BY DEF PayloadsTimely, Timely, InOrder
<1> DEFINE p == heap[id]
<1>1. ASSUME id \in Live
      PROVE  /\ p \in ActiveSequence /\ Timely(p)
             /\ p.next \in 1..(Len(p.events) + 1) /\ p.notes \subseteq 1..Len(p.events)
  BY <1>1 DEF IInv, TypeOK, PayloadsTimely
<1> HIDE DEF p
<1>2. CASE id \in Live /\ heap'[id] = p
  BY <1>1, <1>2
<1>3. CASE id \in Live /\ heap'[id] = [p EXCEPT !.stop = TRUE]
  BY <1>1, <1>3 DEF Timely, ActiveSequence
<1>4. CASE id \in Live /\ heap'[id] = [p EXCEPT !.notes = {}]
  BY <1>1, <1>4 DEF Timely, ActiveSequence
<1>5. CASE id \in Live /\ heap'[id] = Played(p)
  BY <1>1, <1>5, PlayedTimely
<1>6. ASSUME NEW slot \in SlotIds, NEW score \in Scores,
             Accepts(score), heap'[id] = NewSequence(slot, score)
      PROVE  Timely(heap'[id])
  BY <1>6, NewSequenceTimely
<1> QED BY <1>2, <1>3, <1>4, <1>5, <1>6, HeapChanges DEF p

LEMMA TimelyInvariance == Spec => []PayloadsTimely
<1>1. Init => PayloadsTimely
  BY DEF Init, PayloadsTimely, Live
<1> QED BY <1>1, Invariance, TimelyKept, PTL DEF Spec

\* SchedulerNode: for any score the op accepts and any block sizes, no event is
\* started and no note ended behind the cursor: the clamps of the offsets never
\* move a message.
THEOREM NeverLate == Spec => []OnTime
<1>1. IInv /\ PayloadsTimely => OnTime
  BY DEF IInv, PayloadOwnership, PayloadsTimely, Timely, OnTime
<1> QED BY <1>1, Invariance, TimelyInvariance, PTL

-----------------------------------------------------------------------------
(* Retiring.                                                               *)

\* A queued payload has not played: it holds no note.
LEMMA FreshKept == IInv /\ QueuedFresh /\ [Next]_vars => QueuedFresh'
<1> SUFFICES ASSUME IInv, QueuedFresh, [Next]_vars, NEW id \in Queued', IInv'
             PROVE  heap'[id].notes = {}
  BY NextKeeps DEF QueuedFresh
<1>1. id \in Live'
  BY DEF IInv, PayloadOwnership
<1>2. CASE id \in Queued
  <2>1. id \in Live /\ id \notin Pooled /\ heap[id].notes = {}
    BY <1>2 DEF IInv, PayloadOwnership, QueuedFresh
  <2>2. heap'[id] = heap[id]
    BY <1>1, <2>1, HeapChanges
  <2> QED BY <2>1, <2>2
<1>3. CASE id \notin Queued
  <2>1. ASSUME Queued' = Queued PROVE FALSE
    BY <1>3, <2>1
  <2>2. CASE LoadPlugin \/ (\E n \in BlockSizes : BeginBlock(n)) \/ CommandsDrained
                \/ EndBlock \/ UNCHANGED vars
    <3>1. commandRing' = commandRing
      BY <2>2 DEF LoadPlugin, BeginBlock, CommandsDrained, EndBlock, vars
    <3> QED BY <2>1, <3>1 DEF Queued, Adds
  <2>3. ASSUME NEW slot \in SlotIds, UnloadPlugin(slot) PROVE FALSE
    <3> DEFINE c == [kind |-> "CancelByTargetSlot", arg |-> slot]
    <3>1. c \in Command /\ c.kind # "Add" /\ Push(c)
      BY <2>3 DEF UnloadPlugin, Command
    <3> HIDE DEF c
    <3> QED BY <2>1, <3>1, PushEffect
  <2>4. ASSUME NEW other \in SequenceIds, StopSequence(other) PROVE FALSE
    <3> DEFINE c == [kind |-> "Remove", arg |-> other]
    <3>1. c \in Command /\ c.kind # "Add" /\ Push(c)
      BY <2>4 DEF StopSequence, Command
    <3> HIDE DEF c
    <3> QED BY <2>1, <3>1, PushEffect
  <2>5. ASSUME NEW slot \in SlotIds, NEW score \in Scores,
               PlayMidiSequence(slot, score)
        PROVE  heap'[id].notes = {}
    <3>1. heap'[id] = NewSequence(slot, score)
      BY <1>3, <2>5, PlayEffect
    <3> QED BY <3>1 DEF NewSequence
  <2>6. CASE DrainFinishedSequences
    BY <2>1, <2>6, DrainEffect
  <2>7. CASE ApplyCommand
    BY <1>3, <2>7, ApplyEffect
  <2>8. CASE ProcessEntry
    BY <2>1, <2>8, ProcessEffect
  <2> QED BY <2>2, <2>3, <2>4, <2>5, <2>6, <2>7, <2>8
          DEF Next, MessageThread, AudioThread
<1> QED BY <1>2, <1>3

LEMMA SilentKept ==
    IInv /\ QueuedFresh /\ RetiredSilent /\ [Next]_vars => RetiredSilent'
<1> SUFFICES ASSUME IInv, QueuedFresh, RetiredSilent, [Next]_vars, IInv',
                    NEW id \in Returned'
             PROVE  /\ heap'[id].notes = {}
                    /\ \/ heap'[id].stop \/ heap'[id].next > Len(heap'[id].events)
                       \/ id \in dropped'
  BY NextKeeps DEF RetiredSilent
<1>1. id \in Live'
  BY DEF IInv, PayloadOwnership
<1>2. CASE id \in Returned
  <2>1. /\ id \in Live /\ id \notin Pooled /\ heap[id].notes = {}
        /\ heap[id].stop \/ heap[id].next > Len(heap[id].events) \/ id \in dropped
    BY <1>2 DEF IInv, PayloadOwnership, RetiredSilent
  <2>2. heap'[id] = heap[id]
    BY <1>1, <2>1, HeapChanges
  <2>3. dropped \subseteq dropped'
    BY ApplyEffect DEF Next, MessageThread, AudioThread, vars, LoadPlugin, UnloadPlugin,
       PlayMidiSequence, StopSequence, DrainFinishedSequences, BeginBlock,
       CommandsDrained, ProcessEntry, EndBlock, history
  <2> QED BY <2>1, <2>2, <2>3
<1>3. CASE id \notin Returned
  <2>1. ASSUME Returned' \subseteq Returned PROVE FALSE
    BY <1>3, <2>1
  <2>2. CASE UNCHANGED freedRing
    BY <2>1, <2>2 DEF Returned
  <2>3. ASSUME NEW slot \in SlotIds, NEW score \in Scores, PlayMidiSequence(slot, score)
        PROVE  FALSE
    BY <2>1, <2>3, PlayEffect
  <2>4. CASE DrainFinishedSequences
    BY <2>1, <2>4, DrainEffect
  <2>5. CASE ApplyCommand
    <3>1. id \in Queued /\ id \in dropped' /\ heap'[id] = heap[id]
      BY <1>1, <1>3, <2>5, ApplyEffect
    <3> QED BY <3>1 DEF QueuedFresh
  <2>6. CASE ProcessEntry
    <3>1. PICK other \in Pooled, q \in ActiveSequence :
              /\ other \in Live /\ heap' = [heap EXCEPT ![other] = q]
              /\ \/ /\ q.notes = {} /\ (q.stop \/ q.next > Len(q.events))
                    /\ Returned' = Returned \cup {other}
                 \/ Returned' = Returned
      <4>1. CASE ~UNCHANGED <<heap, sequences, freedRing, midi, untracked>>
        BY <2>6, <4>1, ProcessEffect
      <4>2. CASE UNCHANGED <<heap, sequences, freedRing, midi, untracked>>
        BY <2>2, <1>3, <4>2 DEF Returned
      <4> QED BY <4>1, <4>2
    <3>2. id = other /\ q.notes = {} /\ (q.stop \/ q.next > Len(q.events))
      BY <1>3, <3>1
    <3>3. heap'[id] = q
      BY <3>1, <3>2 DEF Live, IInv, TypeOK
    <3> QED BY <3>2, <3>3
  <2> QED BY <2>2, <2>3, <2>4, <2>5, <2>6
          DEF Next, MessageThread, AudioThread, vars, LoadPlugin, UnloadPlugin,
              StopSequence, BeginBlock, CommandsDrained, EndBlock
<1> QED BY <1>2, <1>3

LEMMA SilentInvariance == Spec => [](QueuedFresh /\ RetiredSilent)
<1>1. Init => QueuedFresh /\ RetiredSilent
  BY DEF Init, QueuedFresh, RetiredSilent, Queued, Adds, Returned
<1> QED BY <1>1, Invariance, FreshKept, SilentKept, PTL DEF Spec

\* SchedulerNode: what is handed back to be freed holds no note, and was
\* stopped, has played to its end, or was never started.
THEOREM RetiredIsSilent == Spec => []RetiredSilent
BY SilentInvariance, PTL

-----------------------------------------------------------------------------
(* Notes.                                                                  *)

\* A note of an entry that the step does not walk stays in its note table.
LEMMA HoldsKept ==
    ASSUME IInv, IInv', [Next]_vars, NEW i \in PoolIndices, NEW cn,
           Holds(i, cn), sequences'[i] = sequences[i],
           ProcessEntry => i # cur
    PROVE  Holds(i, cn)'
<1> DEFINE id == sequences[i]
           p == heap[id]
<1>1. id # Null /\ \E k \in p.notes : cn = <<p.chan, p.events[k].note>>
  BY DEF Holds
<1>2. id \in Pooled /\ id \in Live /\ p \in ActiveSequence
  BY <1>1 DEF IInv, TypeOK, PayloadOwnership, Pooled
<1>3. id \in Live'
  BY <1>1 DEF IInv, PayloadOwnership, Pooled
<1> SUFFICES /\ heap'[id].notes = p.notes /\ heap'[id].chan = p.chan
             /\ heap'[id].events = p.events
  BY <1>1 DEF Holds
<1>i. id = sequences[i]
  OBVIOUS
<1> HIDE DEF id, p
<1>4. CASE heap'[id] = p
  BY <1>4
<1>5. CASE heap'[id] = [p EXCEPT !.stop = TRUE]
  BY <1>2, <1>5 DEF ActiveSequence
<1>6. CASE ProcessEntry
  <2>1. CASE ~UNCHANGED <<heap, sequences, freedRing, midi, untracked>>
    <3>1. PICK other \in Pooled, q \in ActiveSequence :
              other = sequences[cur] /\ other # Null /\ heap' = [heap EXCEPT ![other] = q]
      BY <1>6, <2>1, ProcessEffect
    <3>2. cur \in PoolIndices /\ other # id
      BY <1>1, <1>6, <3>1, <1>i, ProcessEffect DEF IInv, PayloadOwnership
    <3>3. heap'[id] = p
      BY <1>2, <3>1, <3>2 DEF Live, IInv, TypeOK, p
    <3> QED BY <3>3
  <2>2. CASE UNCHANGED <<heap, sequences, freedRing, midi, untracked>>
    BY <2>2 DEF p
  <2> QED BY <2>1, <2>2
<1> QED BY <1>2, <1>3, <1>4, <1>5, <1>6, HeapChanges DEF p

\* A note ends no earlier in a block than it starts.
LEMMA OffsetOrder ==
    ASSUME NEW s \in Nat, NEW e \in Nat, NEW c \in Nat, NEW n \in Nat \ {0},
           s =< e, s < c + n
    PROVE  \/ AtLeastZero(s - c) < AtMost(AtLeastZero(e - c), n - 1)
           \/ AtLeastZero(s - c) = AtMost(AtLeastZero(e - c), n - 1)
BY DEF AtLeastZero, AtMost

\* What a walked entry makes of its notes: a note in its table stays there or
\* gets a note-off; a note-on it emits is tracked, or ended behind it in the
\* same block, or one the table had no room for.
LEMMA EntryNotes ==
    ASSUME IInv, PayloadsTimely, ProcessEntry, NEW id \in Live,
           id = sequences[cur], NEW p, p = heap[id], NEW q,
           StopEntry \/ PlayEntry, StopEntry => q = [p EXCEPT !.notes = {}],
           PlayEntry => q = Played(p)
    PROVE  /\ midi \subseteq midi' /\ untracked \subseteq untracked'
           /\ \A k \in p.notes :
                 \/ k \in q.notes
                 \/ \E o \in midi' : ~o.on /\ <<p.chan, p.events[k].note>> = <<o.chan, o.note>>
           /\ \A a \in midi' \ midi :
                 /\ a.src = cur
                 /\ a.on => \/ <<a.chan, a.note>> \in untracked'
                            \/ \E o \in midi' : ~o.on /\ SameNote(a, o) /\ Before(a, o)
                            \/ \E k \in q.notes :
                                  <<a.chan, a.note>> = <<p.chan, p.events[k].note>>
<1>1. /\ p \in ActiveSequence /\ Timely(p) /\ cur \in PoolIndices
      /\ p.next \in 1..(Len(p.events) + 1) /\ p.notes \subseteq 1..Len(p.events)
      /\ numSamples \in Nat \ {0}
  <2>1. cur \in PoolIndices /\ Timely(p)
    BY DEF ProcessEntry, PayloadsTimely
  <2>2. numSamples \in Nat \ {0}
    <3>0. numSamples \in BlockSizes \cup {0}
      BY DEF IInv, TypeOK
    <3>1. numSamples \in Nat
      BY <3>0, SizesAssumption
    <3>2. numSamples > 0
      BY DEF IInv, TypeOK, ProcessEntry
    <3> QED BY <3>1, <3>2
  <2>3. /\ p \in ActiveSequence
        /\ p.next \in 1..(Len(p.events) + 1) /\ p.notes \subseteq 1..Len(p.events)
    BY DEF IInv, TypeOK
  <2> QED BY <2>1, <2>2, <2>3
<1>2. CASE StopEntry
  <2>1. midi' = midi \cup {NoteMessage(p, k, FALSE, 0) : k \in p.notes}
        /\ untracked' = untracked
    BY <1>2 DEF StopEntry
  <2>2. \A k \in p.notes : LET o == NoteMessage(p, k, FALSE, 0)
                           IN  /\ o \in midi' /\ ~o.on /\ o.src = cur
                               /\ <<p.chan, p.events[k].note>> = <<o.chan, o.note>>
    BY <2>1 DEF NoteMessage
  <2>3. ASSUME NEW a \in midi' \ midi PROVE a.src = cur /\ ~a.on
    <3>1. PICK k \in p.notes : a = NoteMessage(p, k, FALSE, 0)
      BY <2>1, <2>3
    <3> QED BY <3>1, <2>2
  <2> QED BY <2>1, <2>2, <2>3
<1>3. CASE PlayEntry
  <2> DEFINE On(k)  == NoteMessage(p, k, TRUE, AtLeastZero(p.events[k].start - p.cursor))
             Off(k) == NoteMessage(p, k, FALSE,
                                   AtMost(AtLeastZero(p.events[k].end - p.cursor),
                                          numSamples - 1))
  <2>1. /\ midi' = midi \cup {On(k) : k \in Due(p)} \cup {Off(k) : k \in Expired(p)}
        /\ untracked' = untracked
              \cup {<<p.chan, p.events[k].note>> : k \in Due(p) \ Tracked(p)}
    BY <1>3 DEF PlayEntry
  <2>2. q.notes = (p.notes \cup Tracked(p)) \ Expired(p)
    BY <1>1, <1>3 DEF Played, ActiveSequence
  <2>3. \A k : /\ On(k).src = cur /\ On(k).on /\ On(k).chan = p.chan
               /\ On(k).note = p.events[k].note
               /\ Off(k).src = cur /\ ~Off(k).on /\ Off(k).chan = p.chan
               /\ Off(k).note = p.events[k].note
    BY DEF NoteMessage
  <2>4. ASSUME NEW k \in Due(p)
        PROVE  On(k).pos < Off(k).pos \/ On(k).pos = Off(k).pos
    <3>1. k \in 1..Len(p.events)
      BY <1>1, PlayedType
    <3>2. /\ p.events[k].start \in Nat /\ p.events[k].end \in Nat
          /\ p.events[k].start =< p.events[k].end
          /\ p.cursor \in Nat /\ p.next \in Nat
      BY <1>1, <3>1, PayloadParts DEF Timely
    <3>3. BlockEnd(p) \in Int /\ BlockEnd(p) = p.cursor + numSamples
      BY <1>1, <3>2 DEF BlockEnd
    <3>4. p.events[k].start < BlockEnd(p)
      BY <1>1, <3>3, WalkEndProperties DEF Due
    <3>5. /\ On(k).pos = AtLeastZero(p.events[k].start - p.cursor)
          /\ Off(k).pos = AtMost(AtLeastZero(p.events[k].end - p.cursor),
                                 numSamples - 1)
      BY DEF NoteMessage
    <3> HIDE DEF On, Off
    <3>6. p.events[k].start < p.cursor + numSamples
      BY <3>3, <3>4
    <3>7. ASSUME NEW s \in Nat, NEW e \in Nat, NEW c \in Nat,
                 s = p.events[k].start, e = p.events[k].end, c = p.cursor
          PROVE  On(k).pos < Off(k).pos \/ On(k).pos = Off(k).pos
      <4>1. numSamples \in Nat \ {0} /\ s =< e /\ s < c + numSamples
        BY <1>1, <3>2, <3>6, <3>7
      <4>2. \/ AtLeastZero(s - c) < AtMost(AtLeastZero(e - c), numSamples - 1)
            \/ AtLeastZero(s - c) = AtMost(AtLeastZero(e - c), numSamples - 1)
        BY <4>1, OffsetOrder
      <4> QED BY <3>5, <3>7, <4>2
    <3> QED BY <3>2, <3>7
  <2> HIDE DEF On, Off
  <2>5. \A k \in p.notes : k \in q.notes \/ Off(k) \in midi'
    BY <2>1, <2>2
  <2>8. \A k \in Due(p) : SameNote(On(k), Off(k)) /\ Before(On(k), Off(k))
    BY <2>3, <2>4 DEF SameNote, Before
  <2>6. ASSUME NEW k \in Due(p)
        PROVE  \/ <<On(k).chan, On(k).note>> \in untracked'
               \/ \E o \in midi' : ~o.on /\ SameNote(On(k), o) /\ Before(On(k), o)
               \/ k \in q.notes
    <3>1. CASE k \notin Tracked(p)
      BY <2>1, <2>3, <3>1
    <3>2. CASE k \in Expired(p)
      BY <2>1, <2>3, <2>8, <3>2
    <3>3. CASE k \in Tracked(p) /\ k \notin Expired(p)
      BY <2>2, <3>3
    <3> QED BY <3>1, <3>2, <3>3
  <2>7. ASSUME NEW a \in midi' \ midi
        PROVE  /\ a.src = cur
               /\ a.on => \/ <<a.chan, a.note>> \in untracked'
                          \/ \E o \in midi' : ~o.on /\ SameNote(a, o) /\ Before(a, o)
                          \/ \E k \in q.notes :
                                <<a.chan, a.note>> = <<p.chan, p.events[k].note>>
    <3>1. CASE \E k \in Due(p) : a = On(k)
      <4>1. PICK k \in Due(p) : a = On(k)
        BY <3>1
      <4> QED BY <2>3, <2>6, <4>1
    <3>2. CASE \E k \in Expired(p) : a = Off(k)
      BY <2>3, <3>2
    <3> QED BY <2>1, <2>7, <3>1, <3>2
  <2> QED BY <2>1, <2>3, <2>5, <2>7
<1> QED BY <1>2, <1>3

LEMMA ProcessNotes == IInv /\ IInv' /\ PayloadsTimely /\ NotesEnd /\ ProcessEntry => NotesEnd'
<1> SUFFICES ASSUME IInv, IInv', PayloadsTimely, NotesEnd, ProcessEntry
             PROVE  NotesEnd'
  OBVIOUS
<1>1. /\ cur \in PoolIndices /\ pc = "walk" /\ pc' = "walk" /\ cur' = cur + 1
      /\ sounding' = sounding /\ [Next]_vars
  BY DEF ProcessEntry, Next, AudioThread
<1>2. \A m \in midi : m.src \in PoolIndices /\ m.src < cur
  BY DEF NotesEnd, BlockSoFar, IInv, TypeOK, MidiMessage
<1>3. \A i \in PoolIndices : i \in Nat /\ cur \in Nat
  BY <1>1, SizesAssumption DEF PoolIndices
<1>4. ASSUME NEW i \in PoolIndices, NEW cn, Holds(i, cn), i # cur,
             sequences'[i] = sequences[i]
      PROVE  Holds(i, cn)'
  BY <1>1, <1>4, HoldsKept
<1>5. CASE UNCHANGED <<heap, sequences, freedRing, midi, untracked>>
  <2>1. \A m \in midi' : m.src < cur'
    BY <1>1, <1>2, <1>3, <1>5
  <2> QED BY <1>1, <1>5, <2>1 DEF NotesEnd, BlockSoFar, OnsEnd, SoundingEnds, Holds
<1>6. CASE ~UNCHANGED <<heap, sequences, freedRing, midi, untracked>>
  <2>1. PICK id \in Pooled, q \in ActiveSequence :
            /\ id = sequences[cur] /\ id \in Live /\ id # Null
            /\ heap' = [heap EXCEPT ![id] = q]
            /\ StopEntry \/ PlayEntry
            /\ StopEntry => q = [heap[id] EXCEPT !.notes = {}]
            /\ PlayEntry => q = Played(heap[id])
            /\ q.chan = heap[id].chan /\ q.events = heap[id].events
            /\ \/ q.notes = {} /\ sequences' = [sequences EXCEPT ![cur] = Null]
               \/ sequences' = sequences
    BY <1>6, ProcessEffect
  <2>2. PICK p : p = heap[id]
    OBVIOUS
  <2>3. /\ midi \subseteq midi' /\ untracked \subseteq untracked'
        /\ \A k \in p.notes :
              \/ k \in q.notes
              \/ \E o \in midi' : ~o.on /\ <<p.chan, p.events[k].note>> = <<o.chan, o.note>>
        /\ \A a \in midi' \ midi :
              /\ a.src = cur
              /\ a.on => \/ <<a.chan, a.note>> \in untracked'
                         \/ \E o \in midi' : ~o.on /\ SameNote(a, o) /\ Before(a, o)
                         \/ \E k \in q.notes :
                               <<a.chan, a.note>> = <<p.chan, p.events[k].note>>
    <3>1. /\ StopEntry => q = [p EXCEPT !.notes = {}]
          /\ PlayEntry => q = Played(p)
      BY <2>1, <2>2
    <3> QED BY <2>1, <2>2, <3>1, EntryNotes
  <2>4. \A i \in PoolIndices : i # cur => sequences'[i] = sequences[i]
    BY <2>1 DEF IInv, TypeOK
  <2>6. ASSUME NEW k \in q.notes
        PROVE  \E i \in PoolIndices : i = cur /\ sequences'[i] = id /\ heap'[id] = q
    <3>1. sequences'[cur] = id
      BY <2>1, <2>6
    <3>2. heap'[id] = q
      BY <2>1 DEF Live
    <3> QED BY <1>1, <3>1, <3>2
  <2>7. BlockSoFar'
    <3>1. \A m \in midi' : m.src = cur \/ (m.src \in PoolIndices /\ m.src < cur)
      BY <1>2, <2>3
    <3>2. \A m \in midi' : m.src < cur'
      BY <1>1, <1>3, <3>1
    <3> QED BY <1>1, <3>2 DEF BlockSoFar
  <2>8. OnsEnd'
    <3> SUFFICES ASSUME NEW a \in midi', a.on
                 PROVE  \/ <<a.chan, a.note>> \in untracked'
                        \/ \E o \in midi' : ~o.on /\ SameNote(a, o) /\ Before(a, o)
                        \/ Holds(a.src, <<a.chan, a.note>>)'
      BY DEF OnsEnd
    <3>1. CASE a \in midi
      <4>1. /\ a.src \in PoolIndices /\ a.src # cur
            /\ sequences'[a.src] = sequences[a.src]
        BY <1>2, <1>3, <2>4, <3>1
      <4>2. \/ <<a.chan, a.note>> \in untracked
            \/ \E o \in midi : ~o.on /\ SameNote(a, o) /\ Before(a, o)
            \/ Holds(a.src, <<a.chan, a.note>>)
        BY <3>1 DEF NotesEnd, OnsEnd
      <4> QED BY <1>4, <2>3, <4>1, <4>2
    <3>2. CASE a \notin midi
      <4>1. a.src = cur
        BY <2>3, <3>2
      <4>2. ASSUME NEW k \in q.notes, <<a.chan, a.note>> = <<p.chan, p.events[k].note>>
            PROVE  Holds(a.src, <<a.chan, a.note>>)'
        <5>1. sequences'[a.src] = id /\ heap'[id] = q
          BY <2>6, <4>1, <4>2
        <5> QED BY <2>1, <2>2, <4>2, <5>1 DEF Holds
      <4> QED BY <2>3, <3>2, <4>2
    <3> QED BY <3>1, <3>2
  <2>9. SoundingEnds'
    <3> SUFFICES ASSUME NEW cn \in sounding' \ untracked'
                 PROVE  \/ \E o \in midi' : ~o.on /\ cn = <<o.chan, o.note>>
                        \/ \E i \in PoolIndices : Holds(i, cn)'
      BY DEF SoundingEnds
    <3>1. \/ \E o \in midi : ~o.on /\ cn = <<o.chan, o.note>>
          \/ \E i \in PoolIndices : Holds(i, cn)
      BY <1>1, <2>3 DEF NotesEnd, SoundingEnds
    <3>2. ASSUME NEW i \in PoolIndices, Holds(i, cn), i # cur
          PROVE  Holds(i, cn)'
      BY <1>4, <2>4, <3>2
    <3>3. ASSUME Holds(cur, cn)
          PROVE  \/ \E o \in midi' : ~o.on /\ cn = <<o.chan, o.note>>
                 \/ \E i \in PoolIndices : Holds(i, cn)'
      <4>1. PICK k \in p.notes : cn = <<p.chan, p.events[k].note>>
        BY <2>1, <2>2, <3>3 DEF Holds
      <4>2. CASE k \in q.notes
        <5>1. PICK i \in PoolIndices : sequences'[i] = id /\ heap'[id] = q
          BY <2>6, <4>2
        <5>2. Holds(i, cn)'
          BY <2>1, <2>2, <4>1, <4>2, <5>1 DEF Holds
        <5> QED BY <5>2
      <4>3. CASE k \notin q.notes
        BY <2>3, <4>1, <4>3
      <4> QED BY <4>2, <4>3
    <3> QED BY <2>3, <3>1, <3>2, <3>3
  <2> QED BY <2>7, <2>8, <2>9 DEF NotesEnd
<1> QED BY <1>5, <1>6

\* After a block everything that sounds is held by an entry or untracked.
LEMMA EndNotes == IInv /\ NotesEnd /\ EndBlock => NotesEnd'
<1> SUFFICES ASSUME IInv, NotesEnd, EndBlock PROVE NotesEnd'
  OBVIOUS
<1>1. /\ midi' = {} /\ pc' = "idle" /\ sounding' = AfterBlock(sounding, midi)
      /\ UNCHANGED <<heap, sequences, untracked>>
  BY DEF EndBlock, history
<1>2. \A i, cn : Holds(i, cn) => Holds(i, cn)'
  BY <1>1 DEF Holds
<1>3. ASSUME NEW cn \in sounding' \ untracked
      PROVE  \E i \in PoolIndices : Holds(i, cn)
  <2>1. CASE cn \in sounding /\ \A o \in midi : ~o.on => cn # <<o.chan, o.note>>
    BY <1>3, <2>1 DEF NotesEnd, SoundingEnds
  <2>2. ASSUME NEW a \in midi, a.on, cn = <<a.chan, a.note>>,
               \A o \in midi : ~o.on => (SameNote(a, o) => ~Before(a, o))
        PROVE  \E i \in PoolIndices : Holds(i, cn)
    <3>1. a.src \in PoolIndices
      BY DEF IInv, TypeOK, MidiMessage
    <3> QED BY <1>3, <2>2, <3>1 DEF NotesEnd, OnsEnd
  <2>3. \/ cn \in sounding /\ \A o \in midi : ~o.on => cn # <<o.chan, o.note>>
        \/ \E a \in midi : /\ a.on /\ cn = <<a.chan, a.note>>
                           /\ \A o \in midi : ~o.on => (SameNote(a, o) => ~Before(a, o))
    BY <1>1, <1>3 DEF AfterBlock
  <2> QED BY <2>1, <2>2, <2>3
<1> QED BY <1>1, <1>2, <1>3 DEF NotesEnd, BlockSoFar, OnsEnd, SoundingEnds

\* The other steps leave the notes of the pool and what sounds alone.
LEMMA OtherNotes ==
    IInv /\ IInv' /\ NotesEnd /\ [Next]_vars /\ ~ProcessEntry /\ ~EndBlock => NotesEnd'
<1> SUFFICES ASSUME IInv, IInv', NotesEnd, [Next]_vars, ~ProcessEntry, ~EndBlock
             PROVE  NotesEnd'
  OBVIOUS
<1>1. /\ sounding' = sounding /\ untracked' = untracked
      /\ \/ midi' = midi /\ pc' = pc /\ cur' = cur
         \/ midi' = {} /\ (midi = {} \/ pc # "walk")
  BY DEF Next, MessageThread, AudioThread, vars, LoadPlugin, UnloadPlugin,
     PlayMidiSequence, StopSequence, DrainFinishedSequences, BeginBlock, ApplyCommand,
     CommandsDrained, mtVars, audioVars, history, NotesEnd, BlockSoFar
<1>2. midi' = midi
  BY <1>1 DEF NotesEnd, BlockSoFar
<1>3. ASSUME NEW i \in PoolIndices, NEW cn, Holds(i, cn) PROVE Holds(i, cn)'
  <2>1. sequences'[i] = sequences[i]
    <3>1. CASE ~ApplyCommand
      BY <3>1 DEF Next, MessageThread, AudioThread, vars, LoadPlugin, UnloadPlugin,
         PlayMidiSequence, StopSequence, DrainFinishedSequences, BeginBlock,
         CommandsDrained, mtVars, audioVars, history
    <3>2. CASE ApplyCommand
      <4>1. \/ sequences' = sequences
            \/ \E j \in PoolIndices : \E x :
                  /\ sequences[j] = Null
                  /\ sequences' = [sequences EXCEPT ![j] = x]
        BY <3>2, ApplyEffect
      <4>2. sequences[i] # Null
        BY <1>3 DEF Holds
      <4> QED BY <4>1, <4>2 DEF IInv, TypeOK
    <3> QED BY <3>1, <3>2
  <2> QED BY <1>3, <2>1, HoldsKept
<1>4. \A m \in midi : m.src \in PoolIndices
  BY DEF IInv, TypeOK, MidiMessage
<1>5. BlockSoFar'
  BY <1>1, <1>2 DEF NotesEnd, BlockSoFar
<1>6. OnsEnd'
  <2> SUFFICES ASSUME NEW a \in midi, a.on
               PROVE  \/ <<a.chan, a.note>> \in untracked'
                      \/ \E o \in midi : ~o.on /\ SameNote(a, o) /\ Before(a, o)
                      \/ Holds(a.src, <<a.chan, a.note>>)'
    BY <1>2 DEF OnsEnd
  <2> QED BY <1>1, <1>3, <1>4 DEF NotesEnd, OnsEnd
<1>7. SoundingEnds'
  <2> SUFFICES ASSUME NEW cn \in sounding \ untracked
               PROVE  \/ \E o \in midi : ~o.on /\ cn = <<o.chan, o.note>>
                      \/ \E i \in PoolIndices : Holds(i, cn)'
    BY <1>1, <1>2 DEF SoundingEnds
  <2> QED BY <1>3 DEF NotesEnd, SoundingEnds
<1> QED BY <1>5, <1>6, <1>7 DEF NotesEnd

LEMMA NotesInvariance == Spec => []NotesEnd
<1>1. Init => NotesEnd
  BY DEF Init, NotesEnd, BlockSoFar, OnsEnd, SoundingEnds
<1>2. /\ IInv /\ IInv' /\ PayloadsTimely /\ NotesEnd /\ [Next]_vars => NotesEnd'
  BY ProcessNotes, EndNotes, OtherNotes
<1> QED BY <1>1, <1>2, Invariance, TimelyInvariance, PTL DEF Spec

\* SchedulerNode: for any scores, pool, rings and blocks, a note left sounding
\* between blocks is in the note table of a sequence that will end it, unless
\* it was started with the table full.
THEOREM NoNoteIsStuck == Spec => []NoStuckNotes
<1>1. IInv /\ NotesEnd => NoStuckNotes
  <2> SUFFICES ASSUME IInv, NotesEnd, pc = "idle", NEW cn \in sounding \ untracked
               PROVE  \E id \in Pooled : \E k \in heap[id].notes :
                          cn = <<heap[id].chan, heap[id].events[k].note>>
    BY DEF NoStuckNotes
  <2>1. PICK i \in PoolIndices : Holds(i, cn)
    BY DEF NotesEnd, BlockSoFar, SoundingEnds
  <2> QED BY <2>1 DEF Holds, Pooled
<1> QED BY <1>1, Invariance, NotesInvariance, PTL

=============================================================================
