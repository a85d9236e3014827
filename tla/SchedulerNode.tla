---------------------------- MODULE SchedulerNode ----------------------------
(***************************************************************************)
(* The sample-accurate sequencer of the host (SchedulerNode.h) with the    *)
(* message-thread operations that feed it (Main.cpp) and the part of       *)
(* DawGraph it depends on: slots are created, and removed with a callback. *)
(*                                                                         *)
(* Two threads run.  The message thread compiles a score, allocates an id  *)
(* and a heap payload and pushes commands into commandRing; 60 times a     *)
(* second it pops freedRing and frees what it finds.  The audio thread     *)
(* runs processBlock: it pops every command, walks the pool of active      *)
(* sequences emitting MIDI, and pushes what has finished into freedRing.   *)
(* Both rings are the queues that SpscRing.tla shows SpscRing<T> to be, so *)
(* a push or a pop is one step here.                                       *)
(***************************************************************************)
EXTENDS Integers, Sequences, FiniteSets

CONSTANTS
    MaxSequences,      \* bound: sequence ids the message thread hands out
    MaxSlots,          \* bound: plugin slots created in a behaviour
    ChannelOf,         \* host channel (0-based) each slot is created on
    Scores,            \* event lists a client may send, in ticks
    SamplesPerMinute,  \* sr * 60
    TicksPerMinute,    \* tempoBpm * ticksPerBeat
    PoolSize,          \* kMaxActiveSequences
    MaxActiveNotes,    \* kMaxActiveNotes
    CommandRingSize,   \* kCommandRingSize
    FreeRingSize,      \* kFreeRingSize
    BlockSizes,        \* numSamples of a device callback
    Horizon            \* a sample position after the end of every score

SequenceIds == 1..MaxSequences
SlotIds     == 1..MaxSlots
PoolIndices == 1..PoolSize
Notes       == 0..127
MidiChannels == 1..16
Null        == 0       \* an empty pool entry (a null unique_ptr)

TickEvent == [note : Int, start : Int, dur : Int]
MidiEvent == [note : Notes, start : Nat, end : Nat]

-----------------------------------------------------------------------------
(* playMidiSequence: conversion of ticks to samples and validation.        *)

\* (int64)(ticks * samplesPerTick), samplesPerTick = sr*60 / (bpm*tpb)
Samples(ticks) == (ticks * SamplesPerMinute) \div TicksPerMinute

\* Mutant: the order of the events is not checked.
AcceptsUnsorted(score) ==
    \A k \in 1..Len(score) : /\ score[k].note \in Notes
                             /\ score[k].start >= 0
                             /\ score[k].dur > 0

\* Every check of the loop over the events passes.
Accepts(score) ==
    /\ \A k \in 1..Len(score) : /\ score[k].note \in Notes
                                /\ score[k].start >= 0
                                /\ score[k].dur > 0
    /\ \A k \in 2..Len(score) :
           Samples(score[k-1].start) =< Samples(score[k].start)

\* The events handed to addSequence; start and duration are truncated apart.
Compile(score) ==
    [k \in 1..Len(score) |->
        [note  |-> score[k].note,
         start |-> Samples(score[k].start),
         end   |-> Samples(score[k].start) + Samples(score[k].dur)]]

ASSUME SizesAssumption ==
    /\ MaxSequences \in Nat /\ MaxSlots \in Nat
    /\ PoolSize \in Nat \ {0} /\ MaxActiveNotes \in Nat \ {0}
    /\ CommandRingSize \in Nat \ {0} /\ FreeRingSize \in Nat \ {0}
    /\ BlockSizes \subseteq Nat

ASSUME ScoresAssumption ==
    /\ ChannelOf \in [SlotIds -> Nat]
    /\ Scores \subseteq Seq(TickEvent)
    /\ SamplesPerMinute \in Nat \ {0} /\ TicksPerMinute \in Nat \ {0}
    /\ Horizon \in Nat
    /\ \A score \in Scores : Accepts(score) =>
           \A k \in 1..Len(score) : /\ Compile(score)[k].end < Horizon
                                    /\ Compile(score)[k] \in MidiEvent
                                    /\ Compile(score)[k].start =< Compile(score)[k].end

\* jlimit(1, 16, channelIdx + 1)
MidiChannel(slot) == IF ChannelOf[slot] + 1 > 16 THEN 16 ELSE ChannelOf[slot] + 1

-----------------------------------------------------------------------------
VARIABLES
    \* message thread
    nextSlotId,      \* DawGraph::nextSlotId
    slots,           \* slots DawGraph has a node for
    nextSequenceId,
    \* shared
    commandRing,     \* message thread -> audio thread
    freedRing,       \* audio thread -> message thread
    heap,            \* the ActiveSequence objects that exist, by sequence id
    \* audio thread
    sequences,       \* the pool: an id or Null in each entry
    pc,              \* where processBlock is
    cur,             \* the pool entry processBlock looks at next
    numSamples,      \* length of the current block
    midi,            \* messages of the current block
    \* observed outside
    sounding,        \* <<channel, note>> pairs the instruments hold
    \* history, read by no action of the code
    lost,            \* commands dropped because commandRing was full
    stopped,         \* ids stopSequence was called for
    untracked,       \* <<channel, note>> pairs started with the note table full
    audioFreed,      \* ids whose payload the audio thread destroyed
    dropped          \* ids accepted, then dropped because the pool was full

mtVars    == <<nextSlotId, slots, nextSequenceId>>
audioVars == <<sequences, pc, cur, numSamples, midi>>
history   == <<lost, stopped, untracked, audioFreed, dropped>>
vars == <<mtVars, commandRing, freedRing, heap, audioVars, sounding, history>>

-----------------------------------------------------------------------------
Command == [kind : {"Add", "Remove"}, arg : SequenceIds]
           \cup [kind : {"CancelByTargetSlot"}, arg : SlotIds]

ActiveSequence ==
    [slot : SlotIds, chan : MidiChannels, events : Seq(MidiEvent),
     cursor : 0..Horizon, next : Nat \ {0}, stop : BOOLEAN,
     notes : SUBSET (Nat \ {0})]     \* indices of the events in activeNotes

MidiMessage == [pos : Nat, src : PoolIndices, on : BOOLEAN,
                chan : MidiChannels, note : Notes]

Pooled   == {sequences[i] : i \in PoolIndices} \ {Null}
Returned == {freedRing[i] : i \in DOMAIN freedRing}
Adds     == {i \in DOMAIN commandRing : commandRing[i].kind = "Add"}
Queued   == {commandRing[i].arg : i \in Adds}
Live     == DOMAIN heap

\* Mutant: the full check is off by one.
PushOneTooMany(command) ==
    IF Len(commandRing) =< CommandRingSize
    THEN commandRing' = Append(commandRing, command) /\ lost' = lost
    ELSE commandRing' = commandRing /\ lost' = lost \cup {command}

Push(command) == IF Len(commandRing) < CommandRingSize
                 THEN /\ commandRing' = Append(commandRing, command)
                      /\ lost' = lost
                 ELSE /\ commandRing' = commandRing
                      /\ lost' = lost \cup {command}

Without(f, x)   == [y \in DOMAIN f \ {x} |-> f[y]]
WithValue(f, x, v) == [y \in DOMAIN f \cup {x} |-> IF y = x THEN v ELSE f[y]]

Init ==
    /\ nextSlotId = 1 /\ slots = {} /\ nextSequenceId = 1
    /\ commandRing = <<>> /\ freedRing = <<>>
    /\ heap = [id \in {} |-> id]
    /\ sequences = [i \in PoolIndices |-> Null]
    /\ pc = "idle" /\ cur = 1 /\ numSamples = 0 /\ midi = {}
    /\ sounding = {}
    /\ lost = {} /\ stopped = {} /\ untracked = {} /\ audioFreed = {} /\ dropped = {}

-----------------------------------------------------------------------------
(* Message thread.                                                         *)

\* addPluginNode: slot ids are never reused.
LoadPlugin ==
    /\ nextSlotId =< MaxSlots
    /\ slots' = slots \cup {nextSlotId}
    /\ nextSlotId' = nextSlotId + 1
    /\ UNCHANGED <<nextSequenceId, commandRing, freedRing, heap, audioVars,
                   sounding, history>>

\* removePluginNode, then the slot-removed callback, which does not look at
\* the result of cancelByTargetSlot.
UnloadPlugin(slot) ==
    /\ slot \in slots
    /\ slots' = slots \ {slot}
    /\ Push([kind |-> "CancelByTargetSlot", arg |-> slot])
    /\ UNCHANGED <<nextSlotId, nextSequenceId, freedRing, heap, audioVars,
                   sounding, stopped, untracked, audioFreed, dropped>>

NewSequence(slot, score) ==
    [slot |-> slot, chan |-> MidiChannel(slot), events |-> Compile(score),
     cursor |-> 0, next |-> 1, stop |-> FALSE, notes |-> {}]

\* The playMidiSequence op.  A refused score changes nothing; a full ring
\* uses up the id, and the payload dies with the command on this thread.
PlayMidiSequence(slot, score) ==
    /\ nextSequenceId =< MaxSequences
    /\ slot \in slots
    /\ Accepts(score)
    /\ nextSequenceId' = nextSequenceId + 1
    /\ IF Len(commandRing) < CommandRingSize
       THEN /\ heap' = WithValue(heap, nextSequenceId, NewSequence(slot, score))
            /\ commandRing' = Append(commandRing,
                                     [kind |-> "Add", arg |-> nextSequenceId])
       ELSE UNCHANGED <<heap, commandRing>>
    /\ UNCHANGED <<nextSlotId, slots, freedRing, audioVars, sounding, history>>

\* The stopSequence op, which answers {} whether or not the command was
\* queued.  Bound: it is called once for an id.
StopSequence(id) ==
    /\ id < nextSequenceId /\ id \notin stopped
    /\ stopped' = stopped \cup {id}
    /\ Push([kind |-> "Remove", arg |-> id])
    /\ UNCHANGED <<mtVars, freedRing, heap, audioVars, sounding, untracked,
                   audioFreed, dropped>>

\* One tick of the drain timer: pop until the ring is empty.
DrainFinishedSequences ==
    /\ freedRing # <<>>
    /\ freedRing' = <<>>
    /\ heap' = [id \in Live \ Returned |-> heap[id]]
    /\ UNCHANGED <<mtVars, commandRing, audioVars, sounding, history>>

MessageThread ==
    \/ LoadPlugin
    \/ \E slot \in SlotIds : UnloadPlugin(slot)
    \/ \E slot \in SlotIds, score \in Scores : PlayMidiSequence(slot, score)
    \/ \E id \in SequenceIds : StopSequence(id)
    \/ DrainFinishedSequences

-----------------------------------------------------------------------------
(* Audio thread: processBlock.                                             *)

BeginBlock(n) ==
    /\ pc = "idle"
    /\ pc' = "drain" /\ numSamples' = n /\ midi' = {}
    /\ UNCHANGED <<mtVars, commandRing, freedRing, heap, sequences, cur,
                   sounding, history>>

FreeEntries == {i \in PoolIndices : sequences[i] = Null}
FirstFree == CHOOSE i \in FreeEntries : \A j \in FreeEntries : i =< j

\* placeSequence: the lowest empty pool entry; with the pool full the payload
\* goes back to the message thread, and with freedRing full as well the
\* unique_ptr f dies here, on the audio thread.
PlaceSequence(id) ==
    \/ /\ FreeEntries # {}
       /\ sequences' = [sequences EXCEPT ![FirstFree] = id]
       /\ UNCHANGED <<freedRing, heap, audioFreed, dropped>>
    \/ /\ FreeEntries = {} /\ Len(freedRing) < FreeRingSize
       /\ freedRing' = Append(freedRing, id)
       /\ dropped' = dropped \cup {id}
       /\ UNCHANGED <<sequences, heap, audioFreed>>
    \/ /\ FreeEntries = {} /\ Len(freedRing) >= FreeRingSize
       /\ heap' = Without(heap, id)
       /\ audioFreed' = audioFreed \cup {id}
       /\ dropped' = dropped \cup {id}
       /\ UNCHANGED <<sequences, freedRing>>

\* Mutant: the search ends at the first match.
RequestStopFirst(Matching) ==
    LET Hits == {i \in PoolIndices : sequences[i] \in Live \cap Matching}
    IN  /\ heap' = [id \in Live |->
                       IF \E i \in Hits : sequences[i] = id /\ \A j \in Hits : i =< j
                       THEN [heap[id] EXCEPT !.stop = TRUE]
                       ELSE heap[id]]
        /\ UNCHANGED <<sequences, freedRing, audioFreed, dropped>>

\* requestStopById and requestStopBySlot look at the pool only.
RequestStop(Matching) ==
    /\ heap' = [id \in Live |-> IF id \in Pooled \cap Matching
                                THEN [heap[id] EXCEPT !.stop = TRUE]
                                ELSE heap[id]]
    /\ UNCHANGED <<sequences, freedRing, audioFreed, dropped>>

\* Mutant: the newest command first.
ApplyCommandNewestFirst ==
    /\ pc = "drain" /\ commandRing # <<>>
    /\ commandRing' = SubSeq(commandRing, 1, Len(commandRing) - 1)
    /\ LET command == commandRing[Len(commandRing)]
       IN  \/ command.kind = "Add"    /\ PlaceSequence(command.arg)
           \/ command.kind = "Remove" /\ RequestStop({command.arg})
           \/ /\ command.kind = "CancelByTargetSlot"
              /\ RequestStop({id \in Live : heap[id].slot = command.arg})
    /\ UNCHANGED <<mtVars, pc, cur, numSamples, midi, sounding, lost, stopped,
                   untracked>>

ApplyCommand ==
    /\ pc = "drain" /\ commandRing # <<>>
    /\ commandRing' = Tail(commandRing)
    /\ LET command == Head(commandRing)
       IN  \/ command.kind = "Add"    /\ PlaceSequence(command.arg)
           \/ command.kind = "Remove" /\ RequestStop({command.arg})
           \/ /\ command.kind = "CancelByTargetSlot"
              /\ RequestStop({id \in Live : heap[id].slot = command.arg})
    /\ UNCHANGED <<mtVars, pc, cur, numSamples, midi, sounding, lost, stopped,
                   untracked>>

CommandsDrained ==
    /\ pc = "drain" /\ commandRing = <<>>
    /\ IF numSamples = 0 THEN pc' = "idle" /\ cur' = cur
                         ELSE pc' = "walk" /\ cur' = 1
    /\ UNCHANGED <<mtVars, commandRing, freedRing, heap, sequences, numSamples,
                   midi, sounding, history>>

\* Mutant: with freedRing full the entry is cleared all the same.
RetireLosing(p) ==
    /\ heap' = [heap EXCEPT ![sequences[cur]] = p]
    /\ sequences' = [sequences EXCEPT ![cur] = Null]
    /\ freedRing' = IF Len(freedRing) < FreeRingSize
                    THEN Append(freedRing, sequences[cur]) ELSE freedRing

\* retireSequence for entry cur, whose payload becomes p: with freedRing full
\* the payload stays in its entry and is retired again in the next block.
Retire(p) ==
    /\ heap' = [heap EXCEPT ![sequences[cur]] = p]
    /\ IF Len(freedRing) < FreeRingSize
       THEN /\ freedRing' = Append(freedRing, sequences[cur])
            /\ sequences' = [sequences EXCEPT ![cur] = Null]
       ELSE UNCHANGED <<freedRing, sequences>>

NoteMessage(p, k, on, pos) ==
    [pos |-> pos, src |-> cur, on |-> on, chan |-> p.chan, note |-> p.events[k].note]

AtLeastZero(n) == IF n < 0 THEN 0 ELSE n
AtMost(n, m)   == IF n > m THEN m ELSE n

\* Where the event loop stops: the first event at or past blockEnd.
WalkEnd(p, blockEnd) ==
    CHOOSE k \in p.next..(Len(p.events) + 1) :
        /\ \A j \in p.next..(k - 1) : p.events[j].start < blockEnd
        /\ k =< Len(p.events) => p.events[k].start >= blockEnd

\* Mutant: a stopped sequence is retired without the sweep.
StopEntryUnswept ==
    LET p == heap[sequences[cur]]
    IN  p.stop /\ Retire(p) /\ UNCHANGED <<midi, untracked>>

\* The stop branch: a notes-off sweep at offset 0.
StopEntry ==
    LET p == heap[sequences[cur]]
    IN  /\ p.stop
        /\ midi' = midi \cup {NoteMessage(p, k, FALSE, 0) : k \in p.notes}
        /\ Retire([p EXCEPT !.notes = {}])
        /\ UNCHANGED untracked

\* The events of p that start in this block ...
BlockEnd(p) == p.cursor + numSamples
Due(p)      == p.next..(WalkEnd(p, BlockEnd(p)) - 1)

\* ... of which the note table has room for the first few ...
Tracked(p) == {k \in Due(p) :
                  Cardinality(p.notes) + (k - p.next) < MaxActiveNotes}

\* ... and the tracked notes that end before the block does.
Expired(p) == {k \in p.notes \cup Tracked(p) : p.events[k].end < BlockEnd(p)}

Played(p) == [p EXCEPT !.cursor = AtMost(BlockEnd(p), Horizon),
                       !.next   = WalkEnd(p, BlockEnd(p)),
                       !.notes  = (p.notes \cup Tracked(p)) \ Expired(p)]

\* Mutants: the notes still held, and the last event, are forgotten.
FinishedHolding(p)  == p.next > Len(p.events)
FinishedOffByOne(p) == p.next = Len(p.events) /\ p.notes = {}

Finished(p) == p.next > Len(p.events) /\ p.notes = {}

\* The playing branch: note-ons, then note-offs, and the sequence is retired
\* when nothing is left of it.
PlayEntry ==
    LET p == heap[sequences[cur]]
    IN  /\ ~p.stop
        /\ midi' = midi
              \cup {NoteMessage(p, k, TRUE,
                       AtLeastZero(p.events[k].start - p.cursor)) : k \in Due(p)}
              \cup {NoteMessage(p, k, FALSE,
                       AtMost(AtLeastZero(p.events[k].end - p.cursor),
                              numSamples - 1)) : k \in Expired(p)}
        /\ untracked' = untracked
              \cup {<<p.chan, p.events[k].note>> : k \in Due(p) \ Tracked(p)}
        /\ IF Finished(Played(p))
           THEN Retire(Played(p))
           ELSE /\ heap' = [heap EXCEPT ![sequences[cur]] = Played(p)]
                /\ UNCHANGED <<freedRing, sequences>>

SkipEntry ==
    /\ sequences[cur] = Null
    /\ UNCHANGED <<heap, freedRing, sequences, midi, untracked>>

ProcessEntry ==
    /\ pc = "walk" /\ cur \in PoolIndices
    /\ \/ SkipEntry
       \/ sequences[cur] # Null /\ (StopEntry \/ PlayEntry)
    /\ cur' = cur + 1
    /\ UNCHANGED <<mtVars, commandRing, pc, numSamples, sounding, lost, stopped,
                   audioFreed, dropped>>

\* juce::MidiBuffer::addEvent keeps messages in order of position and, at one
\* position, in order of insertion: by pool entry, note-ons before note-offs.
Before(a, b) == \/ a.pos < b.pos
                \/ a.pos = b.pos /\ a.src < b.src
                \/ a.pos = b.pos /\ a.src = b.src /\ a.on /\ ~b.on

SameNote(a, b) == a.chan = b.chan /\ a.note = b.note

\* What the instruments hold after the messages ms.
AfterBlock(held, ms) ==
    LET Ons  == {m \in ms : m.on}
        Offs == {m \in ms : ~m.on}
    IN  {cn \in held : \A o \in Offs : cn # <<o.chan, o.note>>}
        \cup {<<m.chan, m.note>> : m \in
                {a \in Ons : \A o \in Offs : SameNote(a, o) => ~Before(a, o)}}

\* processBlock returns and the graph hands its MIDI to the instruments.
EndBlock ==
    /\ pc = "walk" /\ cur = PoolSize + 1
    /\ pc' = "idle"
    /\ sounding' = AfterBlock(sounding, midi)
    /\ midi' = {}
    /\ cur' = 1
    /\ UNCHANGED <<mtVars, commandRing, freedRing, heap, sequences, numSamples,
                   history>>

AudioThread ==
    \/ \E n \in BlockSizes : BeginBlock(n)
    \/ ApplyCommand
    \/ CommandsDrained
    \/ ProcessEntry
    \/ EndBlock

Next == MessageThread \/ AudioThread

Spec == Init /\ [][Next]_vars

\* The device calls back for ever, and again and again with a block that is
\* not empty; the 60 Hz timer fires for ever.
Fairness ==
    /\ WF_vars(AudioThread)
    /\ SF_vars(\E n \in BlockSizes \ {0} : BeginBlock(n))
    /\ WF_vars(DrainFinishedSequences)

FairSpec == Spec /\ Fairness

-----------------------------------------------------------------------------
(* Properties.                                                             *)

\* Every variable has its type: ids in use are ids that were handed out, a
\* payload's indices point into its own events, an empty block is not walked.
TypeOK ==
    /\ nextSlotId \in 1..(MaxSlots + 1)
    /\ slots \subseteq 1..(nextSlotId - 1)
    /\ nextSequenceId \in 1..(MaxSequences + 1)
    /\ commandRing \in Seq(Command) /\ Len(commandRing) =< CommandRingSize
    /\ freedRing \in Seq(SequenceIds) /\ Len(freedRing) =< FreeRingSize
    /\ Live \subseteq 1..(nextSequenceId - 1)
    /\ heap \in [Live -> ActiveSequence]
    /\ \A id \in Live : /\ heap[id].notes \subseteq 1..Len(heap[id].events)
                        /\ heap[id].next \in 1..(Len(heap[id].events) + 1)
    /\ sequences \in [PoolIndices -> SequenceIds \cup {Null}]
    /\ pc \in {"idle", "drain", "walk"}
    /\ cur \in 1..(PoolSize + 1)
    /\ pc = "walk" => numSamples > 0
    /\ numSamples \in BlockSizes \cup {0}
    /\ midi \subseteq MidiMessage
    /\ sounding \subseteq MidiChannels \X Notes
    /\ lost \subseteq Command
    /\ stopped \subseteq 1..(nextSequenceId - 1)
    /\ untracked \subseteq MidiChannels \X Notes
    /\ audioFreed \subseteq SequenceIds
    /\ dropped \subseteq SequenceIds

\* Every payload has exactly one owner -- a queued Add, a pool entry or an
\* entry of freedRing -- and every payload that is owned exists: none is
\* leaked, none is freed while it can still be played or freed again.
PayloadOwnership ==
    /\ Live = Queued \cup Pooled \cup Returned
    /\ Queued \cap Pooled = {}
    /\ Queued \cap Returned = {}
    /\ Pooled \cap Returned = {}
    /\ \A i, j \in Adds : commandRing[i].arg = commandRing[j].arg => i = j
    /\ \A i, j \in PoolIndices :
           sequences[i] = sequences[j] /\ sequences[i] # Null => i = j
    /\ \A i, j \in DOMAIN freedRing : freedRing[i] = freedRing[j] => i = j

\* The walk is never late: an event not yet started starts at or after the
\* cursor and a tracked note ends at or after it, so the clamps of the offsets
\* (jmax 0) never move a message.
OnTime ==
    \A id \in Pooled :
        LET p == heap[id]
        IN  /\ \A k \in p.next..Len(p.events) : p.events[k].start >= p.cursor
            /\ \A k \in p.notes : p.events[k].end >= p.cursor

\* Between blocks a note the instruments hold is in the note table of a pooled
\* sequence, which will end it, except the notes started with the table full.
NoStuckNotes ==
    pc = "idle" =>
        \A cn \in sounding \ untracked :
            \E id \in Pooled : \E k \in heap[id].notes :
                cn = <<heap[id].chan, heap[id].events[k].note>>

\* A sequence that is handed back to be freed holds no note, and it was
\* stopped, or has played all its events, or was never started.
RetiredSilent ==
    \A id \in Returned :
        LET p == heap[id]
        IN  /\ p.notes = {}
            /\ p.stop \/ p.next > Len(p.events) \/ id \in dropped

\* The command at position i of the ring acts on sequence id.
Cancels(i, id) ==
    \/ commandRing[i] = [kind |-> "CancelByTargetSlot", arg |-> heap[id].slot]
    \/ commandRing[i] = [kind |-> "Remove", arg |-> id]

\* A sequence that has to stop will: its flag is set, or a command that sets
\* it is on its way, behind the Add if that is queued too.
WillStop(id) ==
    \/ id \in Returned
    \/ id \in Pooled /\ (heap[id].stop \/ \E i \in DOMAIN commandRing : Cancels(i, id))
    \/ \E i, j \in DOMAIN commandRing :
           /\ commandRing[i] = [kind |-> "Add", arg |-> id]
           /\ i < j /\ Cancels(j, id)

\* Unloading a plugin reaches every sequence on its slot, played before or
\* while the unload is under way, unless the command was lost to a full ring.
CancelHonoured ==
    \A id \in Live :
        \/ heap[id].slot \in slots
        \/ [kind |-> "CancelByTargetSlot", arg |-> heap[id].slot] \in lost
        \/ WillStop(id)

\* So does stopSequence.
StopHonoured ==
    \A id \in Live \cap stopped :
        [kind |-> "Remove", arg |-> id] \in lost \/ WillStop(id)

\* Every payload is freed in the end: no finished or stopped sequence keeps
\* its pool entry for ever, however small the rings.
EverySequenceReclaimed ==
    \A id \in SequenceIds : (id \in Live) ~> (id \notin Live)

-----------------------------------------------------------------------------
(* The promise of SequenceLifecycle, kept by these rings and threads.      *)

Status(id) == IF id \in Queued        THEN "queued"
              ELSE IF id \in Pooled   THEN "playing"
              ELSE IF id \in Returned THEN "returned"
              ELSE IF id < nextSequenceId THEN "freed" ELSE "none"

Lifecycle == INSTANCE SequenceLifecycle
                 WITH status <- [id \in SequenceIds |-> Status(id)]

\* Each sequence is queued, started, handed back and freed once and in order,
\* whatever the threads interleave (SchedulerNode.h, real-time discipline).
LifecycleKept == Lifecycle!Spec

-----------------------------------------------------------------------------
(* What comments and documents say, and the code does not do.              *)

\* SchedulerNode.h:28 "with intra-block sample offsets matching the event
\* timing": between blocks, a note that has started and not ended sounds.
NotesHeldToEnd ==
    pc = "idle" =>
        \A id \in Pooled : \A k \in heap[id].notes :
            <<heap[id].chan, heap[id].events[k].note>> \in sounding

\* SchedulerNode.h:409 "Free ring also full -- leak the payload's heap until
\* the MT drain catches up": the audio thread frees nothing.
AudioThreadNeverFrees == audioFreed = {}

\* SchedulerNode.h:56 "any sequence whose target slot was just removed is
\* cancelled with a notes-off sweep".
CancelAlwaysHonoured ==
    \A id \in Live : heap[id].slot \in slots \/ WillStop(id)

=============================================================================
