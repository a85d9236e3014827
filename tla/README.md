# PhobosHost: models, checks and proofs

PhobosHost is a headless audio host. One process loads VST3 plugins into a JUCE
processor graph, takes notes over OSC (UDP) and commands as framed JSON over a
local TCP socket, plays MIDI sequences sample-accurately and mixes audio files
into the first channel. This directory holds TLA+ modules that follow its
source, configurations that check them with TLC, and TLAPS proofs. Source paths
below are under `src/Source/`.

## The system

Threads: the **message thread** (JUCE's dispatch loop: every control op, the
60 Hz timer, every window), the **audio thread** (the device callback, which
runs `processBlock` of every node), the **acceptor** and one **connection
thread** per client of the control server, the **OSC worker**, and the
**reader thread** that prefetches audio files.

| Component | State | Operations | Talks to |
|---|---|---|---|
| `SchedulerNode` | pool of active sequences, per-sequence cursor and note table, two rings | add, remove, cancel by slot, `processBlock`, drain | message thread and audio thread through `SpscRing`; its MIDI reaches every channel filter |
| `SpscRing<T>` | slots, two wrapping indices | push, pop | one producer and one consumer thread |
| `DawGraph` | slots, channel chains, file players, graph nodes and connections | load, unload, reorder, activate, play/stop file, rewire | JUCE graph; slot-removed callback to the windows and the scheduler |
| `WindowManager` | a window per slot | show, hide, remove, close all | editors of the processors in the graph |
| `MidiChannelFilter` | channel | filter a block | set by `DawGraph`, run by the audio thread |
| `FilePlayerNode`, `AudioSumNode` | transport, position, loop flag, gain | start, stop, seek, `processBlock` | message, audio and reader threads |
| `Logger` | ring of lines, forwarder | push, pop, drain | pushed by every thread, drained by the timer, forwarded to the client |
| `ControlServer` | active connection, lock, op table, read buffer | start, stop, accept, read, dispatch, write, send event | clients; calls the message thread and waits |
| `OscServer` | socket, worker, receive buffer | start, stop, receive, decode | MIDI collector of the player, which the audio thread empties |
| `PluginScanner` | none between calls | scan a directory or file | JUCE format manager |
| `App` | all of the above, in an order | init, shutdown, destruction, ops | starts, stops and destroys the rest |

What makes each correct, and what is hard:

* **SchedulerNode.** A payload on the heap is owned by exactly one place while
  two threads hand it round; nothing is freed under the audio thread; every
  sequence ends and leaves the pool; a cancelled or stopped sequence goes silent
  and a cancel is never overtaken by the add it concerns; every note started is
  ended, on time. Hard: both rings and the pool have limits that can be hit
  together, the slot may vanish while an add is in the ring, ticks are truncated
  to samples.
* **SpscRing.** It is a FIFO under every interleaving of atomic operations, late
  loads and index wrap, and the two threads never touch one slot at once.
* **DawGraph and windows.** Three books (slots, chains, graph) agree after any
  sequence of ops; the audio of each channel passes its effects in order, once;
  MIDI reaches its own instrument; a removed slot is announced. Hard: each op
  repairs the connections of one channel only, replacement and cascades, a
  channel that has no chain yet.
* **Logger.** A line arrives whole. Hard: the ring is written for one producer
  and has several, and the drain calls out to the client.
* **ControlServer.** Responses and events are not interleaved on the wire, one
  connection is active, stop returns. Hard: superseded connections are still
  alive, the message thread waits for a lock that a writer holds, detached
  threads outlive the server.
* **OscServer.** What the graph gets is what the datagrams say. Hard: the receive
  buffer is never cleared, the cursor may run past what was read, the worker is
  joined while it waits.
* **FilePlayerNode.** A file told to play is heard to its end, a paused one keeps
  its place. Hard: the callback runs between the steps of a rewiring, a pause
  waits for it and gives up, a stream may end at any moment.
* **App.** Nothing calls a component that has been destroyed, also when the
  start fails half way.

## Modules

| Module | What it is |
|---|---|
| `SchedulerNode` | the scheduler, both threads, the ops that feed it and the instruments that hear it |
| `SequenceLifecycle` | what the scheduler promises about each sequence id (abstract) |
| `SpscRing` | the ring, one atomic operation or slot access a step |
| `BoundedFifo` | what the ring promises (abstract) |
| `DawGraph` | slots, chains, graph, windows and the routing of MIDI |
| `ControlServer` | acceptor, connection threads, message thread, clients |
| `Logger` | the log ring, its producers and the drain |
| `FilePlayer` | the transports of audio files, the ops on them and the audio callback |
| `OscServer` | the OSC worker, its decoder and the MIDI collector |
| `App` | the life of the host, composed with `OscServer` |
| `MCSchedulerNode`, `MCDawGraph`, `MCApp` | instances for TLC |
| `SchedulerNodeProofs`, `SchedulerSafetyProofs` | theorems about `SchedulerNode`: types and ownership; what rests on them |
| `SpscRingProofs`, `LoggerProofs`, `FilePlayerProofs`, `ControlServerProofs`, `DawGraphProofs`, `AppProofs` | theorems about the module of that name; `AppProofs` also about `OscServer` |

**SchedulerNode.** `commandRing`, `freedRing`, `sequences` are the members of
that name; `heap` maps a sequence id to the `ActiveSequence` object it names and
holds exactly the objects that exist, so a `unique_ptr` is an id and freeing is
leaving the domain. An entry's `activeNotes` table is the set `notes` of indices
of the events it tracks. Of the message thread each op is one action
(`LoadPlugin`, `UnloadPlugin`, `PlayMidiSequence`, `StopSequence`,
`DrainFinishedSequences`): the audio thread sees of it only its push, or its pops,
which the ring makes atomic. `processBlock` is cut where the other thread can be
seen: one step per command popped (`ApplyCommand`), one per pool entry
(`ProcessEntry`), one at the return (`EndBlock`), when the MIDI of the block
reaches the instruments. JUCE's `MidiBuffer` keeps messages by position and, at
one position, by insertion; `AfterBlock` says what instruments hold then. A
velocity is not modelled. The float tick conversion is the exact quotient, truncated,
of constants; `lost`, `stopped`, `untracked`, `audioFreed`, `dropped` record
history that properties speak of and no action reads.

**SpscRing.** The load of the other side's index returns any value stored since
the last one seen, which is what acquire allows; a thread's own index is exact.
`IndexMod` stands for 2^32 and is a multiple of the capacity. `SchedulerNode` uses
the rings as sequences because `IsFifo` holds here (theorem `RingIsFifo`).

**DawGraph.** `slots`, `channels`, `filePlayers` are the maps of that name,
`nodes` and `cables` the JUCE graph, which drops the connections of a node it
removes. `Rewired` is `rewireChannel`: drop what touches the channel's nodes, add
the canonical wiring. The two stereo connections between a pair of nodes are one
cable. Each op of `Main.cpp` with the `DawGraph` method it calls is one action,
since all run whole on the message thread; failures before the first change
(plugin not found, file not found) leave no trace and are left out, and
`UnknownSlot`, `UnknownAudio` are the refusals the model needs to be able to go
on when its ids are used up.

**ControlServer.** `acceptor`, `thread` and `mt` say where each thread is; a
connection has one socket, so one name stands for socket, thread and client.
`lock` is `connMutex`, with a step for taking it wherever it is held over a write;
a section that does no I/O is one step. A frame is two writes, header and body,
on a socket that blocks its writer when the client has left `WireCapacity` chunks
unread. What a frame asks for is chosen when it is complete in `scratch`, the
buffer the connection threads share, and parsed from there later.
`callFunctionOnMessageThread` (external) waits until its function has run, and
returns at once when the dispatch loop has been told to quit. `mt` goes through
`App::init` from `controlServer.start()`, the loop with its ops and its log
events, and `stop()`.

**Logger.** One step is a load or store of an index or one field of a slot, level
and line apart. Loads are in program order, as on x86-64; `pop` loads `writeIdx`
relaxed, so a machine with weaker loads could show a slot older than its index.
Several threads push, as in the code; `overlapped` remembers whether two calls of
`push` have ever run at once, which the header's one producer excludes and the code
does not, and the properties speak of what happens until they do. `RunAway` bounds
how far a drain that has gone wrong is followed. A push that finds the ring full
loses its own line, as `Logger.h:28` says and does; see finding 4.

**FilePlayer.** `transport` maps an audio id to what JUCE's `AudioTransportSource`
(external) keeps: `playing`, `stopped` (what the last block saw) and the position,
in blocks. `AudioBlock` runs every node of the graph, connected or not, since the
graph renders each; a file the reader thread is late with (outside `hits`) gives
silence and does not move on. `wired` and `summed` are the connections of channel
0 a file's sound needs: player to sum, sum through effects to output. Each change
of a connection takes effect when it is made, so `rewireChannel(0)` is one step per
connection (`Disconnect`, `Connect`) and `playAudioFile` two steps before it: the
node starts, then enters the book. `PauseAudio` waits for the callback as
`AudioTransportSource::stop` does, for 500 naps of 2 ms, and only if the file was
playing; `EndPause` is either end of the wait. A device that stops has every node
release its transport (`FilePlayerNode.h:158`); whether a released transport goes
on to say that it plays is the library's affair, so `DeviceStops` may silence any of
them. Gain and the status queries change
nothing a property tells apart and are left out. `due` and `late` are history.

**OscServer.** Datagrams are sequences of bytes; `recvBuf` keeps what an earlier
one left. Cursors are the code's, from 0, with -1 for malformed; an address is one
byte long, which keeps its place and its padding and drops its spelling.
`DecodeMessage` gives the set of events of a packet, none or one. The wait of 100
ms, the read that finds nothing and the socket error that ends the worker are
`WaitAgain`; the network is any choice from `Datagrams`. The collector (external) is a queue the audio callback takes whole,
and from which what is a second old is dropped; a message carries the number of
its datagram, for `MidiFollowsOsc`.

**App.** `stage` is the message thread in `App::init`, the loop, `App::shutdown` and
the destruction of `App`, where `Members` is the order of declaration and `alive`
counts what still stands. Each step of `init` that can fail goes to `destroy`, with
the one clean-up the code has (`controlServer.stop()` when the OSC port is taken).
Of the loop it has what the end depends on: windows, file players, the reader
thread, the quit. `stop()` of a destructor is a no-op after that of `shutdown`. Of the
control server it has what `controlServer.stop()` waits for: `connMutex`, which
connection threads take to register, to write and to leave, and the acceptor, which
may be in its wait, behind the lock or ended. So the stop is three steps, each of
which may have to wait (`StopControl`, `CloseConnection`, `JoinAcceptor`). The whole
of both kinds of thread is in `ControlServer`.

## Runs

| Run | Question | Bounds, and why they are enough |
|---|---|---|
| `SchedulerCancel` | `CancelHonoured`, `StopHonoured`, `RetiredSilent`, `LifecycleKept` | 2 slots, 2 sequences, pool of 2: a cancel meets its sequence in the ring, in the pool, returned, and beside one it must spare |
| `SchedulerTiming` | `OnTime`, `NoStuckNotes` | blocks of 0, 1, 2 and 5 samples; scores with chords larger than the note table, repeated pitches and truncated ticks; two sequences on one channel; three scores the op refuses |
| `SchedulerLive` | `TypeOK`, `PayloadOwnership`, `EverySequenceReclaimed` | 3 sequences, every size 1: pool, free ring and command ring are each full in some state, also all at once, and retiring is refused until the timer drains |
| `SpscRing` | `TypeOK`, `NoRace`, `IsFifo`, `SlotsDrained` | capacity 4, indices modulo 8, two values: the ring is full and empty at every place of the wrap |
| `DawGraph` | `TypeOK`, `ChainsMatchSlots`, `GraphMatchesBooks`, `AudioPath`, `MidiReachesItsChannel`, `SlotsAccountedFor`, `EffectsKeepOrder` | host channels 0, 15 and 16, the last two on one MIDI channel, 3 slots (an instrument with two effects, three effects, instruments and effects on two and three channels), 1 file player, indices before the list, in it, at its end and past it |
| `ControlServer` | `TypeOK`, `WholeFrames`, `ActiveIsAlive`, `OnlyOwnEndClears`, `CallsReturn`, `StopReturns`, `ClosedEnds` | 2 clients with a frame each, one event, room for one frame on the wire: superseding meets its predecessor at every place of its loop, and a reply and an event meet at one socket, also with no room |
| `Logger` | `TypeOK`, `LinesArriveWhole`, `IndicesInOrder`, `LinesDelivered` | 2 threads with 2 pushes each on a ring of 2, ticks of 2 lines: full, empty and wrapped at every step of the other side, with either thread, and two pushes at once from any state |
| `FilePlayer` | `TypeOK`, `PausedStaysPut`, `HeardBetweenOps`, `PlaybackEnds` | 2 files of 2 blocks, 6 ops: start, pause, resume, seek before and past the end and stop of one file while another plays, a rewiring at each place of a block, a reader that is late, a device that stops at any time |
| `App` | `TypeOK`, `MidiFollowsOsc`, `ServicesEndFirst`, `AudioStopsFirst`, `HostEnds` | every step of the start failing, quit from any state of the loop; the acceptor and a lock that is taken twice more at every place of `stop()`; 2 datagrams of those in `MCApp` (each kind whole, with values beyond MIDI, cut in a string, its padding and an argument, of an unknown address, with other tags) and one longer than the buffer |
| `ControlSupersede` | `SingleConnection` is violated | finding 1 |
| `LoggerReplay` | `PopsOnlyPushedLines` is violated | finding 2, two pushes at once |
| `AppReaderThread` | `PlayersDetachFirst` is violated | finding 3 |

The safety runs have no fairness. `FairSpec` of `SchedulerNode` assumes that the
audio thread goes on (the device calls back, `processBlock` has no wait), that a
block that is not empty comes again and again, and that the timer drains
(60 Hz, on a message thread that returns from each op). `FairSpec` of `SpscRing`
assumes that a call once begun ends, that the consumer calls `pop` again and again
(each block, each tick) and that a store is seen in the end. `FairSpec` of
`Logger` assumes the timer. `FairSpec` of `ControlServer` assumes that each thread
of the host runs while it can, and that a client that stays connected reads what
it is sent: without that a blocked write keeps `connMutex`, and the message thread
and `stop()` wait for ever. Clients need not connect, ask or leave. Requests and
events are bounded, so weak fairness is enough for the lock; with unbounded
traffic it would have to be handed out fairly. `ControlServer` ends when it has
stopped, so its runs do not check for deadlock; the liveness properties do.
`FairSpec` of `FilePlayer` assumes that the message thread goes on with the op it is
in, that the device calls back while it runs, and that the reader thread comes
round to every file again and again (a `TimeSliceThread` serves its clients in
turn); a device that stops ends the obligation on files, never that on ops.
`FairSpec` of `App` assumes that the message thread, the acceptor and the OSC worker
run while they can and, as that of `ControlServer`, that clients read or leave, so
that a connection thread lets the lock go; once told to stop, connection threads
take it `MaxSections` times at most (each registers, writes one answer and leaves),
so weak fairness hands it on. No client and no datagram need come, the audio
callback need not run and the client need not quit. `App` and `FilePlayer` end (exited; ops used up and device stopped),
so they do not check for deadlock either.

## Findings

1. A client accepted before the thread of the one before it has registered does
   not supersede it (`ControlServer.cpp:107, 123`). Both are served, from one read
   buffer, and the last to register, not the newest, gets the events.
2. Several threads push into a log ring made for one producer (`Logger.h:35`;
   connection threads log at `ControlServer.cpp:126, 158`, so a superseding client
   is enough). A delayed store sets `writeIdx` back, `readIdx` passes it, and as
   `pop` tests `r == w` the drain replays old slots, and forwards them, from then
   on.
3. The reader thread's object dies before the file players that detach from it
   (`DawGraph.h:227, 247`: members go in reverse order, and `graph` is the first).
   A host that is told to quit while a file plays calls into a destroyed thread
   object; `~DawGraph` (`DawGraph.cpp:19`) only stops the thread.
4. `Logger.h:11` says "Drop-oldest on full"; a push that finds the ring full drops its
   own line, the newest (`Logger.h:28`, whose comment says so). `Logger` passes with
   rings that fill: what is drained is a prefix of what was stored, which a ring that
   discards its oldest line could not satisfy. The comment's side is `NewestIsKept`,
   which TLC finds violated when `Logger.cfg` is given it as its INVARIANT.

Seen in the models and not given a run of their own (a name in parentheses is a
definition that states it):

* A note that begins where the same note ends is cut off, as all note-ons of a block
  are inserted before its note-offs (`NotesHeldToEnd`, `SchedulerNode.h:264-283`;
  `LegatoScores` shows it).
* The slot-removed callback ignores a refused cancel, and the sequence goes on
  (`CancelAlwaysHonoured`, `Main.cpp:81`). `CancelHonoured` shows that this is the
  only way.
* A file played before channel 0 has a chain is connected to nothing
  (`FilePlayersAudible`, `DawGraph.cpp:167`).
* `playAudioFile` starts a file before it wires it, so its first blocks may be
  played to nobody, where `DawGraph.h:135` has "wire ..., and start playback".
* `pauseAudio` after a pause that timed out does not wait at all: `playing` is off
  already.
* A start that fails after `addAudioCallback` destroys the graph and the player
  under the callback (`Main.cpp:85, 118-119`); `AudioStopsFirst` shows that a host
  which came up does not.
* A client that stays connected and does not read blocks the writer under
  `connMutex`, and with it `stop()` and the end of the host
  (`ControlServer.cpp:86, 147, 184`). `StopReturns`, `CallsReturn`, `ClosedEnds` and
  `HostEnds` hold only because `Fairness` has clients read or leave.
* With pool and free ring full, `placeSequence` destroys the payload on the
  audio thread, which its comment says it does not (`AudioThreadNeverFrees`,
  `SchedulerNode.h:406-412`).
* `loadPhobosSynth` replaces a synth its comment says it refuses to
  (`SynthNeverReplaced`, `Main.cpp:251-260`).
* Host channels above 15 share MIDI channel 16 with channel 15 (`ExclusiveMidi`,
  `MidiChannelFilter.h:29`); `MidiReachesItsChannel` says which instruments hear it.
* A sequence that finds the pool full is acknowledged and then dropped without a
  word (`dropped`, `SchedulerNode.h:402`), which the comment at line 117 calls "not a
  silent drop"; notes started with the note table full are never ended
  (`untracked`).

## Proofs

Each safety invariant and each action property of the passing runs is stated by a
theorem for every value of the constants, and so is each refinement. The proofs have
one shape: an inductive invariant `IInv`, one lemma per action that it is kept, and
a lemma from it to each property. Unless said otherwise the only hypotheses are the
assumptions on constants that the component's module declares.

`SchedulerNodeProofs` proves for all values of the constants that satisfy
`SizesAssumption` and `ScoresAssumption` (sizes are positive, accepted scores
compile to samples below `Horizon`):

* `TypeCorrect == Spec => []TypeOK`
* `OwnershipHolds == Spec => []PayloadOwnership`

Neither is inductive alone: that a retired id is not queued as well follows from
ownership, that a payload read by the walk exists needs ownership, and that its
indices stay in range needs the type of `heap`. The inductive invariant is their
conjunction `IInv`. There is one lemma per action (`PushKeeps`, `PlayKeeps`,
`RetireKeeps`, ...), with lemmas on appending to and taking from the rings
(`AppendCommand`, `TailCommand`, `AppendReturned`), on the `CHOOSE` of the first free
entry (`Least`, `FirstFreeType`) and on the event walk (`WalkEndProperties`,
`PlayedType`).

`SchedulerSafetyProofs` goes on from that `IInv`, under the same assumptions:

* `StopReaches == Spec => []StopHonoured` and `CancelReaches == Spec => []CancelHonoured`.
  Given `IInv` each is inductive: `WillStop` looks at the ring in order, so the
  lemmas say what a push and a pop do to "an `Add` with its cancel behind it".
* `LifecycleRefined == Spec => LifecycleKept`: the scheduler implements
  `SequenceLifecycle`. The abstract module hands out ids in order and starts the
  oldest that is queued; `QueueInOrder` (the adds in the ring are in the order of
  their ids) is what makes the pop of an add that step.
* `NeverLate == Spec => []OnTime`. `PayloadsTimely` strengthens it with what the
  compiled score gives: events in order of their start, no end before its start, and
  nothing yet to be started or ended before the cursor.
* `RetiredIsSilent == Spec => []RetiredSilent`, with `QueuedFresh`: a payload still in
  the ring holds no note, so one dropped before it started holds none either.
* `NoNoteIsStuck == Spec => []NoStuckNotes`. Within a block the instruments have
  heard nothing of it yet, so the invariant `NotesEnd` is about what they will hold if
  the block ends now: `BlockSoFar` says its messages come from the entries walked so far,
  `OnsEnd` gives each note-on among them its note-off or its place in a note table, and `SoundingEnds`
  the same for each note that was sounding before.

`SpscRingProofs` proves, for every capacity and every modulus of the indices that is
a multiple of it, at least twice it (`RingAssumption`):

* `RingTypeCorrect == Spec => []TypeOK`
* `RaceFree == Spec => []NoRace`
* `RingIsFifo == Spec => IsFifo`, that is, the ring implements `BoundedFifo`

`Wrapped`, `MinusIs` and `PlusIs` turn the remainders into sums, after which the
steps are linear arithmetic; `SlotsDiffer` is the one place where the capacity has to
divide the modulus. The inductive invariant is `TypeOK` and `Order`: round the circle
come `pushR`, `readIdx`, `popW`, `writeIdx`, with distances that add up to at most the
capacity, less than it once a push is past its check. From it a push and a pop in
progress are at different slots (`Apart`). The queue of the refinement changes in two
steps: `PublishPuts` shows that the push's store of `writeIdx` is a put, which needs
`Held` (the slot holds the pushed value by then), and `ReadTakes` that the pop's move
out of the slot is a take. So `SchedulerNode` may use its rings as sequences at any
size, not only at that of the run.

`LoggerProofs` proves, for every size of ring, of batch and of the bound on pushes
(`LoggerAssumption`), and for any number of producing threads:

* `LoggerTypeCorrect == Spec => []TypeOK`
* `IndicesStayInOrder == Spec => []IndicesInOrder`
* `LinesStayWhole == Spec => []LinesArriveWhole`

The last two properties say what holds until two pushes run at once, and what is
proved is `Spec => [](overlapped \/ IInv)`: who the one producer is changes from push
to push, and the invariant has to be about whichever is past its check. It adds to
the types that at most one producer is inside `push`, that it holds the index to be
written, with room, and a drain past its test one to read (`Indices`), and what each
slot in use holds (`Contents`). A write disturbs no slot in use because two indices
less than a ring apart are at different slots (`SlotsDiffer`). Once two pushes have
run at once both conclusions are false (finding 2); the types hold throughout.

`FilePlayerProofs` proves, for any number of files of any length
(`FileAssumption`):

* `FilesTypeCorrect == Spec => []TypeOK`
* `PauseHolds == Spec => []PausedStaysPut`
* `BlocksHeard == Spec => HeardBetweenOps`

The invariant `IInv` adds two parts to the types. `Playback`: a file that is not
playing and not stopped has had no block since it was paused, so the one block that
may follow a pause is the block that stops it. `Wiring`: between ops every file in
the book is wired and the sum is connected once there is a chain, and a file in the
graph but not in the book is the one being registered. `AfterBlockType` says what
a block does to a transport; the rest is one lemma per action.

`ControlServerProofs` proves, for any number of connections, frames and events and
any room on the wire (`ControlAssumption`: a finite set of connections, none of
which is the message thread; room for a frame, as in the runs):

* `ControlTypeCorrect == Spec => []TypeOK`
* `FramesStayWhole == Spec => []WholeFrames`
* `ActiveStaysAlive == Spec => []ActiveIsAlive`
* `LateEndsLeaveSuccessor == Spec => OnlyOwnEndClears`

The invariant says who may be where. `WritersHoldLock`: a thread between the two
writes of a frame, and the message thread in its own, holds `connMutex`, so there is
one writer at a time. `HalvesOwned`: a header without its body is the last thing on
a wire, and the writer is still at work on it. The two give `WholeFrames`: a frame
cut short by a closed socket stays the last. `WiresFit` is the room that a writer
waits for. `Arrivals` (what is in the backlog has no thread yet, and is there once),
`Inboxes` (a thread that has read a header finds its body) and `CallsWait` (a call
in the queue of the message thread has its connection thread waiting for it, so
there is one for each) are needed for the types. `QueueBounded`, from `CallsWait`,
bounds the queue by counting the threads that wait, which takes the finite set.
`ActiveIsAlive` is inductive with these.

`DawGraphProofs` proves, for any channels and any number of plugins, file players
and indices (`GraphAssumption`):

* `GraphTypeCorrect == Spec => []TypeOK`
* `BooksAgree == Spec => []ChainsMatchSlots`
* `GraphFollowsBooks == Spec => []GraphMatchesBooks`
* `AudioStaysWired == Spec => []AudioPath`
* `RemovalsAnnounced == Spec => []SlotsAccountedFor`
* `EffectsStayInOrder == Spec => EffectsKeepOrder`
* `MidiStaysApart == Spec => []MidiReachesItsChannel`

The last is for every host channel the ops accept, which is every one from 0 on: the
property counts in the clamp of `MidiChannelFilter`, by which all of those from 15 on
hear MIDI channel 16.

`AudioPath` says where sound gets to, which no op preserves by itself: an op rewires
one channel, and a path might leave it through another. The invariant is local and
exact: `CablesAreWiring`, the connections are the canonical wiring of each channel
and of each file and no other (`AllWiring`), with `NodesAccountedFor`,
`InstrumentsFiltered` (an instrument has the filter of its channel) and
`ChainsMatchSlots`, by which the channels share no node. Then dropping what touches
the nodes of a channel drops its own wiring and nothing else, and `rewireChannel`
restores the equation. What is reachable along canonical wiring is a lemma about
chains, not about steps. The ops that change a chain (load in a place, replace,
unload, move) are instances of one relation, `Rechained`, about which the lemmas are
proved once; `Torn` is the same for the removal of a channel and `FilesRewired` for
the files. `EffectsStayInOrder` rests on lemmas about inserting into and removing
from a sequence without repetition, and on three that say where the op leaves the
effect it names (`InsertedLands`, `LoadFxLands`, `ReorderFxLands`).

`AppProofs` proves, whatever step of the start fails, for every buffer and every set
of datagrams (`OscAssumption` and `AppAssumption` only: bytes, no datagram empty, a bound
that is a number):

* `OrderlyEnd == Spec => []ServicesEndFirst`
* `AudioEndsFirst == Spec => []AudioStopsFirst`
* `AppTypeCorrect == Spec => []TypeOK`
* `OscIsFollowed == Spec => []MidiFollowsOsc`

For the first two the invariant `Life` says which services run at each `stage`, the
acceptor up to the join in `controlServer.stop()`, and that members are destroyed only in stage `destroy`, by when `shutdown`, or the
failed start, has ended the services of each. For the others `OscInv` adds the
types, among them that whatever was decoded is MIDI whatever the bytes were, and
three parts: `InHand`, that what the worker handles is the last datagram and that
the buffer agrees with it up to `size`; that the messages so far are in order, each
once, and each what its datagram says (`InOrder`, `Faithful`); that none is missing
but what expired (`Complete`). The buffer is never cleared, so the decoder must not
look past `size`: `ReadsPattern` and `PatternReads` show that it accepts exactly the
datagrams that have address, tags and arguments at the bytes where `Pattern` puts
them, all of them below `size`, and that it then reads the arguments from there.

Only model-checked, because liveness under fairness needs `ENABLED`, which is out of
the prover's reach: `EverySequenceReclaimed`, `SlotsDrained`, `CallsReturn`,
`StopReturns`, `ClosedEnds`, `LinesDelivered`, `HostEnds`, `PlaybackEnds`. The
properties of the three runs that expect a violation are false, and no theorem's.

## Not modelled, and the plan

In order:

1. Abstract specifications of `Logger` (until pushes overlap, a bounded queue that drops the
   newest when full, as `BoundedFifo` is for the ring) and of `OscServer` (a queue of meanings),
   with proofs that the modules implement them.
2. A composition of `DawGraph` and `SchedulerNode` through the slot-removed callback.
   Now `SchedulerNode` has slots of its own, which `UnloadPlugin` takes away as the
   callback does.
3. `ControlServer` with connection threads, detached, that outlive it.

Left out for good: `PluginScanner` (file-system walk and JUCE probing, no state
between calls), plugin state blobs (opaque to the host), gain and status queries of
files, JSON and text formatting, the platform console set-up in `main`.
