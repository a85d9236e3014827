----------------------------- MODULE FilePlayer -----------------------------
(***************************************************************************)
(* Audio files that play while the graph around them is rewired: the ops   *)
(* of DawGraph on file players (message thread), the transport each        *)
(* FilePlayerNode wraps, and the audio callback, which runs every node of  *)
(* the graph, connected or not, a block at a time.                         *)
(*                                                                         *)
(* Every change to a connection of the graph takes effect at once, so the  *)
(* callback may run between any two steps of rewireChannel(0).  Positions  *)
(* count blocks, and those past the end of a file are not told apart.      *)
(***************************************************************************)
EXTENDS Integers

CONSTANTS
    MaxPlayers,   \* bound: audio ids handed out
    Length,       \* blocks in a file
    MaxCalls      \* bound: ops called

ASSUME FileAssumption == MaxPlayers \in Nat /\ Length \in Nat \ {0} /\ MaxCalls \in Nat

AudioIds  == 1..MaxPlayers
Positions == 0..(Length + 1)
PastEnd   == Length + 1
\* What clients ask for: before the file, in it, and past its end.
Seeks     == {-1, Length - 1, PastEnd}

VARIABLES
    nextAudioId,
    chain,          \* channel 0 has a chain
    filePlayers,    \* audio ids in the book
    nodes,          \* file players in the graph
    wired,          \* file players connected to the sum
    summed,         \* the sum is connected, through the effects, to the output
    transport,      \* audio id -> [playing, stopped, position, looping]
    op,             \* what the message thread is in: [name, id]
    running,        \* the device calls back
    calls,          \* ops called so far
    due, late       \* history: told to play and not at the end yet; blocks
                    \* taken since it was last told to pause

graph == <<chain, filePlayers, nodes, wired, summed>>
history == <<due, late>>
vars == <<nextAudioId, graph, transport, op, running, calls, history>>

\* Attaching a reader stops the transport, and one without does not start.
Attached(loop) == [playing |-> FALSE, stopped |-> TRUE, position |-> 0, looping |-> loop]
NewTransport == Attached(FALSE)
Idle == [name |-> "idle", id |-> 0]
In(name, a) == op = [name |-> name, id |-> a]
Enter(name, a) == op' = [name |-> name, id |-> a]

Init ==
    /\ nextAudioId = 1
    /\ chain = FALSE /\ summed = FALSE
    /\ filePlayers = {} /\ nodes = {} /\ wired = {}
    /\ transport = [a \in AudioIds |-> NewTransport]
    /\ op = Idle /\ running = TRUE /\ calls = 0
    /\ due = {} /\ late = [a \in AudioIds |-> 0]

-----------------------------------------------------------------------------
\* The transport, one step of FilePlayerNode at a time.

Looped(position, looping) ==
    IF looping THEN position % Length ELSE IF position > PastEnd THEN PastEnd ELSE position

AtZeroOrLater(position) == IF position < 0 THEN 0 ELSE position

\* Mutant: a seek goes where it is told.
SoughtAnywhere(t, position) == [t EXCEPT !.position = Looped(position, t.looping)]

Sought(t, position) == [t EXCEPT !.position = Looped(AtZeroOrLater(position), t.looping)]

Started(t) == IF t.playing THEN t ELSE [t EXCEPT !.playing = TRUE, !.stopped = FALSE]

\* Mutant: started before it has a reader.
OpenedStopped(position, loop) == Sought(Attached(loop), position)

\* A file at its start position, playing.
Opened(position, loop) == Started(Sought(Attached(loop), position))

\* Mutant: the file goes on, and only its volume goes.
SilencedOnly(t) == t

Silenced(t) == [t EXCEPT !.playing = FALSE]

\* One block: silence when stopped, else the next block of the file, if the
\* reader thread has it.  The block that comes after the last ends the stream.
AfterBlock(t, hit) ==
    IF t.stopped THEN t
    ELSE LET position == IF hit THEN Looped(t.position + 1, t.looping) ELSE t.position
             playing == t.playing /\ position # PastEnd
         IN  [t EXCEPT !.position = position, !.playing = playing, !.stopped = ~playing]

\* The reader thread may be late with any of the files.
AudioBlock(hits) ==
    /\ running
    /\ transport' = [a \in AudioIds |->
                        IF a \in nodes THEN AfterBlock(transport[a], a \in hits) ELSE transport[a]]
    /\ due' = {a \in due : a \in nodes => transport'[a].position # PastEnd}
    /\ late' = [a \in AudioIds |->
                    IF a \notin due /\ transport'[a].position # transport[a].position
                    THEN late[a] + 1 ELSE late[a]]
    /\ UNCHANGED <<nextAudioId, graph, op, running, calls>>

\* The graph and every node release what they prepared.  Whether a transport
\* that is released goes on to say that it plays is up to the library.
DeviceStops ==
    /\ running /\ running' = FALSE
    /\ \E silenced \in SUBSET nodes :
           transport' = [a \in AudioIds |->
                            IF a \in silenced THEN Silenced(transport[a]) ELSE transport[a]]
    /\ UNCHANGED <<nextAudioId, graph, op, calls, history>>

-----------------------------------------------------------------------------
\* The ops.

Call ==
    /\ op = Idle
    /\ calls < MaxCalls
    /\ calls' = calls + 1

\* The node is in the graph and plays before it is in the book and wired.
PlayAudioFile(position, loop) ==
    LET a == nextAudioId
    IN  /\ Call /\ a <= MaxPlayers
        /\ nextAudioId' = a + 1
        /\ nodes' = nodes \union {a}
        /\ transport' = [transport EXCEPT ![a] = Opened(position, loop)]
        /\ due' = due \union {a}
        /\ Enter("register", a)
        /\ UNCHANGED <<chain, filePlayers, wired, summed, running, late>>

\* rewireChannel(0) follows, unless channel 0 has no chain.
RewireChannelZero(hasChain) ==
    IF hasChain THEN Enter("disconnect", 0) ELSE op' = Idle

Register(a) ==
    /\ In("register", a)
    /\ filePlayers' = filePlayers \union {a}
    /\ RewireChannelZero(chain)
    /\ UNCHANGED <<nextAudioId, chain, nodes, wired, summed, transport, running, calls, history>>

\* Removing a node drops its connections; the transport goes with it.
StopAudio(a) ==
    /\ Call /\ a \in filePlayers
    /\ filePlayers' = filePlayers \ {a}
    /\ nodes' = nodes \ {a} /\ wired' = wired \ {a}
    /\ transport' = [transport EXCEPT ![a] = NewTransport]
    /\ due' = due \ {a} /\ late' = [late EXCEPT ![a] = 0]
    /\ RewireChannelZero(chain)
    /\ UNCHANGED <<nextAudioId, chain, summed, running>>

\* Any other op that rewires channel 0; it may give it its chain.
ChangeChannelZero ==
    /\ Call
    /\ chain' = TRUE
    /\ RewireChannelZero(chain')
    /\ UNCHANGED <<nextAudioId, filePlayers, nodes, wired, summed, transport, running, history>>

Disconnect ==
    /\ In("disconnect", 0)
    /\ \/ \E a \in wired : wired' = wired \ {a} /\ UNCHANGED <<summed, op>>
       \/ summed /\ summed' = FALSE /\ UNCHANGED <<wired, op>>
       \/ wired = {} /\ ~summed /\ Enter("connect", 0) /\ UNCHANGED <<wired, summed>>
    /\ UNCHANGED <<nextAudioId, chain, filePlayers, nodes, transport, running, calls, history>>

\* Mutant: the newest player only.
NewestUnwired == {a \in filePlayers \ wired : a = nextAudioId - 1}

Unwired == filePlayers \ wired

\* In any order (filePlayers is an unordered map), and the sum last.
Connect ==
    /\ In("connect", 0)
    /\ \/ \E a \in Unwired : wired' = wired \union {a} /\ UNCHANGED <<summed, op>>
       \/ Unwired = {} /\ summed' = TRUE /\ op' = Idle /\ UNCHANGED wired
    /\ UNCHANGED <<nextAudioId, chain, filePlayers, nodes, transport, running, calls, history>>

\* A pause waits for the callback to see it; one of a file that does not play
\* has nothing to wait for.
PauseAudio(a) ==
    /\ Call /\ a \in filePlayers
    /\ transport' = [transport EXCEPT ![a] = Silenced(transport[a])]
    /\ due' = due \ {a}
    /\ late' = IF a \in due THEN [late EXCEPT ![a] = 0] ELSE late
    /\ IF transport[a].playing THEN Enter("pause", a) ELSE op' = Idle
    /\ UNCHANGED <<nextAudioId, graph, running>>

\* The callback has seen it, or 500 naps of 2 ms are over.
EndPause(a) ==
    /\ In("pause", a)
    /\ op' = Idle
    /\ UNCHANGED <<nextAudioId, graph, transport, running, calls, history>>

ResumeAudio(a) ==
    /\ Call /\ a \in filePlayers
    /\ transport' = [transport EXCEPT ![a] = Started(transport[a])]
    /\ due' = due \union {a}
    /\ UNCHANGED <<nextAudioId, graph, op, running, late>>

SeekAudio(a, position) ==
    /\ Call /\ a \in filePlayers
    /\ transport' = [transport EXCEPT ![a] = Sought(transport[a], position)]
    /\ UNCHANGED <<nextAudioId, graph, op, running, history>>

-----------------------------------------------------------------------------
Ops ==
    \/ \E position \in Seeks, loop \in BOOLEAN : PlayAudioFile(position, loop)
    \/ \E a \in AudioIds : \/ StopAudio(a) \/ PauseAudio(a) \/ ResumeAudio(a)
                           \/ \E position \in Seeks : SeekAudio(a, position)
    \/ ChangeChannelZero

OpSteps == Disconnect \/ Connect \/ \E a \in AudioIds : Register(a) \/ EndPause(a)

Next == Ops \/ OpSteps \/ (\E hits \in SUBSET nodes : AudioBlock(hits)) \/ DeviceStops

Spec == Init /\ [][Next]_vars

\* The message thread goes on with the op it is in; while the device runs it
\* calls back, and the reader thread comes round to every file.
Fairness ==
    /\ WF_vars(OpSteps)
    /\ \A a \in AudioIds : WF_vars(\E hits \in SUBSET nodes : a \in hits /\ AudioBlock(hits))

FairSpec == Spec /\ Fairness

-----------------------------------------------------------------------------
\* The type of every variable; a position is never before the file.
TypeOK ==
    /\ nextAudioId \in 1..(MaxPlayers + 1)
    /\ {chain, summed, running} \subseteq BOOLEAN
    /\ filePlayers \subseteq nodes /\ nodes \subseteq 1..(nextAudioId - 1) /\ wired \subseteq filePlayers
    /\ transport \in [AudioIds -> [playing : BOOLEAN, stopped : BOOLEAN,
                                   position : Positions, looping : BOOLEAN]]
    /\ op \in [name : {"idle", "register", "disconnect", "connect", "pause"}, id : AudioIds \union {0}]
    /\ calls \in 0..MaxCalls
    /\ due \subseteq nodes /\ late \in [AudioIds -> Nat]

\* Once channel 0 has a chain, the callback takes blocks of a file that nobody
\* hears only while the message thread is inside an op that plays, stops or
\* rewires: between ops every block taken goes to the output.
HeardBetweenOps ==
    [][\A a \in nodes :
        transport'[a].position # transport[a].position =>
            (a \in wired /\ summed) \/ op # Idle \/ ~chain]_vars

\* After a pause has been asked for, at most one more block is taken until the
\* file is resumed, so that it "can pick up where it left off"
\* (FilePlayerNode.h), also when the wait for the callback timed out, and
\* whatever was sought, paused again or rewired meanwhile.
PausedStaysPut == \A a \in AudioIds : late[a] <= 1

\* Every op comes to an end, also a pause on a device that has stopped; and a
\* file that was started or resumed and does not loop plays to its end, unless
\* it is paused or stopped or the device stops.
PlaybackEnds ==
    /\ op # Idle ~> op = Idle
    /\ \A a \in AudioIds :
        a \in due /\ ~transport[a].looping ~> a \notin due \/ ~running

=============================================================================
