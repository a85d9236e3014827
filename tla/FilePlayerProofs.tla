-------------------------- MODULE FilePlayerProofs --------------------------
(***************************************************************************)
(* Proofs about FilePlayer, for every number of files, blocks and calls.   *)
(***************************************************************************)
EXTENDS FilePlayer, TLAPS

Transports == [playing : BOOLEAN, stopped : BOOLEAN, position : Positions, looping : BOOLEAN]

-----------------------------------------------------------------------------
(* The transport.                                                          *)

\* A position on the way through a file, round it or past its end is one.
LEMMA LoopedType ==
    ASSUME NEW position \in Nat, NEW looping \in BOOLEAN
    PROVE  Looped(position, looping) \in Positions
BY FileAssumption DEF Looped, Positions, PastEnd

LEMMA SoughtType ==
    ASSUME NEW t \in Transports, NEW position \in Int
    PROVE  /\ Sought(t, position) \in Transports
           /\ Sought(t, position).playing = t.playing
           /\ Sought(t, position).stopped = t.stopped
<1>1. AtZeroOrLater(position) \in Nat
  BY DEF AtZeroOrLater
<1>2. Looped(AtZeroOrLater(position), t.looping) \in Positions
  BY <1>1, LoopedType DEF Transports
<1>3. QED
  BY <1>2 DEF Sought, Transports

LEMMA StartedType ==
    ASSUME NEW t \in Transports, t.playing => ~t.stopped
    PROVE  /\ Started(t) \in Transports
           /\ Started(t).playing /\ ~Started(t).stopped
BY DEF Started, Transports

LEMMA OpenedType ==
    ASSUME NEW position \in Int, NEW loop \in BOOLEAN
    PROVE  /\ Opened(position, loop) \in Transports
           /\ Opened(position, loop).playing /\ ~Opened(position, loop).stopped
<1>1. /\ Attached(loop) \in Transports
      /\ Attached(loop).playing = FALSE
  BY FileAssumption DEF Attached, Transports, Positions
<1>2. /\ Sought(Attached(loop), position) \in Transports
      /\ Sought(Attached(loop), position).playing = FALSE
  BY <1>1, SoughtType
<1>3. QED
  BY <1>2, StartedType DEF Opened

\* A block takes a stopped transport nowhere; it leaves one that plays playing,
\* or at the end and stopped, and stops one that does not.
LEMMA AfterBlockType ==
    ASSUME NEW t \in Transports, NEW hit \in BOOLEAN
    PROVE  /\ AfterBlock(t, hit) \in Transports
           /\ t.stopped => AfterBlock(t, hit) = t
           /\ t.playing /\ ~t.stopped /\ AfterBlock(t, hit).position # PastEnd =>
                AfterBlock(t, hit).playing /\ ~AfterBlock(t, hit).stopped
           /\ ~t.stopped /\ (~t.playing \/ AfterBlock(t, hit).position = PastEnd) =>
                ~AfterBlock(t, hit).playing /\ AfterBlock(t, hit).stopped
<1>1. t.position + 1 \in Nat /\ t.position \in Positions
  BY FileAssumption DEF Transports, Positions
<1>2. Looped(t.position + 1, t.looping) \in Positions
  BY <1>1, LoopedType DEF Transports
<1>3. QED
  BY <1>1, <1>2 DEF AfterBlock, Transports

-----------------------------------------------------------------------------
(* The inductive invariant.                                                *)

\* While the device runs, who is told to play does, and callbacks take its
\* blocks; who is not does not, and if a callback has still to see that, none
\* has come since.
Playback ==
    \A a \in AudioIds :
        /\ late[a] <= 1
        /\ a \in due => (running => transport[a].playing) /\ ~transport[a].stopped
        /\ a \notin due => /\ ~transport[a].playing
                           /\ ~transport[a].stopped => late[a] = 0

\* Outside a rewiring every player in the book is connected, once channel 0
\* has a chain; and only the one being registered is not in the book yet.
Wiring ==
    /\ op.name = "idle" => op = Idle
    /\ op.name = "register" => nodes = filePlayers \union {op.id}
    /\ op.name # "register" => nodes = filePlayers
    /\ op.name \in {"disconnect", "connect"} => chain
    /\ op.name \notin {"disconnect", "connect"} /\ chain => wired = filePlayers /\ summed

IInv == TypeOK /\ Playback /\ Wiring

LEMMA InitIInv == Init => IInv
<1> SUFFICES ASSUME Init PROVE IInv
  OBVIOUS
<1>1. TypeOK
  <2>1. NewTransport \in Transports
    BY FileAssumption DEF NewTransport, Attached, Transports, Positions
  <2>2. transport \in [AudioIds -> Transports]
    BY <2>1 DEF Init
  <2>3. op \in [name : {"idle", "register", "disconnect", "connect", "pause"}, id : AudioIds \union {0}]
    BY DEF Init, Idle
  <2>4. late \in [AudioIds -> Nat] /\ due = {} /\ {chain, summed, running} \subseteq BOOLEAN
    BY DEF Init
  <2>5. nextAudioId \in 1..(MaxPlayers + 1) /\ calls \in 0..MaxCalls
    BY FileAssumption DEF Init
  <2>6. QED
    BY <2>2, <2>3, <2>4, <2>5 DEF Init, TypeOK, Transports
<1>2. Playback
  BY DEF Init, Playback, NewTransport, Attached
<1>3. Wiring
  BY DEF Init, Wiring, Idle
<1>4. QED
  BY <1>1, <1>2, <1>3 DEF IInv

LEMMA BlockIInv ==
    ASSUME IInv, NEW hits \in SUBSET nodes, AudioBlock(hits)
    PROVE  IInv'
<1> USE DEF IInv
<1>1. /\ transport \in [AudioIds -> Transports]
      /\ due \subseteq AudioIds /\ nodes \subseteq AudioIds
      /\ late \in [AudioIds -> Nat]
  BY FileAssumption DEF TypeOK, Transports, AudioIds
<1>2. ASSUME NEW a \in AudioIds
      PROVE  /\ transport'[a] \in Transports
             /\ transport[a].stopped => transport'[a] = transport[a]
             /\ a \in nodes /\ transport[a].playing /\ ~transport[a].stopped
                  /\ transport'[a].position # PastEnd =>
                    transport'[a].playing /\ ~transport'[a].stopped
             /\ a \in nodes /\ ~transport[a].stopped
                  /\ (~transport[a].playing \/ transport'[a].position = PastEnd) =>
                    ~transport'[a].playing /\ transport'[a].stopped
             /\ a \notin nodes => transport'[a] = transport[a]
  <2>1. transport[a] \in Transports /\ (a \in hits) \in BOOLEAN
    BY <1>1
  <2>2. transport'[a] = IF a \in nodes THEN AfterBlock(transport[a], a \in hits) ELSE transport[a]
    BY DEF AudioBlock
  <2>3. CASE a \in nodes
    <3> DEFINE t == transport[a]
               u == AfterBlock(t, a \in hits)
    <3>1. transport'[a] = u
      BY <2>2, <2>3
    <3>2. /\ u \in Transports /\ (t.stopped => u = t)
          /\ t.playing /\ ~t.stopped /\ u.position # PastEnd => u.playing /\ ~u.stopped
          /\ ~t.stopped /\ (~t.playing \/ u.position = PastEnd) => ~u.playing /\ u.stopped
      BY <2>1, AfterBlockType
    <3> HIDE DEF u
    <3>3. QED
      BY <2>3, <3>1, <3>2
  <2>4. CASE a \notin nodes
    BY <2>1, <2>2, <2>4
  <2>5. QED
    BY <2>3, <2>4
<1>3. transport' \in [AudioIds -> Transports]
  BY <1>2 DEF AudioBlock
<1>4. late' \in [AudioIds -> Nat]
  BY <1>1 DEF AudioBlock
<1>5. TypeOK'
  BY <1>3, <1>4 DEF AudioBlock, TypeOK, graph, Transports
<1>6. Playback'
  <2> SUFFICES ASSUME NEW a \in AudioIds
               PROVE  /\ late'[a] <= 1
                      /\ a \in due' => transport'[a].playing /\ ~transport'[a].stopped
                      /\ a \notin due' => /\ ~transport'[a].playing
                                          /\ ~transport'[a].stopped => late'[a] = 0
    BY DEF Playback
  <2>1. /\ late'[a] = IF a \notin due /\ transport'[a].position # transport[a].position
                     THEN late[a] + 1 ELSE late[a]
        /\ a \in due' <=> a \in due /\ (a \in nodes => transport'[a].position # PastEnd)
        /\ running
    BY DEF AudioBlock
  <2>2. late[a] \in Nat /\ (a \in due => a \in nodes)
    BY <1>1 DEF TypeOK
  <2>3. CASE a \in due
    BY <2>1, <2>2, <2>3, <1>2 DEF Playback
  <2>4. CASE a \notin due
    <3>1. /\ ~transport[a].playing
          /\ ~transport[a].stopped => late[a] = 0
          /\ late[a] <= 1
      BY <2>4 DEF Playback
    <3>2. CASE transport'[a] = transport[a]
      BY <2>1, <2>2, <2>4, <3>1, <3>2
    <3>3. CASE transport'[a] # transport[a]
      <4>1. a \in nodes /\ ~transport[a].stopped
        BY <1>2, <3>3
      <4>2. ~transport'[a].playing /\ transport'[a].stopped
        BY <1>2, <3>1, <4>1
      <4>3. QED
        BY <2>1, <2>2, <2>4, <3>1, <4>1, <4>2
    <3>4. QED
      BY <3>2, <3>3
  <2>5. QED
    BY <2>3, <2>4
<1>7. Wiring'
  BY DEF AudioBlock, Wiring, graph
<1>8. QED
  BY <1>5, <1>6, <1>7

\* The steps of an op that is under way change no transport.
LEMMA OpStepIInv ==
    ASSUME IInv, OpSteps
    PROVE  IInv'
<1> USE DEF IInv
<1>1. UNCHANGED <<nextAudioId, chain, nodes, transport, running, calls, history>>
  BY DEF OpSteps, Disconnect, Connect, Register, EndPause, graph
<1>2. Playback'
  BY <1>1 DEF Playback, history
<1>3. CASE \E a \in AudioIds : Register(a)
  <2>1. PICK a \in AudioIds : Register(a)
    BY <1>3
  <2>2. /\ op = [name |-> "register", id |-> a]
        /\ filePlayers' = filePlayers \union {a} /\ nodes = filePlayers'
        /\ UNCHANGED <<wired, summed>>
    BY <2>1 DEF Register, In, Wiring
  <2>3. op' = IF chain THEN [name |-> "disconnect", id |-> 0] ELSE Idle
    BY <2>1 DEF Register, RewireChannelZero, Enter
  <2>4. TypeOK'
    BY <1>1, <2>2, <2>3 DEF TypeOK, history, Idle
  <2>5. Wiring'
    BY <1>1, <2>2, <2>3 DEF Wiring, Idle
  <2>6. QED
    BY <1>2, <2>4, <2>5
<1>4. CASE Disconnect
  <2>1. /\ op = [name |-> "disconnect", id |-> 0]
        /\ wired' \subseteq wired /\ summed' \in BOOLEAN /\ UNCHANGED filePlayers
        /\ op' = op \/ op' = [name |-> "connect", id |-> 0]
    BY <1>4 DEF Disconnect, In, Enter, TypeOK
  <2>2. TypeOK'
    BY <1>1, <2>1 DEF TypeOK, history
  <2>3. Wiring'
    BY <1>1, <2>1 DEF Wiring, Idle
  <2>4. QED
    BY <1>2, <2>2, <2>3
<1>5. CASE Connect
  <2>1. /\ op = [name |-> "connect", id |-> 0]
        /\ UNCHANGED filePlayers
        /\ wired' \subseteq filePlayers /\ summed' \in BOOLEAN
        /\ \/ op' = op
           \/ op' = Idle /\ wired' = filePlayers /\ summed'
    BY <1>5 DEF Connect, Unwired, In, TypeOK
  <2>2. TypeOK'
    BY <1>1, <2>1 DEF TypeOK, history, Idle
  <2>3. Wiring'
    BY <1>1, <2>1 DEF Wiring, Idle
  <2>4. QED
    BY <1>2, <2>2, <2>3
<1>6. CASE \E a \in AudioIds : EndPause(a)
  <2>1. /\ op.name = "pause" /\ op' = Idle
        /\ UNCHANGED <<filePlayers, wired, summed>>
    BY <1>6 DEF EndPause, In, graph
  <2>2. TypeOK'
    BY <1>1, <2>1 DEF TypeOK, history, Idle
  <2>3. Wiring'
    BY <1>1, <2>1 DEF Wiring, Idle
  <2>4. QED
    BY <1>2, <2>2, <2>3
<1>7. QED
  BY <1>3, <1>4, <1>5, <1>6 DEF OpSteps

LEMMA PlayIInv ==
    ASSUME IInv, NEW position \in Seeks, NEW loop \in BOOLEAN, PlayAudioFile(position, loop)
    PROVE  IInv'
<1> USE DEF IInv
<1> DEFINE a == nextAudioId
<1>1. /\ a \in AudioIds /\ a \notin nodes /\ op = Idle /\ position \in Int
      /\ transport \in [AudioIds -> Transports] /\ late \in [AudioIds -> Nat]
      /\ nodes \subseteq 1..(a - 1)
  BY FileAssumption DEF PlayAudioFile, Call, TypeOK, AudioIds, Seeks, PastEnd, Transports
<1>2. /\ Opened(position, loop) \in Transports
      /\ Opened(position, loop).playing /\ ~Opened(position, loop).stopped
  BY <1>1, OpenedType
<1>3. /\ transport' = [transport EXCEPT ![a] = Opened(position, loop)]
      /\ nextAudioId' = a + 1
      /\ nodes' = nodes \union {a} /\ due' = due \union {a}
      /\ op' = [name |-> "register", id |-> a]
      /\ calls' \in 0..MaxCalls
      /\ UNCHANGED <<chain, filePlayers, wired, summed, running, late>>
  BY FileAssumption DEF PlayAudioFile, Call, Enter, TypeOK
<1>4. TypeOK'
  <2>1. transport' \in [AudioIds -> Transports]
    BY <1>1, <1>2, <1>3
  <2>2. nextAudioId' \in 1..(MaxPlayers + 1) /\ nodes' \subseteq 1..(nextAudioId' - 1)
    BY <1>1, <1>3, FileAssumption DEF AudioIds
  <2>3. QED
    BY <1>1, <1>3, <2>1, <2>2 DEF TypeOK, Transports
<1>5. Playback'
  BY <1>1, <1>2, <1>3 DEF Playback
<1>6. Wiring'
  BY <1>1, <1>3 DEF Wiring, Idle
<1>7. QED
  BY <1>4, <1>5, <1>6

\* The ops on a player that is in the book.
LEMMA PlayerOpIInv ==
    ASSUME IInv, NEW a \in AudioIds,
           \/ StopAudio(a) \/ PauseAudio(a) \/ ResumeAudio(a)
           \/ \E position \in Seeks : SeekAudio(a, position)
    PROVE  IInv'
<1> USE DEF IInv
<1>1. /\ op = Idle /\ a \in filePlayers /\ nodes = filePlayers
      /\ chain => wired = filePlayers /\ summed
      /\ transport \in [AudioIds -> Transports] /\ late \in [AudioIds -> Nat]
      /\ transport[a] \in Transports
      /\ calls' \in 0..MaxCalls
  BY FileAssumption DEF StopAudio, PauseAudio, ResumeAudio, SeekAudio, Call, Wiring, Idle, TypeOK, Transports
<1>2. CASE StopAudio(a)
  <2>1. /\ transport' = [transport EXCEPT ![a] = NewTransport]
        /\ late' = [late EXCEPT ![a] = 0] /\ due' = due \ {a}
        /\ filePlayers' = filePlayers \ {a} /\ nodes' = nodes \ {a} /\ wired' = wired \ {a}
        /\ op' = IF chain THEN [name |-> "disconnect", id |-> 0] ELSE Idle
        /\ UNCHANGED <<nextAudioId, chain, summed, running>>
    BY <1>2 DEF StopAudio, RewireChannelZero, Enter
  <2>2. /\ NewTransport \in Transports
        /\ ~NewTransport.playing /\ NewTransport.stopped
    BY FileAssumption DEF NewTransport, Attached, Transports, Positions
  <2>3. transport' \in [AudioIds -> Transports] /\ late' \in [AudioIds -> Nat]
    BY <1>1, <2>1, <2>2
  <2>4. TypeOK'
    BY <1>1, <2>1, <2>3 DEF TypeOK, Transports, Idle
  <2>5. Playback'
    BY <1>1, <2>1, <2>2 DEF Playback
  <2>6. Wiring'
    BY <1>1, <2>1 DEF Wiring, Idle
  <2>7. QED
    BY <2>4, <2>5, <2>6
<1>3. CASE PauseAudio(a)
  <2>1. /\ transport' = [transport EXCEPT ![a] = Silenced(transport[a])]
        /\ late' = IF a \in due THEN [late EXCEPT ![a] = 0] ELSE late
        /\ due' = due \ {a}
        /\ op' = Idle \/ op' = [name |-> "pause", id |-> a]
        /\ UNCHANGED <<nextAudioId, chain, filePlayers, nodes, wired, summed, running>>
    BY <1>3 DEF PauseAudio, Enter, graph
  <2>2. /\ Silenced(transport[a]) \in Transports
        /\ ~Silenced(transport[a]).playing
        /\ Silenced(transport[a]).stopped = transport[a].stopped
    BY <1>1 DEF Silenced, Transports
  <2>3. transport' \in [AudioIds -> Transports] /\ late' \in [AudioIds -> Nat]
    BY <1>1, <2>1, <2>2
  <2>4. TypeOK'
    BY <1>1, <2>1, <2>3 DEF TypeOK, Transports, Idle
  <2>5. Playback'
    BY <1>1, <2>1, <2>2 DEF Playback
  <2>6. Wiring'
    BY <1>1, <2>1 DEF Wiring, Idle
  <2>7. QED
    BY <2>4, <2>5, <2>6
<1>4. CASE ResumeAudio(a)
  <2>1. /\ transport' = [transport EXCEPT ![a] = Started(transport[a])]
        /\ due' = due \union {a}
        /\ UNCHANGED <<nextAudioId, graph, op, running, late>>
    BY <1>4 DEF ResumeAudio
  <2>2. /\ Started(transport[a]) \in Transports
        /\ Started(transport[a]).playing /\ ~Started(transport[a]).stopped
    <3>1. transport[a].playing => ~transport[a].stopped
      BY DEF Playback
    <3>2. QED
      BY <1>1, <3>1, StartedType
  <2>3. transport' \in [AudioIds -> Transports]
    BY <1>1, <2>1, <2>2
  <2>4. TypeOK'
    BY <1>1, <2>1, <2>3 DEF TypeOK, Transports, graph
  <2>5. Playback'
    BY <1>1, <2>1, <2>2 DEF Playback
  <2>6. Wiring'
    BY <1>1, <2>1 DEF Wiring, graph
  <2>7. QED
    BY <2>4, <2>5, <2>6
<1>5. ASSUME NEW position \in Seeks, SeekAudio(a, position)
      PROVE  IInv'
  <2>1. /\ transport' = [transport EXCEPT ![a] = Sought(transport[a], position)]
        /\ UNCHANGED <<nextAudioId, graph, op, running, history>>
    BY <1>5 DEF SeekAudio
  <2>2. position \in Int
    BY FileAssumption DEF Seeks, PastEnd
  <2>3. /\ Sought(transport[a], position) \in Transports
        /\ Sought(transport[a], position).playing = transport[a].playing
        /\ Sought(transport[a], position).stopped = transport[a].stopped
    BY <1>1, <2>2, SoughtType
  <2>4. transport' \in [AudioIds -> Transports]
    BY <1>1, <2>1, <2>3
  <2>5. TypeOK'
    BY <1>1, <2>1, <2>4 DEF TypeOK, Transports, graph, history
  <2>6. Playback'
    BY <1>1, <2>1, <2>3 DEF Playback, history
  <2>7. Wiring'
    BY <1>1, <2>1 DEF Wiring, graph
  <2>8. QED
    BY <2>5, <2>6, <2>7
<1>6. QED
  BY <1>2, <1>3, <1>4, <1>5

LEMMA DeviceIInv ==
    ASSUME IInv, DeviceStops
    PROVE  IInv'
<1> USE DEF IInv
<1>1. PICK silenced \in SUBSET nodes :
        transport' = [a \in AudioIds |->
                         IF a \in silenced THEN Silenced(transport[a]) ELSE transport[a]]
  BY DEF DeviceStops
<1>2. /\ running' = FALSE
      /\ UNCHANGED <<nextAudioId, chain, filePlayers, nodes, wired, summed, op, calls, due, late>>
  BY DEF DeviceStops, graph, history
<1>3. ASSUME NEW a \in AudioIds
      PROVE  /\ transport'[a] \in Transports
             /\ transport'[a].playing => transport[a].playing
             /\ transport'[a].stopped = transport[a].stopped
  <2>1. transport[a] \in Transports
    BY DEF TypeOK, Transports
  <2>2. transport'[a] = Silenced(transport[a]) \/ transport'[a] = transport[a]
    BY <1>1
  <2>3. QED
    BY <2>1, <2>2 DEF Silenced, Transports
<1>4. transport' \in [AudioIds -> Transports]
  BY <1>1, <1>3
<1>5. TypeOK'
  BY <1>2, <1>4 DEF TypeOK, Transports
<1>6. Playback'
  BY <1>2, <1>3 DEF Playback
<1>7. Wiring'
  BY <1>2 DEF Wiring, Idle
<1>8. QED
  BY <1>5, <1>6, <1>7

LEMMA NextIInv ==
    ASSUME IInv, [Next]_vars
    PROVE  IInv'
<1>1. CASE Ops
  <2>1. ASSUME ChangeChannelZero PROVE IInv'
    <3>1. /\ op = Idle /\ calls' \in 0..MaxCalls
          /\ chain' = TRUE /\ op' = [name |-> "disconnect", id |-> 0]
          /\ UNCHANGED <<nextAudioId, filePlayers, nodes, wired, summed, transport, running, history>>
      BY <2>1, FileAssumption DEF ChangeChannelZero, Call, RewireChannelZero, Enter, IInv, TypeOK
    <3>2. TypeOK'
      BY <3>1 DEF IInv, TypeOK, history
    <3>3. Playback' /\ Wiring'
      BY <3>1 DEF IInv, Playback, Wiring, Idle, history
    <3>4. QED
      BY <3>2, <3>3 DEF IInv
  <2>2. QED
    BY <1>1, <2>1, PlayIInv, PlayerOpIInv DEF Ops
<1>2. CASE OpSteps
  BY <1>2, OpStepIInv
<1>3. CASE \E hits \in SUBSET nodes : AudioBlock(hits)
  BY <1>3, BlockIInv
<1>4. CASE DeviceStops
  BY <1>4, DeviceIInv
<1>5. CASE UNCHANGED vars
  <2>1. /\ UNCHANGED <<nextAudioId, graph, transport, op, calls, history>>
        /\ running' = running
    BY <1>5 DEF vars
  <2>2. TypeOK'
    BY <2>1 DEF IInv, TypeOK, graph, history
  <2>3. Playback' /\ Wiring'
    BY <2>1 DEF IInv, Playback, Wiring, graph, history
  <2>4. QED
    BY <2>2, <2>3 DEF IInv
<1>6. QED
  BY <1>1, <1>2, <1>3, <1>4, <1>5 DEF Next

-----------------------------------------------------------------------------
(* The theorems.                                                           *)

THEOREM Invariance == Spec => []IInv
<1>1. QED
  BY InitIInv, NextIInv, PTL DEF Spec

\* Every variable keeps its type, however many files are played and however
\* long they are: no op and no block takes a position before its file.
THEOREM FilesTypeCorrect == Spec => []TypeOK
<1>1. IInv => TypeOK
  BY DEF IInv
<1>2. QED
  BY <1>1, Invariance, PTL

\* pauseAudio: at most one block is taken of a file until it is resumed,
\* whether or not the wait for the callback was given up.
THEOREM PauseHolds == Spec => []PausedStaysPut
<1>1. IInv => PausedStaysPut
  BY DEF IInv, Playback, PausedStaysPut
<1>2. QED
  BY <1>1, Invariance, PTL

\* rewireChannel(0): a block of a file goes nowhere only inside an op, once
\* channel 0 has a chain.
THEOREM BlocksHeard == Spec => HeardBetweenOps
<1>1. IInv => (op = Idle /\ chain => nodes = wired /\ summed)
  BY DEF IInv, Wiring, Idle
<1>2. IInv /\ [Next]_vars =>
        [\A a \in nodes :
            transport'[a].position # transport[a].position =>
                (a \in wired /\ summed) \/ op # Idle \/ ~chain]_vars
  BY <1>1
<1>3. QED
  BY <1>2, Invariance, PTL DEF Spec, HeardBetweenOps

=============================================================================
