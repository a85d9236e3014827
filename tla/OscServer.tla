------------------------------ MODULE OscServer ------------------------------
(***************************************************************************)
(* The OSC server: a worker thread that waits for datagrams, decodes each  *)
(* in a buffer it never clears, and queues what it means in the player's   *)
(* MIDI collector, from which the audio callback takes it.                 *)
(*                                                                         *)
(* A datagram is a sequence of bytes; an address is one byte long, since   *)
(* only its identity and where it ends matter.  The network may lose,      *)
(* repeat and reorder: any datagram may be the next to arrive.  App starts *)
(* and stops the worker.                                                   *)
(***************************************************************************)
EXTENDS Integers, Sequences, SequencesExt

CONSTANTS Datagrams,      \* what may arrive
          BufSize,        \* kRecvBufSize
          MaxDatagrams    \* bound: datagrams received

ASSUME OscAssumption ==
    /\ BufSize \in Nat \ {0} /\ MaxDatagrams \in Nat
    /\ \A d \in Datagrams : d \in Seq(0..255) /\ d # <<>>

\* Addresses and type tags, without the null that ends them.
Kinds == {"note_on", "note_off", "cc"}
Address == [note_on |-> <<97>>, note_off |-> <<98>>, cc |-> <<99>>]
Arity == [note_on |-> 4, note_off |-> 3, cc |-> 4]
TypeTags == [kind \in Kinds |-> <<44>> \o [i \in 1..Arity[kind] |-> 105]]

VARIABLES
    oscRunning, oscQuit,
    worker,                \* where the worker thread is
    recvBuf, size,         \* the buffer and the bytes read into it
    received,              \* history: the datagrams read
    collector,             \* the player's MIDI collector
    played, expired        \* history: what the graph got, what grew too old

oscServer == <<oscRunning, oscQuit>>
midi == <<collector, played, expired>>
oscVars == <<oscServer, worker, recvBuf, size, received, midi>>

OscInit ==
    /\ oscRunning = FALSE /\ oscQuit = FALSE
    /\ worker = "none"
    /\ recvBuf = [i \in 1..BufSize |-> 0] /\ size = 0
    /\ received = <<>>
    /\ collector = <<>> /\ played = <<>> /\ expired = {}

-----------------------------------------------------------------------------
\* Decoding.  A cursor counts bytes from 0; Malformed is the code's -1.

Malformed == -1
Padded(len) == ((len + 3) \div 4) * 4

Nulls(buf, n, cursor) == {e \in cursor..(n - 1) : buf[e + 1] = 0}
End(buf, n, cursor) ==
    LET nulls == Nulls(buf, n, cursor)
    IN  CHOOSE e \in nulls : \A f \in nulls : e <= f

\* The cursor after a string and its padding, which may lie past the end.
ReadOscString(buf, n, cursor) ==
    IF cursor = Malformed \/ Nulls(buf, n, cursor) = {}
    THEN Malformed
    ELSE cursor + Padded(End(buf, n, cursor) - cursor + 1)

Text(buf, n, cursor) == SubSeq(buf, cursor + 1, End(buf, n, cursor))

Signed(byte) == IF byte > 127 THEN byte - 256 ELSE byte
ReadOscInt32(buf, cursor) ==
    LET u(i) == buf[cursor + 1 + i]
    IN  256 * (256 * (256 * Signed(u(0)) + u(1)) + u(2)) + u(3)

\* Mutant: the arguments may run past what was read.
WholeArguments(n, cursor, kind) == cursor < n

HasArguments(n, cursor, kind) == cursor + 4 * Arity[kind] <= n

\* The events in the first n bytes of buf: none, or one.
DecodeMessage(buf, n) ==
    LET tags == ReadOscString(buf, n, 0)
        args == ReadOscString(buf, n, tags)
    IN  {[kind |-> kind, args |-> [i \in 1..Arity[kind] |-> ReadOscInt32(buf, args + 4 * (i - 1))]] :
            kind \in {k \in Kinds :
                        /\ args # Malformed
                        /\ Text(buf, n, 0) = Address[k]
                        /\ Text(buf, n, tags) = TypeTags[k]
                        /\ HasArguments(n, args, k)}}

\* Mutant: a negative value goes through as it is.
ClampAbove(low, high, x) == IF x > high THEN high ELSE x

\* What the sinks make of an event.  The first argument, a slot, is not used.
Clamp(low, high, x) == IF x < low THEN low ELSE IF x > high THEN high ELSE x
MidiMessage(event) ==
    [kind |-> event.kind,
     channel |-> Clamp(1, 16, event.args[2]),
     data |-> [i \in 1..(Len(event.args) - 2) |-> Clamp(0, 127, event.args[i + 2])]]

-----------------------------------------------------------------------------
\* The worker.

LoopTop ==
    /\ worker = "top"
    /\ worker' = IF oscQuit THEN "ended" ELSE "waiting"
    /\ UNCHANGED <<oscServer, recvBuf, size, received, midi>>

\* A wait of 100 ms that times out or finds nothing to read; one that fails, as
\* stop() makes it and an error of the socket can at any time, ends the worker.
WaitAgain ==
    /\ worker = "waiting"
    /\ worker' \in {"top", "ended"}
    /\ UNCHANGED <<oscServer, recvBuf, size, received, midi>>

\* What lies in the buffer behind the bytes read stays there.
Receive ==
    /\ worker = "waiting" /\ Len(received) < MaxDatagrams
    /\ \E d \in Datagrams :
        LET n == IF Len(d) > BufSize THEN BufSize ELSE Len(d)
        IN  /\ received' = Append(received, SubSeq(d, 1, n))
            /\ size' = n
            /\ recvBuf' = [i \in 1..BufSize |-> IF i <= n THEN d[i] ELSE recvBuf[i]]
    /\ worker' = "handling"
    /\ UNCHANGED <<oscServer, midi>>

\* The sinks run on the worker.  A message is queued with the number of the
\* datagram it came in.
HandlePacket ==
    /\ worker = "handling"
    /\ collector' = collector \o
        SetToSeq({[from |-> Len(received), message |-> MidiMessage(event)] :
                    event \in DecodeMessage(recvBuf, size)})
    /\ worker' = "top"
    /\ UNCHANGED <<oscServer, recvBuf, size, received, played, expired>>

Worker == LoopTop \/ WaitAgain \/ Receive \/ HandlePacket

\* The audio callback takes the whole queue; what a callback that stays away
\* leaves there for a second is dropped.
TakeMidi ==
    /\ collector # <<>>
    /\ played' = played \o collector
    /\ collector' = <<>>
    /\ UNCHANGED <<oscServer, worker, recvBuf, size, received, expired>>

ExpireMidi ==
    /\ collector # <<>>
    /\ expired' = expired \union {Head(collector).from}
    /\ collector' = Tail(collector)
    /\ UNCHANGED <<oscServer, worker, recvBuf, size, received, played>>

-----------------------------------------------------------------------------
\* start() and stop(), called by App.

OscStarts ==
    /\ oscRunning' = TRUE /\ oscQuit' = FALSE
    /\ worker' = "top"
    /\ UNCHANGED <<recvBuf, size, received, midi>>

OscStop ==
    /\ oscQuit' = (oscQuit \/ oscRunning)
    /\ UNCHANGED <<oscRunning, worker, recvBuf, size, received, midi>>

OscJoin ==
    /\ worker \in {"none", "ended"}
    /\ oscRunning' = FALSE
    /\ UNCHANGED <<oscQuit, worker, recvBuf, size, received, midi>>

-----------------------------------------------------------------------------
OscTypeOK ==
    /\ oscRunning \in BOOLEAN /\ oscQuit \in BOOLEAN
    /\ worker \in {"none", "top", "waiting", "handling", "ended"}
    /\ recvBuf \in [1..BufSize -> 0..255] /\ size \in 0..BufSize
    /\ Len(received) <= MaxDatagrams
    /\ \A i \in 1..Len(collector \o played) :
        LET m == (collector \o played)[i].message
        IN  /\ m.kind \in Kinds /\ m.channel \in 1..16
            /\ \A j \in DOMAIN m.data : m.data[j] \in 0..127

\* What a datagram means, by the layout OscServer.h gives: an address, the
\* tags of its kind and an int32 for each, strings padded with anything;
\* bytes after the last argument are ignored.
Spaced(text) == text \o [i \in 1..(Padded(Len(text) + 1) - Len(text)) |-> IF i = 1 THEN 0 ELSE 256]
Layout == [kind \in Kinds |-> Spaced(Address[kind]) \o Spaced(TypeTags[kind])]
Says(d, kind) ==
    /\ Len(d) >= Len(Layout[kind]) + 4 * Arity[kind]
    /\ \A i \in DOMAIN Layout[kind] : Layout[kind][i] \in {d[i], 256}
Meaning(d, kind) ==
    LET at == Len(Layout[kind])
        arg(i) == ReadOscInt32(d, at + 4 * (i - 1))
    IN  [kind |-> kind, channel |-> Clamp(1, 16, arg(2)),
         data |-> [i \in 1..(Arity[kind] - 2) |-> Clamp(0, 127, arg(i + 2))]]

\* The notes and controllers that reach the graph are what the datagrams
\* received say, in the order received, each once, and all of them but what a
\* stopped callback let expire: nothing of an earlier, longer datagram that is
\* still in the buffer is taken for a part of a later one.
MidiFollowsOsc ==
    LET midiSoFar == played \o collector
        queued == {midiSoFar[i].from : i \in DOMAIN midiSoFar}
        handled == IF worker = "handling" THEN Len(received) - 1 ELSE Len(received)
    IN  /\ \A i, j \in DOMAIN midiSoFar : i < j => midiSoFar[i].from < midiSoFar[j].from
        /\ \A i \in DOMAIN midiSoFar :
            LET m == midiSoFar[i]
            IN  /\ m.from \in 1..handled
                /\ Says(received[m.from], m.message.kind)
                /\ m.message = Meaning(received[m.from], m.message.kind)
        /\ \A n \in 1..handled :
            (\E kind \in Kinds : Says(received[n], kind)) => n \in queued \union expired

=============================================================================
