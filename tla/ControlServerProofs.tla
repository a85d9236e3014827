------------------------- MODULE ControlServerProofs -------------------------
(***************************************************************************)
(* The safety of the control server, for any number of connections, any    *)
(* number of frames and events, and sockets of any size.                   *)
(***************************************************************************)
EXTENDS ControlServer, SequenceTheorems, FiniteSetTheorems, TLAPS

-----------------------------------------------------------------------------
\* The inductive invariant.

\* The types, but for the lengths of the queue and of what is unread.
Types ==
    /\ listening \in BOOLEAN /\ quit \in BOOLEAN /\ running \in BOOLEAN
    /\ acceptor \in {"none", "waiting", "superseding", "spawning", "ended"}
    /\ accepted \in Connections \union {None}
    /\ thread \in [Connections -> Places]
    /\ closed \subseteq Connections
    /\ activeConn \in Connections \union {None}
    /\ lock \in Connections \union {None, MessageThread}
    /\ scratch \in Requests
    /\ queue \in Seq(Calls \union {Quit}) /\ quitPosted \in BOOLEAN
    /\ mt \in MainPlaces /\ events \in 0..MaxEvents
    /\ client \in [Connections -> {"away", "connected", "gone"}]
    /\ sent \in [Connections -> 0..MaxRequests]
    /\ backlog \in Seq(Connections)
    /\ inbox \in [Connections -> 0..MaxRequests]
    /\ wire \in [Connections -> Seq(Chunks)]

\* A frame is in the inbox once for each time it was sent at most, and a
\* thread that has read a header finds the body.
Inboxes ==
    \A c \in Connections :
        /\ inbox[c] <= sent[c]
        /\ thread[c] = "filling" => inbox[c] > 0

\* A connection that has no thread yet is in one place: with its client, in
\* the backlog once, or in the acceptor's hands.
Arrivals ==
    /\ \A c \in Connections : client[c] = "away" =>
           /\ thread[c] = "none" /\ accepted # c
           /\ \A i \in 1..Len(backlog) : backlog[i] # c
    /\ \A i \in 1..Len(backlog) :
           /\ thread[backlog[i]] = "none" /\ accepted # backlog[i]
           /\ \A j \in 1..Len(backlog) : backlog[i] = backlog[j] => i = j
    /\ acceptor \in {"superseding", "spawning"} => accepted # None
    /\ accepted # None => thread[accepted] = "none"

\* Each call in the queue is of a thread of its own, which waits for it.
CallsWait ==
    \A i \in 1..Len(queue) : queue[i] # Quit =>
        /\ thread[queue[i].conn] = "calling"
        /\ \A j \in 1..Len(queue) :
               queue[j] # Quit /\ queue[i].conn = queue[j].conn => i = j

Waiting == {c \in Connections : thread[c] = "calling"}
QueueBounded == Len(queue) <= Cardinality(Waiting) + IF quitPosted THEN 1 ELSE 0

\* connMutex is held by who is writing a frame and by nobody else; events are
\* written to a connection.
WritersHoldLock ==
    /\ \A c \in Connections : lock = c <=> thread[c] \in {"header", "body"}
    /\ lock = MessageThread <=> mt \in {"eventHeader", "eventBody"}
    /\ mt \in {"eventHeader", "eventBody"} => activeConn # None

\* A frame is half written on an open socket only by who is at its body, whose
\* kind its header has.
AtReplyBody(c) == thread[c] = "body"
AtEventBody(c) == activeConn = c /\ mt = "eventBody"
Odd(w) == Len(w) % 2 = 1
EndsWith(w, chunk) == w # <<>> /\ w[Len(w)] = chunk
HalvesOwned ==
    \A c \in Connections : ~WriteFails(c) =>
        /\ Odd(wire[c]) => AtReplyBody(c) \/ AtEventBody(c)
        /\ AtReplyBody(c) => Odd(wire[c]) /\ EndsWith(wire[c], <<"header", "reply">>)
        /\ AtEventBody(c) => Odd(wire[c]) /\ EndsWith(wire[c], <<"header", "event">>)

WiresFit == \A c \in Connections : Len(wire[c]) <= WireCapacity

IInv == /\ Types /\ Inboxes /\ Arrivals /\ CallsWait /\ QueueBounded
        /\ WritersHoldLock /\ HalvesOwned /\ WiresFit /\ WholeFrames /\ ActiveIsAlive

-----------------------------------------------------------------------------
\* The types.

LEMMA ClientTypes ==
    ASSUME Types, Inboxes, NEW c \in Connections, Client(c)
    PROVE  Types'
PROOF
<1> USE ControlAssumption DEF Types, server, accepting, messages, clients
<1>1. CASE Connect(c)
  <2>1. backlog' \in Seq(Connections)
    BY <1>1 DEF Connect
  <2>2. client' \in [Connections -> {"away", "connected", "gone"}]
    BY <1>1 DEF Connect
  <2> QED BY <1>1, <2>1, <2>2 DEF Connect
<1>2. CASE Send(c)
  <2>0. inbox[c] \in 0..MaxRequests /\ sent[c] \in 0..MaxRequests
    OBVIOUS
  <2>a. sent[c] < MaxRequests /\ inbox[c] <= sent[c]
    BY <1>2 DEF Send, Inboxes
  <2>b. MaxRequests \in Nat
    OBVIOUS
  <2> HIDE ControlAssumption DEF Types, server, accepting, messages, clients
  <2>1. inbox[c] + 1 \in 0..MaxRequests /\ sent[c] + 1 \in 0..MaxRequests
    BY <2>0, <2>a, <2>b
  <2> USE ControlAssumption DEF Types, server, accepting, messages, clients
  <2>2. /\ inbox' \in [Connections -> 0..MaxRequests]
        /\ sent' \in [Connections -> 0..MaxRequests]
    BY <1>2, <2>1 DEF Send
  <2> QED BY <1>2, <2>2 DEF Send
<1>3. CASE Receive(c)
  <2>1. SubSeq(wire[c], 3, Len(wire[c])) \in Seq(Chunks)
    BY <1>3 DEF Receive
  <2> QED BY <1>3, <2>1 DEF Receive
<1>4. CASE Disconnect(c)
  <2>1. <<>> \in Seq(Chunks)
    OBVIOUS
  <2>2. /\ wire' \in [Connections -> Seq(Chunks)]
        /\ client' \in [Connections -> {"away", "connected", "gone"}]
    BY <1>4, <2>1 DEF Disconnect
  <2> QED BY <1>4, <2>2 DEF Disconnect
<1> QED BY <1>1, <1>2, <1>3, <1>4 DEF Client

LEMMA AcceptorTypes ==
    ASSUME Types, Acceptor
    PROVE  Types'
PROOF
<1> USE ControlAssumption DEF Types, server, messages, clients
<1>1. CASE Accept
  <2>1. Head(backlog) \in Connections /\ Tail(backlog) \in Seq(Connections)
    BY <1>1, HeadTailProperties DEF Accept
  <2> QED BY <1>1, <2>1 DEF Accept
<1>2. CASE EndAccepting
  BY <1>2 DEF EndAccepting
<1>3. CASE Supersede
  BY <1>3 DEF Supersede, CloseActive
<1>4. CASE Spawn
  BY <1>4 DEF Spawn, Goto, Places
<1> QED BY <1>1, <1>2, <1>3, <1>4 DEF Acceptor

\* What a writer leaves on the wire is chunks.
LEMMA WriteTypes ==
    ASSUME Types, NEW c \in Connections, NEW chunk \in Chunks, Write(c, chunk)
    PROVE  wire' \in [Connections -> Seq(Chunks)]
PROOF
<1>1. wire \in [Connections -> Seq(Chunks)] /\ Append(wire[c], chunk) \in Seq(Chunks)
  BY DEF Types
<1> QED BY <1>1 DEF Write

\* A call for the message thread is a call.
LEMMA CallTypes ==
    ASSUME Types, NEW c \in Connections, NEW op \in Ops, CallOnMessageThread(c, op)
    PROVE  /\ thread' \in [Connections -> Places]
           /\ queue' \in Seq(Calls \union {Quit})
PROOF
<1>1. [conn |-> c, op |-> op] \in Calls
  BY DEF Calls
<1>2. queue \in Seq(Calls \union {Quit}) /\ thread \in [Connections -> Places]
  BY DEF Types
<1>3. Append(queue, [conn |-> c, op |-> op]) \in Seq(Calls \union {Quit})
  BY <1>1, <1>2
<1>4. {"replying", "calling"} \subseteq Places
  BY DEF Places
<1> QED BY <1>2, <1>3, <1>4 DEF CallOnMessageThread, Goto

LEMMA ThreadTypes ==
    ASSUME Types, Inboxes, NEW c \in Connections, ConnectionThread(c)
    PROVE  Types'
PROOF
<1> USE ControlAssumption DEF Types, server, accepting, messages, clients, Goto, LoopTop
<1>1. CASE Register(c)
  BY <1>1 DEF Register, Places
<1>2. CASE EndReading(c)
  <2>1. thread' \in [Connections -> Places]
    BY <1>2 DEF EndReading, Places
  <2> QED BY <1>2, <2>1 DEF EndReading
<1>3. CASE ReadHeader(c)
  <2>1. PICK place \in {"filling", "leaving"} : thread' = [thread EXCEPT ![c] = place]
    BY <1>3 DEF ReadHeader
  <2>2. place \in Places
    BY DEF Places
  <2>3. thread' \in [Connections -> Places]
    BY <2>1, <2>2
  <2> QED BY <1>3, <2>3 DEF ReadHeader
<1>4. CASE ReadBody(c)
  <2>1. thread' \in [Connections -> Places]
    BY <1>4 DEF ReadBody, Places
  <2>2. inbox[c] \in 0..MaxRequests /\ (thread[c] = "filling" => inbox[c] > 0)
    BY DEF Inboxes
  <2>3. inbox[c] - 1 \in 0..MaxRequests
    <3>1. thread[c] = "filling" /\ MaxRequests \in Nat
      BY <1>4 DEF ReadBody
    <3> HIDE ControlAssumption DEF Types, server, accepting, messages, clients, Goto, LoopTop
    <3> QED BY <2>2, <3>1
  <2>4. inbox' \in [Connections -> 0..MaxRequests] /\ scratch' \in Requests
    <3>1. inbox \in [Connections -> 0..MaxRequests] /\ scratch \in Requests
      OBVIOUS
    <3>2. CASE inbox' = inbox /\ scratch' \in {scratch, "invalid"}
      BY <3>1, <3>2 DEF Requests
    <3>3. CASE inbox' = [inbox EXCEPT ![c] = inbox[c] - 1] /\ scratch' \in Requests
      BY <3>3, <2>3, <3>1
    <3> QED BY <1>4, <3>2, <3>3 DEF ReadBody
  <2> QED BY <1>4, <2>1, <2>4 DEF ReadBody
<1>5. CASE Dispatch(c)
  <2>1. PICK op \in Parsed(c) : IF op \in Ops
                                THEN CallOnMessageThread(c, op)
                                ELSE Goto(c, "replying") /\ UNCHANGED queue
    BY <1>5 DEF Dispatch
  <2>2. /\ thread' \in [Connections -> Places]
        /\ queue' \in Seq(Calls \union {Quit})
    <3>1. CASE op \in Ops
      BY <2>1, <3>1, CallTypes
    <3>2. CASE op \notin Ops
      BY <2>1, <3>2 DEF Places
    <3> QED BY <3>1, <3>2
  <2> QED BY <1>5, <2>2 DEF Dispatch
<1>6. CASE LockReply(c)
  BY <1>6 DEF LockReply, Places
<1>7. CASE WriteReplyHeader(c)
  <2>1. wire' \in [Connections -> Seq(Chunks)]
    BY <1>7, WriteTypes DEF WriteReplyHeader, Chunks
  <2>2. thread' \in [Connections -> Places]
    BY <1>7 DEF WriteReplyHeader, Places
  <2>3. /\ UNCHANGED <<listening, quit, running, acceptor, accepted, closed,
                       activeConn, lock, scratch, queue, quitPosted, mt, events,
                       client, sent, backlog, inbox>>
    BY <1>7 DEF WriteReplyHeader, messages
  <2> QED BY <2>1, <2>2, <2>3
<1>8. CASE WriteReplyBody(c)
  <2>1. wire' \in [Connections -> Seq(Chunks)]
    BY <1>8, WriteTypes DEF WriteReplyBody, Chunks
  <2> QED BY <1>8, <2>1 DEF WriteReplyBody, Places
<1>9. CASE FailReply(c)
  BY <1>9 DEF FailReply, Places
<1>10. CASE Leave(c)
  BY <1>10 DEF Leave, Places, ActiveAfter
<1> QED BY <1>1, <1>2, <1>3, <1>4, <1>5, <1>6, <1>7, <1>8, <1>9, <1>10
        DEF ConnectionThread

\* The types of what the message thread may change.
MainVariablesTyped ==
    /\ listening' \in BOOLEAN /\ quit' \in BOOLEAN /\ running' \in BOOLEAN
    /\ acceptor' \in {"none", "waiting", "superseding", "spawning", "ended"}
    /\ thread' \in [Connections -> Places]
    /\ closed' \subseteq Connections
    /\ lock' \in Connections \union {None, MessageThread}
    /\ queue' \in Seq(Calls \union {Quit}) /\ quitPosted' \in BOOLEAN
    /\ mt' \in MainPlaces /\ events' \in 0..MaxEvents
    /\ wire' \in [Connections -> Seq(Chunks)]

LEMMA MainTypesFrom ==
    ASSUME Types, MainVariablesTyped,
           UNCHANGED <<accepted, activeConn, scratch, clients, backlog, inbox>>
    PROVE  Types'
PROOF
<1>1. UNCHANGED <<accepted, activeConn, scratch, client, sent, backlog, inbox>>
  BY DEF clients
<1> QED BY <1>1 DEF Types, MainVariablesTyped

LEMMA MainTypes ==
    ASSUME Types, WritersHoldLock, Main
    PROVE  Types'
PROOF
<1>1. /\ listening \in BOOLEAN /\ quit \in BOOLEAN /\ running \in BOOLEAN
      /\ acceptor \in {"none", "waiting", "superseding", "spawning", "ended"}
      /\ thread \in [Connections -> Places]
      /\ closed \subseteq Connections
      /\ lock \in Connections \union {None, MessageThread}
      /\ queue \in Seq(Calls \union {Quit}) /\ quitPosted \in BOOLEAN
      /\ mt \in MainPlaces /\ events \in 0..MaxEvents
      /\ wire \in [Connections -> Seq(Chunks)]
      /\ activeConn \in Connections \union {None}
  BY DEF Types
<1>2. UNCHANGED <<accepted, activeConn, scratch, clients, backlog, inbox>>
  BY DEF Main, Start, StartOsc, RunHandler, LeaveLoop, ForwardLog, Events, LockEvent,
         WriteEventHeader, WriteEventBody, FailEvent, Stopping, Stop, CloseListener,
         CloseConnection, CloseActive, Join, accepting
<1> USE DEF server, accepting, MainPlaces
<1>3. SUFFICES MainVariablesTyped
  BY <1>2, MainTypesFrom
<1>4. CASE Start \/ StartOsc
  BY <1>1, <1>4 DEF Start, StartOsc, MainVariablesTyped
<1>5. CASE RunHandler
  <2>1. /\ Tail(queue) \in Seq(Calls \union {Quit})
        /\ Append(Tail(queue), Quit) \in Seq(Calls \union {Quit})
    BY <1>1, <1>5 DEF RunHandler
  <2>2. /\ queue' \in {Tail(queue), Append(Tail(queue), Quit)}
        /\ quitPosted' \in {TRUE, quitPosted}
    BY <1>5 DEF RunHandler
  <2>3. thread' \in [Connections -> Places]
    BY <1>1, <1>5 DEF RunHandler, Goto, Places
  <2>4. UNCHANGED <<listening, quit, running, acceptor, closed, lock, mt, events, wire>>
    BY <1>5 DEF RunHandler
  <2>5. queue' \in Seq(Calls \union {Quit}) /\ quitPosted' \in BOOLEAN
    <3>1. quitPosted \in BOOLEAN
      BY <1>1
    <3> QED BY <2>1, <2>2, <3>1
  <2> QED BY <1>1, <2>3, <2>4, <2>5 DEF MainVariablesTyped
<1>6. CASE LeaveLoop
  <2>1. Tail(queue) \in Seq(Calls \union {Quit})
    BY <1>1, <1>6 DEF LeaveLoop
  <2> QED BY <1>1, <1>6, <2>1 DEF LeaveLoop, MainVariablesTyped
<1>7. CASE ForwardLog
  <2>1. events + 1 \in 0..MaxEvents
    BY <1>1, <1>7, ControlAssumption DEF ForwardLog
  <2> QED BY <1>1, <1>7, <2>1 DEF ForwardLog, MainVariablesTyped
<1>8. CASE LockEvent
  BY <1>1, <1>8 DEF LockEvent, MainVariablesTyped
<1>9. CASE WriteEventHeader
  <2>1. wire' \in [Connections -> Seq(Chunks)]
    BY <1>1, <1>9, WriteTypes DEF WriteEventHeader, WritersHoldLock, Chunks
  <2> QED BY <1>1, <1>9, <2>1 DEF WriteEventHeader, MainVariablesTyped
<1>10. CASE WriteEventBody
  <2>1. wire' \in [Connections -> Seq(Chunks)]
    BY <1>1, <1>10, WriteTypes DEF WriteEventBody, WritersHoldLock, Chunks
  <2> QED BY <1>1, <1>10, <2>1 DEF WriteEventBody, MainVariablesTyped
<1>11. CASE FailEvent
  BY <1>1, <1>11 DEF FailEvent, MainVariablesTyped
<1>12. CASE Stop \/ CloseListener \/ Join
  BY <1>1, <1>12 DEF Stop, CloseListener, Join, MainVariablesTyped
<1>13. CASE CloseConnection
  <2>1. closed' \subseteq Connections
    BY <1>1, <1>13 DEF CloseConnection, CloseActive
  <2> QED BY <1>1, <1>13, <2>1 DEF CloseConnection, MainVariablesTyped
<1> QED BY <1>4, <1>5, <1>6, <1>7, <1>8, <1>9, <1>10, <1>11, <1>12, <1>13
        DEF Main, Events, Stopping

-----------------------------------------------------------------------------
\* What the steps leave alone.

\* A step of the message thread is nothing to clients, and moves no connection
\* thread unless it runs an op.
LEMMA MainStep ==
    ASSUME Main
    PROVE  /\ inbox' = inbox /\ sent' = sent /\ client' = client /\ backlog' = backlog
           /\ accepted' = accepted /\ activeConn' = activeConn
           /\ acceptor' \in {acceptor, "waiting"}
           /\ \/ thread' = thread /\ queue' = queue /\ quitPosted' = quitPosted
              \/ RunHandler
              \/ LeaveLoop
           /\ thread' = thread \/ RunHandler
PROOF
<1> USE DEF server, accepting, messages, clients
<1>1. CASE Start \/ StartOsc \/ ForwardLog
  BY <1>1 DEF Start, StartOsc, ForwardLog
<1>2. CASE RunHandler
  BY <1>2 DEF RunHandler
<1>3. CASE LeaveLoop
  BY <1>3 DEF LeaveLoop
<1>4. CASE Events
  BY <1>4 DEF Events, LockEvent, WriteEventHeader, WriteEventBody, FailEvent
<1>5. CASE Stopping
  BY <1>5 DEF Stopping, Stop, CloseListener, CloseConnection, Join
<1> QED BY <1>1, <1>2, <1>3, <1>4, <1>5 DEF Main

\* A connection thread that takes a step has been spawned, is not waiting for
\* the message thread, and moves itself only.
LEMMA ThreadStep ==
    ASSUME Types, NEW c \in Connections, ConnectionThread(c)
    PROVE  /\ thread[c] \notin {"none", "calling", "ended"} /\ thread'[c] \notin {"none", "starting"}
           /\ \A d \in Connections \ {c} : thread'[d] = thread[d]
           /\ client' = client /\ backlog' = backlog /\ accepted' = accepted
           /\ acceptor' = acceptor /\ mt' = mt /\ quitPosted' = quitPosted
           /\ queue' = queue \/ Dispatch(c)
           /\ thread'[c] = "calling" => Dispatch(c)
PROOF
<1> USE DEF server, accepting, messages, clients, Goto, LoopTop
<1>1. thread \in [Connections -> Places]
  BY DEF Types
<1>2. CASE Register(c) \/ EndReading(c) \/ LockReply(c)
  BY <1>1, <1>2 DEF Register, EndReading, LockReply
<1>3. CASE ReadHeader(c)
  BY <1>1, <1>3 DEF ReadHeader
<1>4. CASE ReadBody(c)
  BY <1>1, <1>4 DEF ReadBody
<1>5. CASE Dispatch(c)
  BY <1>1, <1>5 DEF Dispatch, CallOnMessageThread
<1>6. CASE WriteReplyHeader(c) \/ WriteReplyBody(c) \/ FailReply(c)
  BY <1>1, <1>6 DEF WriteReplyHeader, WriteReplyBody, FailReply
<1>7. CASE Leave(c)
  BY <1>1, <1>7 DEF Leave
<1> QED BY <1>2, <1>3, <1>4, <1>5, <1>6, <1>7 DEF ConnectionThread

\* A step of a client is nothing to the threads.
LEMMA ClientStep ==
    ASSUME NEW c \in Connections, Client(c)
    PROVE  /\ thread' = thread /\ accepted' = accepted /\ acceptor' = acceptor
           /\ activeConn' = activeConn /\ lock' = lock /\ closed' = closed
           /\ mt' = mt /\ queue' = queue /\ quitPosted' = quitPosted
PROOF
  BY DEF Client, Connect, Send, Receive, Disconnect, server, accepting, messages, clients

\* The op run is the call at the head of the queue, whose thread goes on; the
\* op that shuts the host down posts the end of the loop, once.
HandlerOf(c) ==
    /\ Len(queue) > 0 /\ queue[1] \in Calls /\ queue[1].conn = c
    /\ thread[c] = "calling" /\ thread' = [thread EXCEPT ![c] = "replying"]
    /\ \/ queue' = Tail(queue) /\ quitPosted' = quitPosted
       \/ queue' = Append(Tail(queue), Quit) /\ quitPosted = FALSE /\ quitPosted' = TRUE

LEMMA QuitIsNoCall == Quit \notin Calls
PROOF
  BY ControlAssumption DEF Quit, Calls

LEMMA HandlerStep ==
    ASSUME Types, CallsWait, RunHandler
    PROVE  \E c \in Connections : HandlerOf(c)
PROOF
<1>1. queue \in Seq(Calls \union {Quit}) /\ queue # <<>> /\ Head(queue) # Quit
  BY DEF Types, RunHandler
<1>2. /\ Len(queue) \in Nat /\ Len(queue) > 0
      /\ Head(queue) = queue[1] /\ queue[1] \in Calls \union {Quit}
  BY <1>1, HeadTailProperties
<1>3. /\ queue[1] \in Calls /\ queue[1] # Quit /\ queue[1].conn \in Connections
      /\ thread[queue[1].conn] = "calling"
  BY <1>1, <1>2 DEF Calls, CallsWait
<1>4. thread' = [thread EXCEPT ![queue[1].conn] = "replying"]
  BY <1>2 DEF RunHandler, Goto
<1>5. \/ queue' = Tail(queue) /\ quitPosted' = quitPosted
      \/ queue' = Append(Tail(queue), Quit) /\ quitPosted = FALSE /\ quitPosted' = TRUE
  BY DEF RunHandler, Types
<1> QED BY <1>2, <1>3, <1>4, <1>5 DEF HandlerOf

-----------------------------------------------------------------------------
\* Inboxes.

LEMMA InboxesKept ==
    ASSUME Types, Inboxes, CallsWait, Arrivals, Next
    PROVE  Inboxes'
PROOF
<1> SUFFICES ASSUME NEW d \in Connections
             PROVE  inbox'[d] <= sent'[d] /\ (thread'[d] = "filling" => inbox'[d] > 0)
  BY DEF Inboxes
<1>1. /\ inbox \in [Connections -> 0..MaxRequests] /\ sent \in [Connections -> 0..MaxRequests]
      /\ inbox[d] \in Nat /\ sent[d] \in Nat
      /\ thread \in [Connections -> Places]
  <2>1. /\ inbox \in [Connections -> 0..MaxRequests] /\ sent \in [Connections -> 0..MaxRequests]
        /\ thread \in [Connections -> Places]
    BY DEF Types
  <2> QED BY <2>1
<1>2. inbox[d] <= sent[d] /\ (thread[d] = "filling" => inbox[d] > 0)
  BY DEF Inboxes
<1> USE DEF server, accepting, messages, clients, Goto
<1>3. ASSUME NEW c \in Connections, Client(c)
      PROVE  inbox'[d] <= sent'[d] /\ (thread'[d] = "filling" => inbox'[d] > 0)
  <2>1. CASE Send(c)
    BY <1>1, <1>2, <2>1 DEF Send
  <2>2. CASE Connect(c) \/ Receive(c) \/ Disconnect(c)
    BY <1>1, <1>2, <2>2 DEF Connect, Receive, Disconnect
  <2> QED BY <1>3, <2>1, <2>2 DEF Client
<1>4. CASE Acceptor
  BY <1>1, <1>2, <1>4 DEF Acceptor, Accept, EndAccepting, Supersede, Spawn
<1>5. ASSUME NEW c \in Connections, ConnectionThread(c)
      PROVE  inbox'[d] <= sent'[d] /\ (thread'[d] = "filling" => inbox'[d] > 0)
  <2>1. CASE ReadHeader(c)
    BY <1>1, <1>2, <2>1 DEF ReadHeader
  <2>2. CASE ReadBody(c)
    BY <1>1, <1>2, <2>2 DEF ReadBody
  <2>3. CASE Dispatch(c)
    BY <1>1, <1>2, <2>3 DEF Dispatch, CallOnMessageThread
  <2>4. CASE Leave(c)
    BY <1>1, <1>2, <2>4 DEF Leave
  <2>5. CASE Register(c) \/ EndReading(c) \/ LockReply(c)
    BY <1>1, <1>2, <2>5 DEF Register, EndReading, LoopTop, LockReply
  <2>6. CASE WriteReplyHeader(c) \/ WriteReplyBody(c) \/ FailReply(c)
    BY <1>1, <1>2, <2>6 DEF WriteReplyHeader, WriteReplyBody, LoopTop, FailReply
  <2> QED BY <1>5, <2>1, <2>2, <2>3, <2>4, <2>5, <2>6 DEF ConnectionThread
<1>6. CASE Main
  <2>1. inbox' = inbox /\ sent' = sent /\ (thread' = thread \/ RunHandler)
    BY <1>6, MainStep
  <2>2. CASE RunHandler
    BY <1>1, <1>2, <2>1, <2>2 DEF RunHandler
  <2> QED BY <1>2, <2>1, <2>2
<1> QED BY <1>3, <1>4, <1>5, <1>6 DEF Next

-----------------------------------------------------------------------------
\* Connections on their way to a thread.

LEMMA ConnectArrives ==
    ASSUME Types, Arrivals, NEW c \in Connections, Connect(c)
    PROVE  Arrivals'
PROOF
<1> USE DEF server, accepting, messages, clients
<1>1. /\ backlog \in Seq(Connections) /\ backlog' = Append(backlog, c)
      /\ client \in [Connections -> {"away", "connected", "gone"}]
      /\ client[c] = "away" /\ client' = [client EXCEPT ![c] = "connected"]
      /\ thread' = thread /\ accepted' = accepted /\ acceptor' = acceptor
  BY DEF Types, Connect
<1>2. /\ Len(backlog') = Len(backlog) + 1 /\ Len(backlog) \in Nat
      /\ \A i \in 1..Len(backlog) : backlog'[i] = backlog[i]
      /\ backlog'[Len(backlog) + 1] = c
  BY <1>1
<1>3. /\ thread[c] = "none" /\ accepted # c
      /\ \A i \in 1..Len(backlog) : backlog[i] # c
  BY <1>1 DEF Arrivals
<1>4. \A d \in Connections : client'[d] = "away" =>
          /\ client[d] = "away" /\ d # c
  BY <1>1
<1>5. \A d \in Connections : client'[d] = "away" =>
          /\ thread'[d] = "none" /\ accepted' # d
          /\ \A i \in 1..Len(backlog') : backlog'[i] # d
  BY <1>1, <1>2, <1>4 DEF Arrivals
<1>6. \A i \in 1..Len(backlog') :
          /\ thread'[backlog'[i]] = "none" /\ accepted' # backlog'[i]
          /\ \A j \in 1..Len(backlog') : backlog'[i] = backlog'[j] => i = j
  BY <1>1, <1>2, <1>3 DEF Arrivals
<1> QED BY <1>1, <1>5, <1>6 DEF Arrivals

LEMMA AcceptArrives ==
    ASSUME Types, Arrivals, Accept
    PROVE  Arrivals'
PROOF
<1> USE ControlAssumption DEF server, messages, clients
<1>1. /\ backlog \in Seq(Connections) /\ backlog # <<>> /\ backlog' = Tail(backlog)
      /\ accepted' = Head(backlog) /\ thread' = thread /\ client' = client
  BY DEF Types, Accept
<1>2. /\ Len(backlog) \in Nat /\ Len(backlog) > 0 /\ Len(backlog') = Len(backlog) - 1
      /\ \A i \in 1..Len(backlog') : backlog'[i] = backlog[i + 1]
      /\ accepted' = backlog[1] /\ accepted' \in Connections
  BY <1>1, HeadTailProperties
<1>3. \A i \in 1..Len(backlog') : i + 1 \in 1..Len(backlog) /\ i + 1 # 1
  BY <1>2
<1>4. 1 \in 1..Len(backlog)
  BY <1>2
<1>5. \A d \in Connections : client'[d] = "away" =>
          /\ thread'[d] = "none" /\ accepted' # d
          /\ \A i \in 1..Len(backlog') : backlog'[i] # d
  BY <1>1, <1>2, <1>3, <1>4 DEF Arrivals
<1>6. \A i \in 1..Len(backlog') : thread'[backlog'[i]] = "none" /\ accepted' # backlog'[i]
  BY <1>1, <1>2, <1>3, <1>4 DEF Arrivals
<1>7. \A i, j \in 1..Len(backlog') : backlog'[i] = backlog'[j] => i = j
  BY <1>1, <1>2, <1>3 DEF Arrivals
<1>8. accepted' # None /\ thread'[accepted'] = "none"
  BY <1>1, <1>2, <1>4 DEF Arrivals
<1> QED BY <1>5, <1>6, <1>7, <1>8 DEF Arrivals

LEMMA SpawnArrives ==
    ASSUME Types, Arrivals, Spawn
    PROVE  /\ Arrivals'
           /\ accepted \in Connections /\ thread[accepted] = "none"
           /\ thread'[accepted] = "starting"
           /\ \A d \in Connections \ {accepted} : thread'[d] = thread[d]
PROOF
<1> USE ControlAssumption DEF server, messages, clients, Goto
<1>1. /\ accepted \in Connections /\ thread[accepted] = "none"
      /\ thread \in [Connections -> Places]
      /\ thread' = [thread EXCEPT ![accepted] = "starting"]
      /\ accepted' = None /\ client' = client /\ backlog' = backlog
      /\ acceptor' \in {"ended", "waiting"}
      /\ backlog \in Seq(Connections)
  BY DEF Types, Arrivals, Spawn
<1>2. \A i \in 1..Len(backlog) : backlog[i] \in Connections /\ backlog[i] # accepted
  BY <1>1 DEF Arrivals
<1> QED BY <1>1, <1>2 DEF Arrivals

\* A thread that moves on has left all these places.
LEMMA MovesKeepArrivals ==
    ASSUME Types, Arrivals, NEW c \in Connections, thread[c] # "none",
           \A d \in Connections \ {c} : thread'[d] = thread[d],
           client' = client, backlog' = backlog, accepted' = accepted,
           acceptor' \in {acceptor, "waiting"}
    PROVE  Arrivals'
PROOF
<1>1. backlog \in Seq(Connections) /\ accepted \in Connections \union {None}
  BY DEF Types
<1>2. \A i \in 1..Len(backlog) : backlog[i] \in Connections /\ backlog[i] # c
  BY <1>1 DEF Arrivals
<1>3. accepted # None => accepted \in Connections /\ accepted # c
  BY <1>1 DEF Arrivals
<1> QED BY <1>1, <1>2, <1>3 DEF Arrivals

LEMMA ArrivalsKept ==
    ASSUME Types, Arrivals, CallsWait, Next
    PROVE  Arrivals'
PROOF
<1>1. ASSUME NEW c \in Connections, Client(c) PROVE Arrivals'
  <2>1. CASE Connect(c)
    BY <2>1, ConnectArrives
  <2>2. CASE Send(c) \/ Receive(c)
    BY <2>2 DEF Send, Receive, Arrivals, accepting, clients
  <2>3. CASE Disconnect(c)
    <3>1. \A d \in Connections : client'[d] = "away" => client[d] = "away"
      BY <2>3 DEF Disconnect, Types
    <3> QED BY <2>3, <3>1 DEF Disconnect, Arrivals, accepting
  <2> QED BY <1>1, <2>1, <2>2, <2>3 DEF Client
<1>2. CASE Acceptor
  <2>1. CASE EndAccepting \/ Supersede
    BY <2>1 DEF EndAccepting, Supersede, Arrivals, clients
  <2> QED BY <1>2, <2>1, AcceptArrives, SpawnArrives DEF Acceptor
<1>3. ASSUME NEW c \in Connections, ConnectionThread(c) PROVE Arrivals'
  BY <1>3, ThreadStep, MovesKeepArrivals
<1>4. CASE Main
  <2>1. CASE RunHandler
    <3>1. PICK c \in Connections : HandlerOf(c)
      BY <2>1, HandlerStep
    <3>2. /\ thread[c] # "none"
          /\ \A d \in Connections \ {c} : thread'[d] = thread[d]
      BY <3>1 DEF HandlerOf, Types
    <3> QED BY <1>4, <3>2, MovesKeepArrivals, MainStep
  <2>2. CASE thread' = thread
    BY <1>4, <2>2, MainStep DEF Arrivals
  <2> QED BY <1>4, <2>1, <2>2, MainStep
<1> QED BY <1>1, <1>2, <1>3, <1>4 DEF Next

-----------------------------------------------------------------------------
\* The message thread's queue.

\* Calls keep waiting while their threads do not move and they only move up.
LEMMA FewerCallsWait ==
    ASSUME CallsWait, queue \in Seq(Calls \union {Quit}), queue # <<>>,
           queue' \in {Tail(queue), Append(Tail(queue), Quit)},
           \A d \in Connections : thread'[d] = thread[d] \/ (queue[1] \in Calls /\ d = queue[1].conn)
    PROVE  CallsWait'
PROOF
<1> DEFINE rest == Tail(queue)
<1>1. /\ Len(queue) \in Nat /\ Len(queue) > 0
      /\ rest \in Seq(Calls \union {Quit}) /\ Len(rest) = Len(queue) - 1
      /\ \A i \in 1..Len(rest) : rest[i] = queue[i + 1]
  BY HeadTailProperties
<1>2. /\ Len(queue') \in {Len(rest), Len(rest) + 1}
      /\ \A i \in 1..Len(queue') : queue'[i] = Quit \/ (i \in 1..Len(rest) /\ queue'[i] = rest[i])
  <2>1. CASE queue' = rest
    BY <1>1, <2>1
  <2>2. CASE queue' = Append(rest, Quit)
    <3> HIDE DEF rest
    <3>1. /\ Len(queue') = Len(rest) + 1
          /\ \A i \in 1..Len(rest) : queue'[i] = rest[i]
          /\ queue'[Len(rest) + 1] = Quit
      BY <1>1, <2>2, AppendProperties
    <3> QED BY <1>1, <3>1
  <2> QED BY <2>1, <2>2
<1> HIDE DEF rest
<1>3. ASSUME NEW i \in 1..Len(queue'), queue'[i] # Quit
      PROVE  /\ i + 1 \in 2..Len(queue) /\ queue'[i] = queue[i + 1]
             /\ queue[i + 1] # Quit /\ queue[i + 1] \in Calls
  BY <1>1, <1>2, <1>3
<1>4. ASSUME NEW i \in 1..Len(queue'), queue'[i] # Quit
      PROVE  thread'[queue'[i].conn] = "calling"
  <2>1. /\ i + 1 \in 1..Len(queue) /\ i + 1 # 1 /\ 1 \in 1..Len(queue)
        /\ queue'[i] = queue[i + 1] /\ queue[i + 1] # Quit
        /\ queue[i + 1].conn \in Connections
    BY <1>1, <1>3, <1>4 DEF Calls
  <2>2. queue[1] \in Calls => queue[1].conn # queue[i + 1].conn
    BY <2>1, QuitIsNoCall DEF CallsWait
  <2> QED BY <2>1, <2>2 DEF CallsWait
<1>5. ASSUME NEW i \in 1..Len(queue'), queue'[i] # Quit,
             NEW j \in 1..Len(queue'), queue'[j] # Quit, queue'[i].conn = queue'[j].conn
      PROVE  i = j
  <2>1. i + 1 \in 1..Len(queue) /\ queue'[i] = queue[i + 1] /\ queue[i + 1] # Quit
    BY <1>1, <1>3, <1>5
  <2>2. j + 1 \in 1..Len(queue) /\ queue'[j] = queue[j + 1] /\ queue[j + 1] # Quit
    BY <1>1, <1>3, <1>5
  <2>3. i + 1 = j + 1
    BY <1>5, <2>1, <2>2 DEF CallsWait
  <2> QED BY <2>3
<1> QED BY <1>4, <1>5 DEF CallsWait

LEMMA CallJoins ==
    ASSUME Types, CallsWait, NEW c \in Connections, Dispatch(c)
    PROVE  CallsWait'
PROOF
<1>1. /\ thread \in [Connections -> Places] /\ thread[c] = "parsing"
      /\ queue \in Seq(Calls \union {Quit})
  BY DEF Types, Dispatch
<1>2. \A i \in 1..Len(queue) : queue[i] # Quit =>
          queue[i].conn \in Connections /\ queue[i].conn # c
  <2>1. \A i \in 1..Len(queue) : queue[i] \in Calls \union {Quit}
    BY <1>1
  <2> QED BY <1>1, <2>1 DEF CallsWait, Calls
<1>3. \/ queue' = queue
      \/ \E op \in Ops : /\ queue' = Append(queue, [conn |-> c, op |-> op])
                         /\ thread' = [thread EXCEPT ![c] = "calling"]
  BY DEF Dispatch, CallOnMessageThread, Goto
<1>4. \A d \in Connections \ {c} : thread'[d] = thread[d]
  BY ThreadStep DEF ConnectionThread
<1>5. CASE queue' = queue
  BY <1>2, <1>4, <1>5 DEF CallsWait
<1>6. ASSUME NEW op \in Ops, queue' = Append(queue, [conn |-> c, op |-> op]),
             thread' = [thread EXCEPT ![c] = "calling"]
      PROVE  CallsWait'
  <2>1. /\ Len(queue') = Len(queue) + 1 /\ Len(queue) \in Nat
        /\ \A i \in 1..Len(queue) : queue'[i] = queue[i]
        /\ queue'[Len(queue) + 1].conn = c
    BY <1>1, <1>6, AppendProperties
  <2>2. thread'[c] = "calling"
    BY <1>1, <1>6
  <2> QED BY <1>2, <1>4, <2>1, <2>2 DEF CallsWait
<1> QED BY <1>3, <1>5, <1>6

LEMMA CallsWaitKept ==
    ASSUME Types, Arrivals, CallsWait, Next
    PROVE  CallsWait'
PROOF
<1>1. ASSUME NEW c \in Connections, Client(c) PROVE CallsWait'
  BY <1>1, ClientStep DEF CallsWait
<1>2. \A i \in 1..Len(queue) : queue[i] # Quit => queue[i].conn \in Connections
  <2>1. \A i \in 1..Len(queue) : queue[i] \in Calls \union {Quit}
    BY DEF Types
  <2> QED BY <2>1 DEF Calls
<1>3. CASE Acceptor
  <2>1. CASE Spawn
    <3>1. queue' = queue
      BY <2>1 DEF Spawn, messages
    <3> QED BY <1>2, <2>1, <3>1, SpawnArrives DEF CallsWait
  <2>2. CASE Accept \/ EndAccepting \/ Supersede
    BY <2>2 DEF Accept, EndAccepting, Supersede, messages, CallsWait
  <2> QED BY <1>3, <2>1, <2>2 DEF Acceptor
<1>4. ASSUME NEW c \in Connections, ConnectionThread(c) PROVE CallsWait'
  <2>1. CASE Dispatch(c)
    BY <2>1, CallJoins
  <2>2. CASE ~Dispatch(c)
    <3>1. queue' = queue /\ thread[c] # "calling"
      BY <1>4, <2>2, ThreadStep
    <3>2. \A d \in Connections : thread[d] = "calling" => thread'[d] = "calling"
      BY <1>4, <3>1, ThreadStep
    <3> QED BY <1>2, <3>1, <3>2 DEF CallsWait
  <2> QED BY <2>1, <2>2
<1>5. CASE Main
  <2>1. CASE RunHandler
    <3>1. PICK c \in Connections : HandlerOf(c)
      BY <2>1, HandlerStep
    <3>2. /\ queue \in Seq(Calls \union {Quit}) /\ queue # <<>>
          /\ queue' \in {Tail(queue), Append(Tail(queue), Quit)}
      BY <3>1 DEF HandlerOf, Types
    <3>3. \A d \in Connections : thread'[d] = thread[d] \/ (queue[1] \in Calls /\ d = queue[1].conn)
      BY <3>1 DEF HandlerOf, Types
    <3> QED BY <3>2, <3>3, FewerCallsWait
  <2>2. CASE LeaveLoop
    <3>1. /\ queue \in Seq(Calls \union {Quit}) /\ queue # <<>> /\ queue' = Tail(queue)
          /\ thread' = thread
      BY <2>2 DEF LeaveLoop, Types
    <3> QED BY <3>1, FewerCallsWait
  <2>3. CASE thread' = thread /\ queue' = queue
    BY <2>3 DEF CallsWait
  <2> QED BY <1>5, <2>1, <2>2, <2>3, MainStep
<1> QED BY <1>1, <1>3, <1>4, <1>5 DEF Next

LEMMA WaitingFinite == IsFiniteSet(Waiting) /\ Cardinality(Waiting) \in Nat
PROOF
  BY ControlAssumption, FS_Subset, FS_CardinalityType DEF Waiting

LEMMA QueueBoundedKept ==
    ASSUME Types, Arrivals, CallsWait, QueueBounded, Next
    PROVE  QueueBounded'
PROOF
<1>1. /\ queue \in Seq(Calls \union {Quit}) /\ Len(queue) \in Nat /\ quitPosted \in BOOLEAN
      /\ thread \in [Connections -> Places]
  BY DEF Types
<1>2. ASSUME Waiting' = Waiting, queue' = queue, quitPosted' = quitPosted
      PROVE  QueueBounded'
  BY <1>2 DEF QueueBounded
<1>3. ASSUME NEW c \in Connections, Client(c) PROVE QueueBounded'
  BY <1>2, <1>3, ClientStep DEF Waiting
<1>4. CASE Acceptor
  <2>1. Waiting' = Waiting
    <3>1. CASE Spawn
      BY <3>1, SpawnArrives DEF Waiting
    <3>2. CASE ~Spawn
      BY <1>4, <3>2 DEF Acceptor, Accept, EndAccepting, Supersede, Waiting
    <3> QED BY <3>1, <3>2
  <2>2. queue' = queue /\ quitPosted' = quitPosted
    BY <1>4 DEF Acceptor, Accept, EndAccepting, Supersede, Spawn, messages
  <2> QED BY <1>2, <2>1, <2>2
<1>5. ASSUME NEW c \in Connections, ConnectionThread(c) PROVE QueueBounded'
  <2>1. CASE Dispatch(c) /\ queue' # queue
    <3>1. /\ thread[c] = "parsing" /\ thread' = [thread EXCEPT ![c] = "calling"]
          /\ \E op \in Ops : queue' = Append(queue, [conn |-> c, op |-> op])
      BY <2>1 DEF Dispatch, CallOnMessageThread, Goto
    <3>2. c \notin Waiting /\ Waiting' = Waiting \union {c}
      BY <1>1, <3>1 DEF Waiting
    <3>3. Cardinality(Waiting') = Cardinality(Waiting) + 1
      BY <3>2, WaitingFinite, FS_AddElement
    <3>4. Len(queue') = Len(queue) + 1
      BY <1>1, <3>1
    <3>5. quitPosted' = quitPosted
      BY <1>5, ThreadStep
    <3> QED BY <1>1, <3>3, <3>4, <3>5, WaitingFinite DEF QueueBounded
  <2>2. CASE queue' = queue
    <3>1. thread'[c] # "calling"
      <4>1. CASE Dispatch(c)
        <5>1. Len(queue') = Len(queue)
          BY <2>2
        <5>2. \A call : Len(Append(queue, call)) = Len(queue) + 1
          BY <1>1
        <5>3. thread' = [thread EXCEPT ![c] = "replying"]
          BY <1>1, <4>1, <5>1, <5>2 DEF Dispatch, CallOnMessageThread, Goto
        <5> QED BY <1>1, <5>3
      <4> QED BY <1>5, <4>1, ThreadStep
    <3>2. Waiting' = Waiting
      BY <1>5, <3>1, ThreadStep DEF Waiting
    <3> QED BY <1>2, <1>5, <2>2, <3>2, ThreadStep
  <2> QED BY <1>5, <2>1, <2>2, ThreadStep
<1>6. CASE Main
  <2>1. CASE RunHandler
    <3>1. PICK c \in Connections : HandlerOf(c)
      BY <2>1, HandlerStep
    <3>2. c \in Waiting /\ Waiting' = Waiting \ {c}
      BY <1>1, <3>1 DEF HandlerOf, Waiting
    <3>3. Cardinality(Waiting') = Cardinality(Waiting) - 1
      BY <3>2, WaitingFinite, FS_RemoveElement
    <3>4. queue # <<>> /\ Tail(queue) \in Seq(Calls \union {Quit})
          /\ Len(Tail(queue)) = Len(queue) - 1
      BY <1>1, <3>1, HeadTailProperties DEF HandlerOf
    <3>5. \/ Len(queue') = Len(queue) - 1 /\ quitPosted' = quitPosted
          \/ Len(queue') = Len(queue) /\ quitPosted = FALSE /\ quitPosted' = TRUE
      <4>1. Len(Append(Tail(queue), Quit)) = Len(Tail(queue)) + 1
        BY <3>4, AppendProperties
      <4>2. CASE queue' = Tail(queue) /\ quitPosted' = quitPosted
        <5>1. Len(queue') = Len(queue) - 1
          BY <3>4, <4>2
        <5> QED BY <4>2, <5>1
      <4>3. CASE queue' = Append(Tail(queue), Quit) /\ quitPosted = FALSE /\ quitPosted' = TRUE
        <5>1. Len(queue') = Len(queue)
          BY <1>1, <3>4, <4>1, <4>3
        <5> QED BY <4>3, <5>1
      <4> QED BY <3>1, <4>2, <4>3 DEF HandlerOf
    <3> QED BY <1>1, <3>3, <3>5, WaitingFinite DEF QueueBounded
  <2>2. CASE LeaveLoop
    <3>1. queue # <<>> /\ queue' = Tail(queue) /\ quitPosted' = quitPosted /\ thread' = thread
      BY <2>2 DEF LeaveLoop
    <3>2. Len(queue') = Len(queue) - 1
      BY <1>1, <3>1, HeadTailProperties
    <3>3. Waiting' = Waiting
      BY <3>1 DEF Waiting
    <3> QED BY <1>1, <3>1, <3>2, <3>3, WaitingFinite DEF QueueBounded
  <2>3. CASE thread' = thread /\ queue' = queue /\ quitPosted' = quitPosted
    BY <1>2, <2>3 DEF Waiting
  <2> QED BY <1>6, <2>1, <2>2, <2>3, MainStep
<1> QED BY <1>3, <1>4, <1>5, <1>6 DEF Next

-----------------------------------------------------------------------------
\* The lock.

LEMMA WritersHoldLockKept ==
    ASSUME Types, Arrivals, CallsWait, WritersHoldLock, Next
    PROVE  WritersHoldLock'
PROOF
<1> USE ControlAssumption DEF server, accepting, messages, clients, Goto, LoopTop
<1>1. /\ thread \in [Connections -> Places]
      /\ activeConn \in Connections \union {None}
      /\ lock \in Connections \union {None, MessageThread}
  BY DEF Types
<1>2. ASSUME NEW c \in Connections, Client(c) PROVE WritersHoldLock'
  BY <1>2, ClientStep DEF WritersHoldLock
<1>3. CASE Acceptor
  <2>1. CASE Spawn
    <3>1. lock' = lock /\ mt' = mt /\ activeConn' = activeConn
      BY <2>1 DEF Spawn
    <3> QED BY <2>1, <3>1, SpawnArrives DEF WritersHoldLock
  <2>2. CASE Accept \/ EndAccepting \/ Supersede
    BY <2>2 DEF Accept, EndAccepting, Supersede, WritersHoldLock
  <2> QED BY <1>3, <2>1, <2>2 DEF Acceptor
<1>4. ASSUME NEW c \in Connections, ConnectionThread(c) PROVE WritersHoldLock'
  <2>1. CASE Register(c)
    BY <1>1, <2>1 DEF Register, WritersHoldLock
  <2>2. CASE EndReading(c) \/ ReadHeader(c) \/ ReadBody(c)
    <3>1. /\ lock' = lock /\ activeConn' = activeConn /\ mt' = mt
          /\ thread[c] \in {"reading", "filling"}
          /\ thread'[c] \in {"leaving", "filling", "parsing"}
      BY <1>1, <2>2 DEF EndReading, ReadHeader, ReadBody
    <3> QED BY <1>4, <3>1, ThreadStep DEF WritersHoldLock
  <2>3. CASE Dispatch(c)
    <3>1. /\ lock' = lock /\ activeConn' = activeConn /\ mt' = mt
          /\ thread[c] = "parsing" /\ thread'[c] \in {"calling", "replying"}
      BY <1>1, <2>3 DEF Dispatch, CallOnMessageThread
    <3> QED BY <1>4, <3>1, ThreadStep DEF WritersHoldLock
  <2>4. CASE LockReply(c)
    BY <1>1, <2>4 DEF LockReply, WritersHoldLock
  <2>5. CASE WriteReplyHeader(c)
    BY <1>1, <2>5 DEF WriteReplyHeader, WritersHoldLock
  <2>6. CASE WriteReplyBody(c)
    BY <1>1, <2>6 DEF WriteReplyBody, WritersHoldLock
  <2>7. CASE FailReply(c)
    BY <1>1, <2>7 DEF FailReply, WritersHoldLock
  <2>8. CASE Leave(c)
    BY <1>1, <2>8 DEF Leave, WritersHoldLock
  <2> QED BY <1>4, <2>1, <2>2, <2>3, <2>4, <2>5, <2>6, <2>7, <2>8 DEF ConnectionThread
<1>5. CASE Main
  <2>1. CASE RunHandler
    <3>1. PICK c \in Connections : HandlerOf(c)
      BY <2>1, HandlerStep
    <3>2. /\ thread[c] = "calling" /\ thread'[c] = "replying"
          /\ \A d \in Connections \ {c} : thread'[d] = thread[d]
      BY <1>1, <3>1 DEF HandlerOf
    <3>3. lock' = lock /\ mt' = mt /\ activeConn' = activeConn
      BY <2>1 DEF RunHandler
    <3> QED BY <3>2, <3>3 DEF WritersHoldLock
  <2>2. CASE Events
    BY <1>1, <2>2 DEF Events, LockEvent, WriteEventHeader, WriteEventBody, FailEvent,
       WritersHoldLock
  <2>3. CASE Start \/ StartOsc \/ LeaveLoop \/ ForwardLog
    BY <2>3 DEF Start, StartOsc, LeaveLoop, ForwardLog, WritersHoldLock
  <2>4. CASE Stopping
    BY <2>4 DEF Stopping, Stop, CloseListener, CloseConnection, Join, WritersHoldLock
  <2> QED BY <1>5, <2>1, <2>2, <2>3, <2>4 DEF Main
<1> QED BY <1>2, <1>3, <1>4, <1>5 DEF Next

-----------------------------------------------------------------------------
\* The registered connection.

\* Only the end of its own thread takes a connection off the books.
LEMMA OwnEndClears ==
    ASSUME Types, [Next]_vars, activeConn # None, activeConn' = None
    PROVE  thread[activeConn] = "leaving" /\ thread'[activeConn] = "ended"
PROOF
<1> USE ControlAssumption DEF server, accepting, messages, clients
<1>1. thread \in [Connections -> Places]
  BY DEF Types
<1>2. ASSUME activeConn' = activeConn PROVE FALSE
  BY <1>2
<1>3. ~UNCHANGED vars
  BY <1>2 DEF vars
<1>4. ASSUME NEW c \in Connections, Client(c) PROVE FALSE
  BY <1>2, <1>4, ClientStep
<1>5. ~Acceptor
  BY <1>2 DEF Acceptor, Accept, EndAccepting, Supersede, Spawn
<1>6. ~Main
  BY <1>2, MainStep
<1>7. PICK c \in Connections : ConnectionThread(c)
  BY <1>3, <1>4, <1>5, <1>6 DEF Next
<1>8. ~Register(c)
  BY DEF Register
<1>9. Leave(c)
  BY <1>2, <1>7, <1>8 DEF ConnectionThread, EndReading, ReadHeader, ReadBody, Dispatch,
     LockReply, WriteReplyHeader, WriteReplyBody, FailReply
<1> QED BY <1>1, <1>9 DEF Leave, ActiveAfter, Goto

LEMMA ActiveIsAliveKept ==
    ASSUME Types, Arrivals, CallsWait, ActiveIsAlive, Next
    PROVE  ActiveIsAlive'
PROOF
<1> USE ControlAssumption DEF server, accepting, messages, clients, Goto, LoopTop
<1>1. thread \in [Connections -> Places] /\ activeConn \in Connections \union {None}
  BY DEF Types
<1>2. ASSUME NEW c \in Connections, Client(c) PROVE ActiveIsAlive'
  BY <1>2, ClientStep DEF ActiveIsAlive
<1>3. CASE Acceptor
  <2>1. activeConn' = activeConn
    BY <1>3 DEF Acceptor, Accept, EndAccepting, Supersede, Spawn
  <2>2. CASE Spawn
    BY <1>1, <2>1, <2>2, SpawnArrives DEF ActiveIsAlive
  <2>3. CASE ~Spawn
    BY <1>3, <2>1, <2>3 DEF Acceptor, Accept, EndAccepting, Supersede, ActiveIsAlive
  <2> QED BY <2>2, <2>3
<1>4. ASSUME NEW c \in Connections, ConnectionThread(c) PROVE ActiveIsAlive'
  <2>1. CASE Register(c)
    BY <1>1, <2>1 DEF Register, ActiveIsAlive
  <2>2. CASE Leave(c)
    BY <1>1, <2>2 DEF Leave, ActiveAfter, ActiveIsAlive
  <2>3. CASE ~Register(c) /\ ~Leave(c)
    <3>1. activeConn' = activeConn /\ thread'[c] # "ended"
      BY <1>1, <1>4, <2>3 DEF ConnectionThread, EndReading, ReadHeader, ReadBody, Dispatch,
         CallOnMessageThread, LockReply, WriteReplyHeader, WriteReplyBody, FailReply
    <3> QED BY <1>1, <1>4, <3>1, ThreadStep DEF ActiveIsAlive
  <2> QED BY <2>1, <2>2, <2>3
<1>5. CASE Main
  <2>1. CASE RunHandler
    <3>1. PICK c \in Connections : HandlerOf(c)
      BY <2>1, HandlerStep
    <3>2. /\ thread'[c] = "replying"
          /\ \A d \in Connections \ {c} : thread'[d] = thread[d]
      BY <1>1, <3>1 DEF HandlerOf
    <3> QED BY <1>1, <1>5, <3>2, MainStep DEF ActiveIsAlive
  <2>2. CASE thread' = thread
    BY <1>5, <2>2, MainStep DEF ActiveIsAlive
  <2> QED BY <1>5, <2>1, <2>2, MainStep
<1> QED BY <1>2, <1>3, <1>4, <1>5 DEF Next

-----------------------------------------------------------------------------
\* What is on the wires.

\* Whole frames, but for a header at the end.
Framed(w) ==
    \A i \in 1..Len(w) :
        /\ i % 2 = 1 => w[i][1] = "header"
        /\ i % 2 = 0 => w[i] = <<"body", w[i - 1][2]>>

LEMMA Parity ==
    ASSUME NEW n \in Nat
    PROVE  /\ n % 2 \in {0, 1}
           /\ n % 2 = 1 <=> (n + 1) % 2 = 0
           /\ n % 2 = 0 <=> (n + 1) % 2 = 1
           /\ n % 2 = (n + 2) % 2
PROOF
  OBVIOUS

LEMMA AppendChunk ==
    ASSUME NEW w \in Seq(Chunks), NEW chunk \in Chunks
    PROVE  /\ Len(Append(w, chunk)) = Len(w) + 1
           /\ Odd(Append(w, chunk)) <=> ~Odd(w)
           /\ EndsWith(Append(w, chunk), chunk)
PROOF
<1>1. /\ Len(w) \in Nat /\ Len(Append(w, chunk)) = Len(w) + 1
      /\ Append(w, chunk)[Len(w) + 1] = chunk
  OBVIOUS
<1>2. Append(w, chunk) # <<>>
  BY <1>1
<1>3. Odd(Append(w, chunk)) <=> ~Odd(w)
  BY <1>1, Parity DEF Odd
<1> QED BY <1>1, <1>2, <1>3 DEF EndsWith

LEMMA HeaderFramed ==
    ASSUME NEW w \in Seq(Chunks), Framed(w), ~Odd(w), NEW kind \in {"reply", "event"}
    PROVE  Framed(Append(w, <<"header", kind>>))
PROOF
<1> DEFINE chunk == <<"header", kind>>  a == Append(w, chunk)
<1>1. /\ Len(w) \in Nat /\ Len(a) = Len(w) + 1 /\ a[Len(w) + 1] = chunk
      /\ \A i \in 1..Len(w) : a[i] = w[i]
  OBVIOUS
<1>2. (Len(w) + 1) % 2 = 1
  BY <1>1, Parity DEF Odd
<1> HIDE DEF a
<1>3. ASSUME NEW i \in 1..Len(a)
      PROVE  (i % 2 = 1 => a[i][1] = "header") /\ (i % 2 = 0 => a[i] = <<"body", a[i - 1][2]>>)
  <2>1. CASE i = Len(w) + 1
    BY <1>1, <1>2, <2>1
  <2>2. CASE i \in 1..Len(w)
    <3>1. i % 2 = 0 => i - 1 \in 1..Len(w)
      BY <2>2, <1>1
    <3> QED BY <1>1, <2>2, <3>1 DEF Framed
  <2> QED BY <1>1, <2>1, <2>2
<1>4. Framed(a)
  BY <1>3 DEF Framed
<1> QED BY <1>4 DEF a

LEMMA BodyFramed ==
    ASSUME NEW w \in Seq(Chunks), Framed(w), Odd(w), NEW kind \in {"reply", "event"},
           EndsWith(w, <<"header", kind>>)
    PROVE  Framed(Append(w, <<"body", kind>>))
PROOF
<1> DEFINE chunk == <<"body", kind>>  a == Append(w, chunk)
<1>1. /\ Len(w) \in Nat /\ Len(a) = Len(w) + 1 /\ a[Len(w) + 1] = chunk
      /\ \A i \in 1..Len(w) : a[i] = w[i]
  OBVIOUS
<1>2. (Len(w) + 1) % 2 = 0
  BY <1>1, Parity DEF Odd
<1>3. Len(w) \in 1..Len(w) /\ w[Len(w)][2] = kind
  BY <1>1 DEF EndsWith
<1> HIDE DEF a
<1>4. ASSUME NEW i \in 1..Len(a)
      PROVE  (i % 2 = 1 => a[i][1] = "header") /\ (i % 2 = 0 => a[i] = <<"body", a[i - 1][2]>>)
  <2>1. CASE i = Len(w) + 1
    BY <1>1, <1>2, <1>3, <2>1
  <2>2. CASE i \in 1..Len(w)
    <3>1. i % 2 = 0 => i - 1 \in 1..Len(w)
      BY <2>2, <1>1
    <3> QED BY <1>1, <2>2, <3>1 DEF Framed
  <2> QED BY <1>1, <2>1, <2>2
<1>5. Framed(a)
  BY <1>4 DEF Framed
<1> QED BY <1>5 DEF a

LEMMA AfterTwo ==
    ASSUME NEW S, NEW w, NEW n \in Int, \A i \in 3..n : w[i] \in S
    PROVE  n >= 2 => Len(SubSeq(w, 3, n)) = n - 2
PROOF
<1>1. 3 \in Int
  OBVIOUS
<1>2. Len(SubSeq(w, 3, n)) = IF 3 <= n THEN n - 3 + 1 ELSE 0
  BY <1>1, SubSeqProperties
<1>3. CASE n >= 3
  <2>1. n - 3 + 1 = n - 2 /\ 3 <= n
    BY <1>3
  <2> QED BY <1>2, <2>1, Zenon
<1>4. CASE n = 2
  <2>1. n - 2 = 0 /\ ~(3 <= n)
    BY <1>4
  <2> QED BY <1>2, <2>1, Zenon
<1> QED BY <1>3, <1>4

\* A client that reads a header and as much after it leaves whole frames.
LEMMA ReceivedFramed ==
    ASSUME NEW w \in Seq(Chunks), Len(w) >= 2
    PROVE  LET rest == SubSeq(w, 3, Len(w))
           IN  /\ Len(rest) = Len(w) - 2
               /\ Odd(rest) <=> Odd(w)
               /\ \A chunk : Odd(w) /\ EndsWith(w, chunk) => EndsWith(rest, chunk)
               /\ Framed(w) => Framed(rest)
PROOF
<1> DEFINE rest == SubSeq(w, 3, Len(w))
<1>1. /\ Len(w) \in Nat /\ Len(rest) = Len(w) - 2
      /\ \A i \in 1..Len(rest) : rest[i] = w[i + 2]
  <2>1. Len(w) \in Nat /\ \A i \in 3..Len(w) : w[i] \in Chunks
    OBVIOUS
  <2>2. Len(w) \in Int
    BY <2>1
  <2>3. Len(rest) = Len(w) - 2
    BY <2>1, <2>2, AfterTwo, Zenon
  <2>4. \A i \in 1..(Len(w) - 2) : rest[i] = w[i + 2]
    OBVIOUS
  <2> HIDE DEF rest
  <2> QED BY <2>1, <2>3, <2>4
<1> HIDE DEF rest
<1>2. Odd(rest) <=> Odd(w)
  <2>1. Len(rest) \in Nat /\ Len(w) = Len(rest) + 2
    BY <1>1
  <2> QED BY <2>1, Parity DEF Odd
<1>3. ASSUME NEW chunk, Odd(w), EndsWith(w, chunk) PROVE EndsWith(rest, chunk)
  <2>1. Len(rest) # 0
    BY <1>1, <1>2, <1>3 DEF Odd
  <2>2. Len(rest) \in 1..Len(rest) /\ Len(rest) + 2 = Len(w)
    BY <1>1, <2>1
  <2>3. rest # <<>> /\ rest[Len(rest)] = w[Len(w)]
    <3>1. rest[Len(rest)] = w[Len(rest) + 2]
      BY <1>1, <2>2
    <3> QED BY <2>1, <2>2, <3>1
  <2> QED BY <1>3, <2>3 DEF EndsWith
<1>4. ASSUME Framed(w), NEW i \in 1..Len(rest)
      PROVE  (i % 2 = 1 => rest[i][1] = "header") /\ (i % 2 = 0 => rest[i] = <<"body", rest[i - 1][2]>>)
  <2>1. i \in Nat /\ i + 2 \in 1..Len(w) /\ rest[i] = w[i + 2] /\ (i + 2) % 2 = i % 2
    BY <1>1, Parity
  <2>2. i % 2 = 0 => i - 1 \in 1..Len(rest) /\ rest[i - 1] = w[i + 2 - 1]
    <3>0. i \in Nat /\ i <= Len(rest) /\ Len(rest) \in Nat /\ (i % 2 = 0 => i # 1) /\ i >= 1
      BY <1>1
    <3>1. i % 2 = 0 => i - 1 \in 1..Len(rest) /\ i - 1 + 2 = i + 2 - 1
      BY <3>0
    <3> QED BY <1>1, <3>1
  <2> QED BY <1>4, <2>1, <2>2 DEF Framed
<1>5. Framed(w) => Framed(rest)
  BY <1>4 DEF Framed
<1> QED BY <1>1, <1>2, <1>3, <1>5 DEF rest

-----------------------------------------------------------------------------
\* What a step does to what is on one socket.

\* Nobody starts or ends the body of a frame, or the socket takes no more.
Quiet(d) == \/ (AtReplyBody(d)' <=> AtReplyBody(d)) /\ (AtEventBody(d)' <=> AtEventBody(d))
            \/ WriteFails(d)'
NoBody(d) == ~AtReplyBody(d) /\ ~AtEventBody(d)
Takes(d, chunk) == Len(wire[d]) < WireCapacity /\ wire'[d] = Append(wire[d], chunk)

WireChange(d) ==
    \/ wire'[d] = wire[d] /\ Quiet(d)
    \/ wire'[d] = <<>> /\ WriteFails(d)'
    \/ Len(wire[d]) >= 2 /\ wire'[d] = SubSeq(wire[d], 3, Len(wire[d])) /\ Quiet(d)
    \/ /\ ~WriteFails(d) /\ NoBody(d)
       /\ \/ Takes(d, <<"header", "reply">>) /\ AtReplyBody(d)' /\ ~AtEventBody(d)'
          \/ Takes(d, <<"header", "event">>) /\ AtEventBody(d)' /\ ~AtReplyBody(d)'
    \/ /\ ~WriteFails(d) /\ NoBody(d)'
       /\ \/ AtReplyBody(d) /\ Takes(d, <<"body", "reply">>)
          \/ AtEventBody(d) /\ Takes(d, <<"body", "event">>)

LEMMA ClientWire ==
    ASSUME Types, NEW c \in Connections, Client(c), NEW d \in Connections
    PROVE  WireChange(d)
PROOF
<1>1. wire \in [Connections -> Seq(Chunks)] /\ client \in [Connections -> {"away", "connected", "gone"}]
  BY DEF Types
<1>2. (AtReplyBody(d)' <=> AtReplyBody(d)) /\ (AtEventBody(d)' <=> AtEventBody(d))
  BY ClientStep DEF AtReplyBody, AtEventBody
<1>3. CASE Connect(c) \/ Send(c)
  BY <1>2, <1>3 DEF Connect, Send, WireChange, Quiet
<1>4. CASE Receive(c)
  BY <1>1, <1>2, <1>4 DEF Receive, WireChange, Quiet
<1>5. CASE Disconnect(c)
  <2>1. CASE d = c
    <3>1. wire'[d] = <<>> /\ WriteFails(d)'
      BY <1>1, <1>5, <2>1 DEF Disconnect, WriteFails
    <3> QED BY <3>1 DEF WireChange
  <2>2. CASE d # c
    BY <1>1, <1>2, <1>5, <2>2 DEF Disconnect, WireChange, Quiet
  <2> QED BY <2>1, <2>2
<1> QED BY <1>3, <1>4, <1>5 DEF Client

\* What a writer takes a socket through, and what it leaves alone.
LEMMA WriteOne ==
    ASSUME Types, NEW c \in Connections, NEW chunk, Write(c, chunk), NEW d \in Connections
    PROVE  \/ wire'[d] = wire[d] /\ (d # c \/ WriteFails(d))
           \/ d = c /\ ~WriteFails(d) /\ Takes(d, chunk)
PROOF
  BY DEF Types, Write, WriteFails, Takes

LEMMA ThreadWire ==
    ASSUME Types, WritersHoldLock, NEW c \in Connections, ConnectionThread(c),
           NEW d \in Connections
    PROVE  WireChange(d)
PROOF
<1> USE ControlAssumption DEF server, accepting, messages, clients, Goto, LoopTop
<1>1. /\ thread \in [Connections -> Places]
      /\ activeConn \in Connections \union {None}
  BY DEF Types
<1>2. mt' = mt
  BY ThreadStep
<1>3. ASSUME wire' = wire, thread[c] # "body", thread'[c] # "body",
             activeConn' = activeConn \/ mt # "eventBody"
      PROVE  WireChange(d)
  <2>1. (AtReplyBody(d)' <=> AtReplyBody(d))
    BY <1>3, ThreadStep DEF AtReplyBody
  <2>2. (AtEventBody(d)' <=> AtEventBody(d))
    BY <1>2, <1>3 DEF AtEventBody
  <2> QED BY <1>3, <2>1, <2>2 DEF WireChange, Quiet
<1>4. lock # MessageThread => mt # "eventBody"
  BY DEF WritersHoldLock
<1>5. CASE Register(c)
  BY <1>1, <1>3, <1>4, <1>5 DEF Register
<1>6. CASE EndReading(c) \/ ReadHeader(c) \/ ReadBody(c) \/ LockReply(c)
  BY <1>1, <1>3, <1>6 DEF EndReading, ReadHeader, ReadBody, LockReply
<1>7. CASE Dispatch(c)
  BY <1>1, <1>3, <1>7 DEF Dispatch, CallOnMessageThread
<1>8. CASE Leave(c)
  BY <1>1, <1>3, <1>4, <1>8 DEF Leave
<1>9. CASE WriteReplyHeader(c)
  <2>1. /\ thread[c] = "header" /\ thread'[c] = "body" /\ closed' = closed /\ client' = client
        /\ activeConn' = activeConn /\ mt # "eventBody" /\ Write(c, <<"header", "reply">>)
    BY <1>1, <1>4, <1>9 DEF WriteReplyHeader, WritersHoldLock
  <2>2. WriteFails(d)' <=> WriteFails(d)
    BY <2>1 DEF WriteFails
  <2>3. ~AtEventBody(d) /\ ~AtEventBody(d)'
    BY <1>2, <2>1 DEF AtEventBody
  <2>4. d # c => (AtReplyBody(d)' <=> AtReplyBody(d))
    BY ThreadStep DEF AtReplyBody
  <2>5. d = c => ~AtReplyBody(d) /\ AtReplyBody(d)'
    BY <2>1 DEF AtReplyBody
  <2>6. CASE wire'[d] = wire[d] /\ (d # c \/ WriteFails(d))
    BY <2>2, <2>3, <2>4, <2>6 DEF WireChange, Quiet
  <2>7. CASE d = c /\ ~WriteFails(d) /\ Takes(d, <<"header", "reply">>)
    BY <2>3, <2>5, <2>7 DEF WireChange, NoBody
  <2> QED BY <2>1, <2>6, <2>7, WriteOne
<1>10. CASE WriteReplyBody(c)
  <2>1. /\ thread[c] = "body" /\ thread'[c] # "body" /\ closed' = closed /\ client' = client
        /\ activeConn' = activeConn /\ mt # "eventBody" /\ Write(c, <<"body", "reply">>)
    BY <1>1, <1>4, <1>10 DEF WriteReplyBody, WritersHoldLock
  <2>2. WriteFails(d)' <=> WriteFails(d)
    BY <2>1 DEF WriteFails
  <2>3. ~AtEventBody(d) /\ ~AtEventBody(d)'
    BY <1>2, <2>1 DEF AtEventBody
  <2>4. d # c => (AtReplyBody(d)' <=> AtReplyBody(d))
    BY ThreadStep DEF AtReplyBody
  <2>5. d = c => AtReplyBody(d) /\ ~AtReplyBody(d)'
    BY <2>1 DEF AtReplyBody
  <2>6. CASE wire'[d] = wire[d] /\ (d # c \/ WriteFails(d))
    BY <2>2, <2>3, <2>4, <2>6 DEF WireChange, Quiet
  <2>7. CASE d = c /\ ~WriteFails(d) /\ Takes(d, <<"body", "reply">>)
    BY <2>3, <2>5, <2>7 DEF WireChange, NoBody
  <2> QED BY <2>1, <2>6, <2>7, WriteOne
<1>11. CASE FailReply(c)
  <2>1. /\ wire' = wire /\ WriteFails(c)' /\ activeConn' = activeConn
    BY <1>11 DEF FailReply, WriteFails
  <2>2. d # c => (AtReplyBody(d)' <=> AtReplyBody(d))
    BY ThreadStep DEF AtReplyBody
  <2>3. (AtEventBody(d)' <=> AtEventBody(d))
    BY <1>2, <2>1 DEF AtEventBody
  <2> QED BY <2>1, <2>2, <2>3 DEF WireChange, Quiet
<1> QED BY <1>5, <1>6, <1>7, <1>8, <1>9, <1>10, <1>11 DEF ConnectionThread

LEMMA MainWire ==
    ASSUME Types, CallsWait, WritersHoldLock, Main, NEW d \in Connections
    PROVE  WireChange(d)
PROOF
<1> USE ControlAssumption DEF server, accepting, messages, clients
<1>1. /\ thread \in [Connections -> Places]
      /\ activeConn \in Connections \union {None} /\ activeConn' = activeConn
  BY MainStep DEF Types
<1>2. ASSUME wire' = wire, thread' = thread, mt # "eventBody", mt' # "eventBody"
      PROVE  WireChange(d)
  BY <1>1, <1>2 DEF WireChange, Quiet, AtReplyBody, AtEventBody
<1>3. CASE Start \/ StartOsc \/ LeaveLoop \/ ForwardLog
  BY <1>2, <1>3 DEF Start, StartOsc, LeaveLoop, ForwardLog
<1>4. CASE RunHandler
  <2>1. PICK c \in Connections : HandlerOf(c)
    BY <1>4, HandlerStep
  <2>2. (AtReplyBody(d)' <=> AtReplyBody(d))
    BY <1>1, <2>1 DEF HandlerOf, AtReplyBody
  <2>3. wire' = wire /\ (AtEventBody(d)' <=> AtEventBody(d))
    BY <1>1, <1>4 DEF RunHandler, AtEventBody
  <2> QED BY <2>2, <2>3 DEF WireChange, Quiet
<1>5. CASE Stopping
  BY <1>2, <1>5 DEF Stopping, Stop, CloseListener, CloseConnection, Join
<1>6. CASE LockEvent
  BY <1>2, <1>6 DEF LockEvent
<1>7. CASE WriteEventHeader \/ WriteEventBody \/ FailEvent
  <2>1. activeConn \in Connections /\ lock = MessageThread
    BY <1>1, <1>7 DEF WritersHoldLock, WriteEventHeader, WriteEventBody, FailEvent
  <2>2. thread[d] # "body" /\ thread' = thread /\ closed' = closed /\ client' = client
    BY <1>7, <2>1 DEF WritersHoldLock, WriteEventHeader, WriteEventBody, FailEvent
  <2>3. ~AtReplyBody(d) /\ ~AtReplyBody(d)' /\ (WriteFails(d)' <=> WriteFails(d))
    BY <2>2 DEF AtReplyBody, WriteFails
  <2>4. d # activeConn => ~AtEventBody(d) /\ ~AtEventBody(d)'
    BY <1>1 DEF AtEventBody
  <2>5. CASE WriteEventHeader
    <3>1. Write(activeConn, <<"header", "event">>) /\ mt = "eventHeader" /\ mt' = "eventBody"
      BY <2>5 DEF WriteEventHeader
    <3>2. d = activeConn => ~AtEventBody(d) /\ AtEventBody(d)'
      BY <1>1, <3>1 DEF AtEventBody
    <3>3. CASE wire'[d] = wire[d] /\ (d # activeConn \/ WriteFails(d))
      BY <2>3, <2>4, <3>3 DEF WireChange, Quiet
    <3>4. CASE d = activeConn /\ ~WriteFails(d) /\ Takes(d, <<"header", "event">>)
      BY <2>3, <3>2, <3>4 DEF WireChange, NoBody
    <3> QED BY <2>1, <3>1, <3>3, <3>4, WriteOne
  <2>6. CASE WriteEventBody
    <3>1. Write(activeConn, <<"body", "event">>) /\ mt = "eventBody" /\ mt' = "loop"
      BY <2>6 DEF WriteEventBody
    <3>2. d = activeConn => AtEventBody(d) /\ ~AtEventBody(d)'
      BY <1>1, <3>1 DEF AtEventBody
    <3>3. CASE wire'[d] = wire[d] /\ (d # activeConn \/ WriteFails(d))
      BY <2>3, <2>4, <3>3 DEF WireChange, Quiet
    <3>4. CASE d = activeConn /\ ~WriteFails(d) /\ Takes(d, <<"body", "event">>)
      BY <2>3, <3>2, <3>4 DEF WireChange, NoBody
    <3> QED BY <2>1, <3>1, <3>3, <3>4, WriteOne
  <2>7. CASE FailEvent
    <3>1. wire' = wire /\ WriteFails(activeConn)
      BY <2>7 DEF FailEvent
    <3> QED BY <2>3, <2>4, <3>1 DEF WireChange, Quiet
  <2> QED BY <1>7, <2>5, <2>6, <2>7
<1> QED BY <1>3, <1>4, <1>5, <1>6, <1>7 DEF Main, Events

LEMMA WireStep ==
    ASSUME Types, Arrivals, CallsWait, WritersHoldLock, Next, NEW d \in Connections
    PROVE  /\ WireChange(d)
           /\ WriteFails(d) => WriteFails(d)'
PROOF
<1> USE DEF server, accepting, messages, clients
<1>1. WireChange(d)
  <2>1. CASE Acceptor
    <3>1. wire' = wire /\ mt' = mt /\ activeConn' = activeConn
      BY <2>1 DEF Acceptor, Accept, EndAccepting, Supersede, Spawn
    <3>2. (AtEventBody(d)' <=> AtEventBody(d))
      BY <3>1 DEF AtEventBody
    <3>3. CASE Spawn
      <4>1. (AtReplyBody(d)' <=> AtReplyBody(d))
        BY <3>3, SpawnArrives DEF AtReplyBody
      <4> QED BY <3>1, <3>2, <4>1 DEF WireChange, Quiet
    <3>4. CASE ~Spawn
      <4>1. (AtReplyBody(d)' <=> AtReplyBody(d))
        BY <2>1, <3>4 DEF AtReplyBody, Acceptor, Accept, EndAccepting, Supersede
      <4> QED BY <3>1, <3>2, <4>1 DEF WireChange, Quiet
    <3> QED BY <3>3, <3>4
  <2> QED BY <2>1, ClientWire, ThreadWire, MainWire DEF Next
<1>2. closed \subseteq closed'
  <2>1. ASSUME NEW c \in Connections, Client(c) PROVE closed \subseteq closed'
    BY <2>1, ClientStep
  <2>2. CASE Acceptor
    BY <2>2 DEF Acceptor, Accept, EndAccepting, Supersede, Spawn, CloseActive
  <2>3. ASSUME NEW c \in Connections, ConnectionThread(c) PROVE closed \subseteq closed'
    BY <2>3 DEF ConnectionThread, Register, EndReading, ReadHeader, ReadBody, Dispatch,
       LockReply, WriteReplyHeader, WriteReplyBody, FailReply, Leave
  <2>4. CASE Main
    BY <2>4 DEF Main, Start, StartOsc, RunHandler, LeaveLoop, ForwardLog, Events,
       LockEvent, WriteEventHeader, WriteEventBody, FailEvent, Stopping, Stop,
       CloseListener, CloseConnection, CloseActive, Join
  <2> QED BY <2>1, <2>2, <2>3, <2>4 DEF Next
<1>3. client[d] = "gone" => client'[d] = "gone"
  <2>1. ASSUME NEW c \in Connections, Client(c), client[d] = "gone" PROVE client'[d] = "gone"
    BY <2>1 DEF Types, Client, Connect, Send, Receive, Disconnect
  <2>2. CASE Acceptor
    BY <2>2 DEF Acceptor, Accept, EndAccepting, Supersede, Spawn
  <2> QED BY <2>1, <2>2, ThreadStep, MainStep DEF Next
<1> QED BY <1>1, <1>2, <1>3 DEF WriteFails

-----------------------------------------------------------------------------
\* What a client has still to read, step by step.

LEMMA WireKept ==
    ASSUME Types, HalvesOwned, WiresFit, WholeFrames, NEW d \in Connections,
           WireChange(d), WriteFails(d) => WriteFails(d)'
    PROVE  /\ Framed(wire'[d]) /\ Len(wire'[d]) <= WireCapacity
           /\ ~WriteFails(d)' =>
                 /\ Odd(wire'[d]) => AtReplyBody(d)' \/ AtEventBody(d)'
                 /\ AtReplyBody(d)' => Odd(wire'[d]) /\ EndsWith(wire'[d], <<"header", "reply">>)
                 /\ AtEventBody(d)' => Odd(wire'[d]) /\ EndsWith(wire'[d], <<"header", "event">>)
PROOF
<1>1. /\ wire[d] \in Seq(Chunks) /\ Len(wire[d]) \in Nat /\ Len(wire[d]) <= WireCapacity
      /\ WireCapacity \in Nat /\ WireCapacity > 0
  BY ControlAssumption DEF Types, WiresFit
<1>2. Framed(wire[d])
  BY DEF WholeFrames, Framed
<1>3. /\ {"header", "body"} \X {"reply", "event"} = Chunks
      /\ <<"header", "reply">> \in Chunks /\ <<"header", "event">> \in Chunks
      /\ <<"body", "reply">> \in Chunks /\ <<"body", "event">> \in Chunks
  BY DEF Chunks
<1>4. ~WriteFails(d) =>
        /\ Odd(wire[d]) => AtReplyBody(d) \/ AtEventBody(d)
        /\ AtReplyBody(d) => Odd(wire[d]) /\ EndsWith(wire[d], <<"header", "reply">>)
        /\ AtEventBody(d) => Odd(wire[d]) /\ EndsWith(wire[d], <<"header", "event">>)
  BY DEF HalvesOwned
<1>5. CASE wire'[d] = wire[d] /\ Quiet(d)
  BY <1>1, <1>2, <1>4, <1>5 DEF Quiet
<1>6. CASE wire'[d] = <<>> /\ WriteFails(d)'
  BY <1>1, <1>6 DEF Framed
<1>7. CASE Len(wire[d]) >= 2 /\ wire'[d] = SubSeq(wire[d], 3, Len(wire[d])) /\ Quiet(d)
  <2>1. /\ Len(wire'[d]) = Len(wire[d]) - 2 /\ Framed(wire'[d])
        /\ Odd(wire'[d]) <=> Odd(wire[d])
        /\ \A chunk : Odd(wire[d]) /\ EndsWith(wire[d], chunk) => EndsWith(wire'[d], chunk)
    BY <1>1, <1>2, <1>7, ReceivedFramed
  <2>2. Len(wire'[d]) <= WireCapacity
    BY <1>1, <2>1
  <2> QED BY <1>4, <1>7, <2>1, <2>2 DEF Quiet
<1>8. ASSUME NEW kind \in {"reply", "event"}, ~WriteFails(d), NoBody(d),
             Takes(d, <<"header", kind>>)
      PROVE  /\ Framed(wire'[d]) /\ Len(wire'[d]) <= WireCapacity
             /\ Odd(wire'[d]) /\ EndsWith(wire'[d], <<"header", kind>>)
  <2>1. ~Odd(wire[d]) /\ <<"header", kind>> \in Chunks
    BY <1>3, <1>4, <1>8 DEF NoBody
  <2>2. Framed(wire'[d])
    BY <1>1, <1>2, <1>8, <2>1, HeaderFramed DEF Takes
  <2>3. /\ Len(wire'[d]) = Len(wire[d]) + 1 /\ Odd(wire'[d])
        /\ EndsWith(wire'[d], <<"header", kind>>)
    BY <1>1, <1>8, <2>1, AppendChunk DEF Takes
  <2> QED BY <1>1, <1>8, <2>2, <2>3 DEF Takes
<1>9. ASSUME NEW kind \in {"reply", "event"}, Odd(wire[d]),
             EndsWith(wire[d], <<"header", kind>>), Takes(d, <<"body", kind>>)
      PROVE  /\ Framed(wire'[d]) /\ Len(wire'[d]) <= WireCapacity /\ ~Odd(wire'[d])
  <2>1. <<"body", kind>> \in Chunks
    BY <1>3
  <2>2. Framed(wire'[d])
    BY <1>1, <1>2, <1>9, BodyFramed DEF Takes
  <2>3. Len(wire'[d]) = Len(wire[d]) + 1 /\ ~Odd(wire'[d])
    BY <1>1, <1>9, <2>1, AppendChunk DEF Takes
  <2> QED BY <1>1, <1>9, <2>2, <2>3 DEF Takes
<1>10. CASE /\ ~WriteFails(d) /\ NoBody(d)
            /\ Takes(d, <<"header", "reply">>) /\ AtReplyBody(d)' /\ ~AtEventBody(d)'
  BY <1>8, <1>10
<1>11. CASE /\ ~WriteFails(d) /\ NoBody(d)
            /\ Takes(d, <<"header", "event">>) /\ AtEventBody(d)' /\ ~AtReplyBody(d)'
  BY <1>8, <1>11
<1>12. CASE ~WriteFails(d) /\ NoBody(d)' /\ AtReplyBody(d) /\ Takes(d, <<"body", "reply">>)
  BY <1>4, <1>9, <1>12 DEF NoBody
<1>13. CASE ~WriteFails(d) /\ NoBody(d)' /\ AtEventBody(d) /\ Takes(d, <<"body", "event">>)
  BY <1>4, <1>9, <1>13 DEF NoBody
<1> QED BY <1>5, <1>6, <1>7, <1>10, <1>11, <1>12, <1>13 DEF WireChange

LEMMA WiresKept ==
    ASSUME IInv, Next
    PROVE  HalvesOwned' /\ WiresFit' /\ WholeFrames'
PROOF
<1>1. ASSUME NEW d \in Connections
      PROVE  /\ Framed(wire'[d]) /\ Len(wire'[d]) <= WireCapacity
             /\ ~WriteFails(d)' =>
                   /\ Odd(wire'[d]) => AtReplyBody(d)' \/ AtEventBody(d)'
                   /\ AtReplyBody(d)' => Odd(wire'[d]) /\ EndsWith(wire'[d], <<"header", "reply">>)
                   /\ AtEventBody(d)' => Odd(wire'[d]) /\ EndsWith(wire'[d], <<"header", "event">>)
  BY WireStep, WireKept DEF IInv
<1>2. WholeFrames'
  BY <1>1 DEF WholeFrames, Framed
<1> QED BY <1>1, <1>2 DEF HalvesOwned, WiresFit

-----------------------------------------------------------------------------
LEMMA InitIInv == Init => IInv
PROOF
<1> SUFFICES ASSUME Init PROVE IInv
  OBVIOUS
<1> USE ControlAssumption DEF Init
<1>1. Types
  <2>1. thread \in [Connections -> Places] /\ mt \in MainPlaces /\ scratch \in Requests
    BY DEF Places, MainPlaces, Requests
  <2>2. /\ sent \in [Connections -> 0..MaxRequests]
        /\ inbox \in [Connections -> 0..MaxRequests]
        /\ client \in [Connections -> {"away", "connected", "gone"}]
    OBVIOUS
  <2>3. /\ wire \in [Connections -> Seq(Chunks)]
        /\ queue \in Seq(Calls \union {Quit}) /\ backlog \in Seq(Connections)
    OBVIOUS
  <2>4. /\ listening \in BOOLEAN /\ quit \in BOOLEAN /\ running \in BOOLEAN
        /\ quitPosted \in BOOLEAN
    BY Zenon
  <2>5. /\ acceptor \in {"none", "waiting", "superseding", "spawning", "ended"}
        /\ accepted \in Connections \union {None} /\ closed \subseteq Connections
        /\ activeConn \in Connections \union {None}
        /\ lock \in Connections \union {None, MessageThread}
    BY Zenon
  <2>6. events \in 0..MaxEvents
    OBVIOUS
  <2> QED BY <2>1, <2>2, <2>3, <2>4, <2>5, <2>6, Zenon DEF Types
<1>2. Inboxes /\ Arrivals /\ CallsWait
  BY DEF Inboxes, Arrivals, CallsWait
<1>3. QueueBounded
  <2>1. Len(queue) = 0 /\ quitPosted = FALSE
    OBVIOUS
  <2> QED BY <2>1, WaitingFinite DEF QueueBounded
<1>4. WritersHoldLock /\ ActiveIsAlive
  BY DEF WritersHoldLock, ActiveIsAlive
<1>5. \A c \in Connections : wire[c] = <<>> /\ Len(wire[c]) = 0 /\ ~Odd(wire[c])
  <2>1. 0 % 2 = 0
    OBVIOUS
  <2> QED BY <2>1 DEF Odd
<1>6. HalvesOwned
  BY <1>5 DEF HalvesOwned, AtReplyBody, AtEventBody
<1>7. WiresFit /\ WholeFrames
  BY <1>5 DEF WiresFit, WholeFrames
<1> QED BY <1>1, <1>2, <1>3, <1>4, <1>6, <1>7 DEF IInv

LEMMA NextIInv == IInv /\ [Next]_vars => IInv'
PROOF
<1> SUFFICES ASSUME IInv, [Next]_vars PROVE IInv'
  OBVIOUS
<1>1. CASE Next
  <2>1. Types'
    BY <1>1, ClientTypes, AcceptorTypes, ThreadTypes, MainTypes DEF IInv, Next
  <2>2. Inboxes' /\ Arrivals' /\ CallsWait'
    BY <1>1, InboxesKept, ArrivalsKept, CallsWaitKept DEF IInv
  <2>3. QueueBounded' /\ WritersHoldLock' /\ ActiveIsAlive'
    BY <1>1, QueueBoundedKept, WritersHoldLockKept, ActiveIsAliveKept DEF IInv
  <2> QED BY <1>1, <2>1, <2>2, <2>3, WiresKept DEF IInv
<1>2. CASE UNCHANGED vars
  <2> USE <1>2 DEF vars, server, accepting, messages, clients
  <2>0. Types' /\ Types
    BY DEF IInv, Types
  <2>1. Types' /\ Inboxes'
    BY <2>0 DEF IInv, Inboxes
  <2>2. Arrivals' /\ CallsWait'
    BY DEF IInv, Arrivals, CallsWait
  <2>3. QueueBounded' /\ WritersHoldLock' /\ ActiveIsAlive'
    BY DEF IInv, QueueBounded, Waiting, WritersHoldLock, ActiveIsAlive
  <2>4. HalvesOwned' /\ WiresFit' /\ WholeFrames'
    BY DEF IInv, HalvesOwned, WriteFails, AtReplyBody, AtEventBody, WiresFit, WholeFrames
  <2> QED BY <2>1, <2>2, <2>3, <2>4 DEF IInv
<1> QED BY <1>1, <1>2

LEMMA Invariance == Spec => []IInv
PROOF
  BY InitIInv, NextIInv, PTL DEF Spec

\* Every variable keeps its type; the message thread has at most one call to
\* run for each thread that waits in dispatchRequest, and the end of the loop;
\* no writer overruns a socket.
THEOREM ControlTypeCorrect == Spec => []TypeOK
PROOF
<1>1. IInv => TypeOK
  <2> SUFFICES ASSUME IInv PROVE TypeOK
    OBVIOUS
  <2>1. Types /\ WiresFit /\ QueueBounded
    BY DEF IInv
  <2>2. Len(queue) <= Cardinality(Waiting) + 1
    <3>1. Len(queue) \in Nat
      BY <2>1 DEF Types
    <3> QED BY <2>1, <3>1, WaitingFinite DEF QueueBounded
  <2> QED BY <2>1, <2>2 DEF Types, WiresFit, Waiting, TypeOK
<1> QED BY <1>1, Invariance, PTL

\* Replies of connection threads and events of the message thread never mix on
\* a socket, however many connections there are, however much is sent, and
\* also when a client goes or a connection is superseded in mid-frame.
THEOREM FramesStayWhole == Spec => []WholeFrames
PROOF
<1>1. IInv => WholeFrames
  BY DEF IInv
<1> QED BY <1>1, Invariance, PTL

\* activeConn never dangles.
THEOREM ActiveStaysAlive == Spec => []ActiveIsAlive
PROOF
<1>1. IInv => ActiveIsAlive
  BY DEF IInv
<1> QED BY <1>1, Invariance, PTL

\* A superseded connection that ends late leaves its successor registered.
THEOREM LateEndsLeaveSuccessor == Spec => OnlyOwnEndClears
PROOF
<1>1. IInv /\ [Next]_vars
        => [activeConn # None /\ activeConn' = None
              => thread[activeConn] = "leaving" /\ thread'[activeConn] = "ended"]_vars
  BY OwnEndClears DEF IInv
<1> QED BY <1>1, Invariance, PTL DEF Spec, OnlyOwnEndClears
=============================================================================
