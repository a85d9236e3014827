---------------------------- MODULE ControlServer ----------------------------
(***************************************************************************)
(* The control server: an acceptor, a detached thread per connection, the  *)
(* message thread, which runs every op and sends events, and the clients.  *)
(*                                                                         *)
(* A frame is a header and a body, two writes on a socket that takes       *)
(* WireCapacity chunks before it blocks the writer.  A connection has one  *)
(* socket, so Connections names the sockets, the threads and the clients.  *)
(* connMutex is taken by name; a section under it that does no I/O is one  *)
(* step.  What a frame asks for is chosen when its last byte is read into  *)
(* the buffer that all connection threads share; it is parsed from there   *)
(* later, when another thread may have read over it.                       *)
(***************************************************************************)
EXTENDS Integers, Sequences, FiniteSets

CONSTANTS Connections, None,
          MaxRequests,   \* bound: frames a client sends
          MaxEvents,     \* bound: events the message thread sends
          WireCapacity   \* chunks a client may leave unread

MessageThread == "messageThread"

\* The threads that take connMutex are told apart by name.
ASSUME ControlAssumption ==
    /\ IsFiniteSet(Connections)
    /\ None \notin Connections
    /\ MessageThread \notin Connections \union {None}
    /\ MaxRequests \in Nat /\ MaxEvents \in Nat
    /\ WireCapacity \in Nat \ {0, 1}

\* What a frame asks for: an op, the shutdown op, or something that is no
\* request or names no op.
Ops == {"op", "shutdown"}
Requests == Ops \union {"invalid"}
Quit == [conn |-> None, op |-> "quitMessage"]

VARIABLES
    listening, quit, running,
    acceptor, accepted,    \* where the acceptor is, and conn
    thread,                \* where each connection thread is
    closed,                \* sockets closed at this end
    activeConn, lock,      \* connMutex's holder
    scratch,               \* readScratch
    queue, quitPosted,     \* the message thread's queue
    mt, events,            \* where the message thread is; events sent so far
    client, sent,          \* each client, and how many frames it sent
    backlog, inbox, wire   \* connects, frames to the host, chunks to the client

server == <<listening, quit, running>>
accepting == <<acceptor, accepted>>
messages == <<queue, quitPosted, mt, events>>
clients == <<client, sent>>
vars == <<server, accepting, thread, closed, activeConn, lock, scratch,
          messages, clients, backlog, inbox, wire>>

Init ==
    /\ listening = FALSE /\ quit = FALSE /\ running = FALSE
    /\ acceptor = "none" /\ accepted = None
    /\ thread = [c \in Connections |-> "none"]
    /\ closed = {}
    /\ activeConn = None /\ lock = None
    /\ scratch = "invalid"
    /\ queue = <<>> /\ quitPosted = FALSE
    /\ mt = "init" /\ events = 0
    /\ client = [c \in Connections |-> "away"]
    /\ sent = [c \in Connections |-> 0]
    /\ backlog = <<>>
    /\ inbox = [c \in Connections |-> 0]
    /\ wire = [c \in Connections |-> <<>>]

Goto(c, place) == thread' = [thread EXCEPT ![c] = place]

-----------------------------------------------------------------------------
\* Clients.

Connect(c) ==
    /\ client[c] = "away" /\ listening
    /\ client' = [client EXCEPT ![c] = "connected"]
    /\ backlog' = Append(backlog, c)
    /\ UNCHANGED <<server, accepting, thread, closed, activeConn, lock, scratch,
                   messages, sent, inbox, wire>>

Send(c) ==
    /\ client[c] = "connected" /\ sent[c] < MaxRequests
    /\ inbox' = [inbox EXCEPT ![c] = @ + 1]
    /\ sent' = [sent EXCEPT ![c] = @ + 1]
    /\ UNCHANGED <<server, accepting, thread, closed, activeConn, lock, scratch,
                   messages, client, backlog, wire>>

\* A client reads a header and as much after it.
Receive(c) ==
    /\ client[c] = "connected" /\ Len(wire[c]) >= 2
    /\ wire' = [wire EXCEPT ![c] = SubSeq(@, 3, Len(@))]
    /\ UNCHANGED <<server, accepting, thread, closed, activeConn, lock, scratch,
                   messages, clients, backlog, inbox>>

Disconnect(c) ==
    /\ client[c] = "connected"
    /\ client' = [client EXCEPT ![c] = "gone"]
    /\ wire' = [wire EXCEPT ![c] = <<>>]
    /\ UNCHANGED <<server, accepting, thread, closed, activeConn, lock, scratch,
                   messages, sent, backlog, inbox>>

-----------------------------------------------------------------------------
\* The acceptor.

Accept ==
    /\ acceptor = "waiting" /\ listening /\ backlog # <<>>
    /\ accepted' = Head(backlog)
    /\ backlog' = Tail(backlog)
    /\ acceptor' = "superseding"
    /\ UNCHANGED <<server, thread, closed, activeConn, lock, scratch, messages,
                   clients, inbox, wire>>

\* close() interrupts the wait, which then returns no connection.
EndAccepting ==
    /\ acceptor = "waiting" /\ ~listening
    /\ acceptor' = "ended"
    /\ UNCHANGED <<server, accepted, thread, closed, activeConn, lock, scratch,
                   messages, clients, backlog, inbox, wire>>

CloseActive ==
    /\ lock = None
    /\ closed' = closed \union ({activeConn} \ {None})

Supersede ==
    /\ acceptor = "superseding"
    /\ CloseActive
    /\ acceptor' = "spawning"
    /\ UNCHANGED <<server, accepted, thread, activeConn, lock, scratch, messages,
                   clients, backlog, inbox, wire>>

Spawn ==
    /\ acceptor = "spawning"
    /\ Goto(accepted, "starting")
    /\ accepted' = None
    /\ acceptor' = IF quit THEN "ended" ELSE "waiting"
    /\ UNCHANGED <<server, closed, activeConn, lock, scratch, messages, clients,
                   backlog, inbox, wire>>

-----------------------------------------------------------------------------
\* A connection thread.

LoopTop == IF quit THEN "leaving" ELSE "reading"

Register(c) ==
    /\ thread[c] = "starting" /\ lock = None
    /\ activeConn' = c
    /\ Goto(c, LoopTop)
    /\ UNCHANGED <<server, accepting, closed, lock, scratch, messages, clients,
                   backlog, inbox, wire>>

\* A closed socket reads nothing more; one whose client has gone reads what
\* came before.
ReadFails(c) == c \in closed \/ (client[c] = "gone" /\ inbox[c] = 0)

\* Mutant: a failed read does not end the loop.
EndReadingNever(c) ==
    /\ thread[c] = "reading" /\ ReadFails(c)
    /\ Goto(c, LoopTop)
    /\ UNCHANGED <<server, accepting, closed, activeConn, lock, scratch, messages,
                   clients, backlog, inbox, wire>>

EndReading(c) ==
    /\ thread[c] = "reading" /\ ReadFails(c)
    /\ Goto(c, "leaving")
    /\ UNCHANGED <<server, accepting, closed, activeConn, lock, scratch, messages,
                   clients, backlog, inbox, wire>>

\* A header of no length or of too much is refused.
ReadHeader(c) ==
    /\ thread[c] = "reading" /\ ~ReadFails(c) /\ inbox[c] > 0
    /\ thread' \in {[thread EXCEPT ![c] = place] : place \in {"filling", "leaving"}}
    /\ UNCHANGED <<server, accepting, closed, activeConn, lock, scratch, messages,
                   clients, backlog, inbox, wire>>

\* The bytes go where another thread may be reading or parsing too; they end
\* early if the client leaves in the middle of the frame.
ReadBody(c) ==
    /\ thread[c] = "filling"
    /\ \/ /\ c \notin closed
          /\ Goto(c, "parsing")
          /\ scratch' \in Requests
          /\ inbox' = [inbox EXCEPT ![c] = @ - 1]
       \/ /\ c \in closed \/ client[c] = "gone"
          /\ Goto(c, "leaving")
          /\ scratch' \in {scratch, "invalid"}
          /\ UNCHANGED inbox
    /\ UNCHANGED <<server, accepting, closed, activeConn, lock, messages, clients,
                   backlog, wire>>

\* Mutant: the op is posted and not waited for.
PostToMessageThread(c, op) ==
    /\ Goto(c, "replying")
    /\ queue' = IF quitPosted THEN queue ELSE Append(queue, [conn |-> c, op |-> op])

\* callFunctionOnMessageThread waits until its function has run; once the
\* dispatch loop is told to quit it posts nothing and returns.
CallOnMessageThread(c, op) ==
    IF quitPosted
    THEN /\ Goto(c, "replying")
         /\ UNCHANGED queue
    ELSE /\ Goto(c, "calling")
         /\ queue' = Append(queue, [conn |-> c, op |-> op])

\* The request is parsed from the shared buffer; half of another thread's frame
\* is none.
Parsed(c) == {scratch} \union {"invalid" : d \in {e \in Connections : thread[e] = "filling"}}

\* Mutant: connMutex is held from the dispatch to the end of the reply.
DispatchLocked(c) ==
    /\ thread[c] = "parsing" /\ lock = None
    /\ \E op \in Parsed(c) :
        IF op \in Ops
        THEN CallOnMessageThread(c, op) /\ lock' = c
        ELSE Goto(c, "replying") /\ UNCHANGED <<queue, lock>>
    /\ UNCHANGED <<server, accepting, closed, activeConn, scratch, quitPosted,
                   mt, events, clients, backlog, inbox, wire>>

Dispatch(c) ==
    /\ thread[c] = "parsing"
    /\ \E op \in Parsed(c) :
        IF op \in Ops
        THEN CallOnMessageThread(c, op)
        ELSE Goto(c, "replying") /\ UNCHANGED queue
    /\ UNCHANGED <<server, accepting, closed, activeConn, lock, scratch, quitPosted,
                   mt, events, clients, backlog, inbox, wire>>

\* Mutant: the reply is written without the lock.
LockReplyNot(c) ==
    /\ thread[c] = "replying"
    /\ Goto(c, "header")
    /\ UNCHANGED <<server, accepting, closed, activeConn, lock, scratch, messages,
                   clients, backlog, inbox, wire>>

\* connMutex is re-entrant.
LockReply(c) ==
    /\ thread[c] = "replying" /\ lock \in {None, c}
    /\ lock' = c
    /\ Goto(c, "header")
    /\ UNCHANGED <<server, accepting, closed, activeConn, scratch, messages,
                   clients, backlog, inbox, wire>>

\* A write to a closed socket fails, one to a client that has gone may.  A
\* write to a client that is there waits for room.
WriteFails(c) == c \in closed \/ client[c] = "gone"
Write(c, chunk) ==
    \/ /\ client[c] = "gone" /\ c \notin closed
       /\ UNCHANGED wire
    \/ /\ ~WriteFails(c) /\ Len(wire[c]) < WireCapacity
       /\ wire' = [wire EXCEPT ![c] = Append(@, chunk)]

WriteReplyHeader(c) ==
    /\ thread[c] = "header"
    /\ Write(c, <<"header", "reply">>)
    /\ Goto(c, "body")
    /\ UNCHANGED <<server, accepting, closed, activeConn, lock, scratch, messages,
                   clients, backlog, inbox>>

WriteReplyBody(c) ==
    /\ thread[c] = "body"
    /\ Write(c, <<"body", "reply">>)
    /\ lock' = None
    /\ Goto(c, LoopTop)
    /\ UNCHANGED <<server, accepting, closed, activeConn, scratch, messages,
                   clients, backlog, inbox>>

FailReply(c) ==
    /\ thread[c] \in {"header", "body"} /\ WriteFails(c)
    /\ lock' = None
    /\ Goto(c, "leaving")
    /\ UNCHANGED <<server, accepting, closed, activeConn, scratch, messages,
                   clients, backlog, inbox, wire>>

\* Mutants: the pointer is left to dangle; it is cleared whosever it is.
ActiveAfterLeft(c) == activeConn
ActiveAfterCleared(c) == None

ActiveAfter(c) == IF activeConn = c THEN None ELSE activeConn

\* The last use of conn; its socket is closed and freed when the thread ends.
Leave(c) ==
    /\ thread[c] = "leaving" /\ lock = None
    /\ activeConn' = ActiveAfter(c)
    /\ closed' = closed \union {c}
    /\ Goto(c, "ended")
    /\ inbox' = [inbox EXCEPT ![c] = 0]
    /\ UNCHANGED <<server, accepting, lock, scratch, messages, clients, backlog, wire>>

-----------------------------------------------------------------------------
\* The message thread: App::init from controlServer.start() on, the dispatch
\* loop with its ops and its log timer, and App::shutdown's stop().

Start ==
    /\ mt = "init"
    /\ \/ /\ mt' = "failed"                       \* the port is taken
          /\ UNCHANGED <<server, acceptor>>
       \/ /\ listening' = TRUE /\ quit' = FALSE /\ running' = TRUE
          /\ acceptor' = "waiting"
          /\ mt' = "startingOsc"
    /\ UNCHANGED <<accepted, thread, closed, activeConn, lock, scratch, queue,
                   quitPosted, events, clients, backlog, inbox, wire>>

StartOsc ==
    /\ mt = "startingOsc"
    /\ mt' \in {"loop", "stop"}
    /\ UNCHANGED <<server, accepting, thread, closed, activeConn, lock, scratch,
                   queue, quitPosted, events, clients, backlog, inbox, wire>>

RunHandler ==
    /\ mt = "loop" /\ queue # <<>> /\ Head(queue) # Quit
    /\ Goto(Head(queue).conn, "replying")
    /\ IF Head(queue).op = "shutdown" /\ ~quitPosted
       THEN queue' = Append(Tail(queue), Quit) /\ quitPosted' = TRUE
       ELSE queue' = Tail(queue) /\ UNCHANGED quitPosted
    /\ UNCHANGED <<server, accepting, closed, activeConn, lock, scratch, mt, events,
                   clients, backlog, inbox, wire>>

LeaveLoop ==
    /\ mt = "loop" /\ queue # <<>> /\ Head(queue) = Quit
    /\ queue' = Tail(queue)
    /\ mt' = "stop"
    /\ UNCHANGED <<server, accepting, thread, closed, activeConn, lock, scratch,
                   quitPosted, events, clients, backlog, inbox, wire>>

\* The timer drains a line and forwards it: the message thread now waits for
\* the lock.
ForwardLog ==
    /\ mt = "loop" /\ events < MaxEvents
    /\ events' = events + 1
    /\ mt' = "event"
    /\ UNCHANGED <<server, accepting, thread, closed, activeConn, lock, scratch,
                   queue, quitPosted, clients, backlog, inbox, wire>>

LockEvent ==
    /\ mt = "event" /\ lock = None
    /\ IF activeConn = None
       THEN mt' = "loop" /\ UNCHANGED lock
       ELSE mt' = "eventHeader" /\ lock' = MessageThread
    /\ UNCHANGED <<server, accepting, thread, closed, activeConn, scratch, queue,
                   quitPosted, events, clients, backlog, inbox, wire>>

WriteEventHeader ==
    /\ mt = "eventHeader"
    /\ Write(activeConn, <<"header", "event">>)
    /\ mt' = "eventBody"
    /\ UNCHANGED <<server, accepting, thread, closed, activeConn, lock, scratch,
                   queue, quitPosted, events, clients, backlog, inbox>>

WriteEventBody ==
    /\ mt = "eventBody"
    /\ Write(activeConn, <<"body", "event">>)
    /\ lock' = None
    /\ mt' = "loop"
    /\ UNCHANGED <<server, accepting, thread, closed, activeConn, scratch,
                   queue, quitPosted, events, clients, backlog, inbox>>

FailEvent ==
    /\ mt \in {"eventHeader", "eventBody"} /\ WriteFails(activeConn)
    /\ lock' = None
    /\ mt' = "loop"
    /\ UNCHANGED <<server, accepting, thread, closed, activeConn, scratch,
                   queue, quitPosted, events, clients, backlog, inbox, wire>>

Stop ==
    /\ mt = "stop"
    /\ quit' = TRUE
    /\ mt' = "closingListener"
    /\ UNCHANGED <<listening, running, accepting, thread, closed, activeConn, lock,
                   scratch, queue, quitPosted, events, clients, backlog, inbox, wire>>

\* Mutant: only quit is set, and the acceptor is left in its wait.
CloseListenerNot ==
    /\ mt = "closingListener"
    /\ mt' = "closingConnection"
    /\ UNCHANGED <<server, accepting, thread, closed, activeConn, lock,
                   scratch, queue, quitPosted, events, clients, backlog, inbox, wire>>

CloseListener ==
    /\ mt = "closingListener"
    /\ listening' = FALSE
    /\ mt' = "closingConnection"
    /\ UNCHANGED <<quit, running, accepting, thread, closed, activeConn, lock,
                   scratch, queue, quitPosted, events, clients, backlog, inbox, wire>>

CloseConnection ==
    /\ mt = "closingConnection"
    /\ CloseActive
    /\ mt' = "joining"
    /\ UNCHANGED <<server, accepting, thread, activeConn, lock, scratch, queue,
                   quitPosted, events, clients, backlog, inbox, wire>>

Join ==
    /\ mt = "joining" /\ acceptor = "ended"
    /\ running' = FALSE
    /\ mt' = "stopped"
    /\ UNCHANGED <<listening, quit, accepting, thread, closed, activeConn, lock,
                   scratch, queue, quitPosted, events, clients, backlog, inbox, wire>>

-----------------------------------------------------------------------------
Client(c) == Connect(c) \/ Send(c) \/ Receive(c) \/ Disconnect(c)

Acceptor == Accept \/ EndAccepting \/ Supersede \/ Spawn

ConnectionThread(c) ==
    \/ Register(c) \/ EndReading(c) \/ ReadHeader(c) \/ ReadBody(c) \/ Dispatch(c)
    \/ LockReply(c) \/ WriteReplyHeader(c) \/ WriteReplyBody(c) \/ FailReply(c)
    \/ Leave(c)

Events == LockEvent \/ WriteEventHeader \/ WriteEventBody \/ FailEvent
Stopping == Stop \/ CloseListener \/ CloseConnection \/ Join

Main == Start \/ StartOsc \/ RunHandler \/ LeaveLoop \/ ForwardLog \/ Events \/ Stopping

Next == Acceptor \/ Main \/ \E c \in Connections : Client(c) \/ ConnectionThread(c)

Spec == Init /\ [][Next]_vars

\* Every thread of the host runs while it can, and a connected client reads
\* what it is sent.  Clients need not connect, ask or leave.
Fairness ==
    /\ WF_vars(Acceptor)
    /\ WF_vars(Main)
    /\ WF_vars(RunHandler \/ LeaveLoop)
    /\ \A c \in Connections : WF_vars(ConnectionThread(c)) /\ WF_vars(Receive(c))

FairSpec == Spec /\ Fairness

-----------------------------------------------------------------------------
Places == {"none", "starting", "reading", "filling", "parsing", "calling",
           "replying", "header", "body", "leaving", "ended"}
MainPlaces == {"init", "failed", "startingOsc", "loop", "event", "eventHeader",
               "eventBody", "stop", "closingListener", "closingConnection",
               "joining", "stopped"}
Chunks == {"header", "body"} \X {"reply", "event"}
Calls == [conn : Connections, op : Ops]

\* The type of every variable; the queue holds at most one call per waiting
\* thread and the message that ends the loop.
TypeOK ==
    /\ listening \in BOOLEAN /\ quit \in BOOLEAN /\ running \in BOOLEAN
    /\ acceptor \in {"none", "waiting", "superseding", "spawning", "ended"}
    /\ accepted \in Connections \union {None}
    /\ thread \in [Connections -> Places]
    /\ closed \subseteq Connections
    /\ activeConn \in Connections \union {None}
    /\ lock \in Connections \union {None, MessageThread}
    /\ scratch \in Requests
    /\ queue \in Seq(Calls \union {Quit}) /\ quitPosted \in BOOLEAN
    /\ Len(queue) <= Cardinality({c \in Connections : thread[c] = "calling"}) + 1
    /\ mt \in MainPlaces /\ events \in 0..MaxEvents
    /\ client \in [Connections -> {"away", "connected", "gone"}]
    /\ sent \in [Connections -> 0..MaxRequests]
    /\ backlog \in Seq(Connections)
    /\ inbox \in [Connections -> 0..MaxRequests]
    /\ wire \in [Connections -> Seq(Chunks)]
    /\ \A c \in Connections : Len(wire[c]) <= WireCapacity

\* What a client has still to read is whole frames, but for one being written:
\* no header of a reply meets the body of an event (the invariant stated at
\* connMutex in ControlServer.h).  Writers are the connection's own thread and
\* the message thread.
WholeFrames ==
    \A c \in Connections : \A i \in 1..Len(wire[c]) :
        /\ i % 2 = 1 => wire[c][i][1] = "header"
        /\ i % 2 = 0 => wire[c][i] = <<"body", wire[c][i - 1][2]>>

\* activeConn, which the acceptor closes and events are written to, is a
\* socket whose thread still owns it: the pointer never dangles.
ActiveIsAlive ==
    activeConn # None => thread[activeConn] \notin {"none", "starting", "ended"}

\* A superseded connection that ends late does not take the events from its
\* successor: activeConn is cleared only by the thread it belongs to.
OnlyOwnEndClears ==
    [][activeConn # None /\ activeConn' = None
        => thread[activeConn] = "leaving" /\ thread'[activeConn] = "ended"]_vars

Serving == mt \in {"loop", "event", "eventHeader", "eventBody"}

\* A frame that was read is answered, or its connection ends, while the host
\* serves: a thread that waits for the message thread holds nothing that the
\* message thread waits for.
CallsReturn ==
    \A c \in Connections :
        thread[c] \in {"parsing", "calling", "replying", "header", "body"}
            ~> thread[c] \in {"reading", "leaving", "ended"} \/ ~Serving

\* stop() comes back: the acceptor it joins is not left in its wait or behind
\* a lock that is never released.
StopReturns == mt = "stop" ~> mt = "stopped"

\* A connection that has been superseded, or closed by stop(), lets its thread
\* and its socket go, whatever it was doing, unless the host ends first.
ClosedEnds ==
    \A c \in Connections : c \in closed ~> thread[c] = "ended" \/ ~Serving

\* "Single persistent connection.  New connections supersede the old one"
\* (ControlServer.h): two threads never both serve an open connection.
SingleConnection ==
    \A c, d \in Connections :
        (/\ {thread[c], thread[d]} \subseteq
                {"reading", "filling", "parsing", "calling", "replying", "header", "body"}
         /\ c \notin closed /\ d \notin closed) => c = d

=============================================================================
