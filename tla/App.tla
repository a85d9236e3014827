--------------------------------- MODULE App ---------------------------------
(***************************************************************************)
(* The life of the host: App::init, which may fail at each step, the       *)
(* dispatch loop, App::shutdown, and the destruction of App's members,     *)
(* while the audio callback, the OSC worker, the acceptor and the timer    *)
(* run.  Whatever way the process ends, what calls a component has to end  *)
(* before the component does.                                              *)
(***************************************************************************)
EXTENDS OscServer

CONSTANT MaxSections    \* bound: locked sections connection threads enter
                        \* once the control server has been told to stop

ASSUME AppAssumption == MaxSections \in Nat

\* What dies with App, in the order it is declared and constructed; the graph
\* and the reader thread are DawGraph's.
Members == <<"deviceManager", "dawPlayer", "scanner", "graph", "readerThread",
             "windowManager", "oscServer", "controlServer", "drainTimer">>

VARIABLES
    stage,        \* where the message thread is
    ready,        \* init returned true
    alive,        \* how many of Members still stand
    attached,     \* the device calls the player, and the player the graph
    forwarder,    \* the logger calls the control server
    listening,    \* the control server's listener is open, and quit not set
    acceptor,     \* where the control server's acceptor is
    connected,    \* a client has been accepted: there are connection threads
    connMutex,    \* a connection thread holds the lock
    sections,     \* how often one took it since the listener was closed
    ticking,      \* the drain timer runs
    windows,      \* some slot has a window, shown or hidden
    players,      \* some file player reads ahead
    reading       \* the reader thread runs

control == <<listening, acceptor, connected, connMutex, sections>>
services == <<attached, forwarder, control, ticking>>
loaded == <<windows, players, reading>>
appVars == <<stage, ready, alive, services, loaded>>
vars == <<oscVars, appVars>>

Init ==
    /\ OscInit
    /\ stage = "device" /\ ready = FALSE
    /\ alive = Len(Members)
    /\ attached = FALSE /\ forwarder = FALSE /\ ticking = FALSE
    /\ listening = FALSE /\ acceptor = "none"
    /\ connected = FALSE /\ connMutex = FALSE /\ sections = 0
    /\ windows = FALSE /\ players = FALSE /\ reading = FALSE

Goto(from, to) == stage = from /\ stage' = to

-----------------------------------------------------------------------------
\* App::init.

\* There may be no device, or none that opens.
OpenDevice ==
    /\ Goto("device", "graph") \/ Goto("device", "destroy")
    /\ UNCHANGED <<oscVars, ready, alive, services, loaded>>

AddAudioCallback ==
    /\ Goto("graph", "startControl")
    /\ attached' = TRUE
    /\ UNCHANGED <<oscVars, ready, alive, forwarder, control, ticking, loaded>>

StartControl ==
    /\ \/ Goto("startControl", "startOsc") /\ listening' = TRUE /\ acceptor' = "waiting"
       \/ Goto("startControl", "destroy") /\ UNCHANGED <<listening, acceptor>>
    /\ UNCHANGED <<oscVars, ready, alive, attached, forwarder, connected, connMutex,
                   sections, ticking, loaded>>

\* When the port is taken the control server is stopped, and nothing else.
StartOsc ==
    /\ \/ Goto("startOsc", "startTimer") /\ OscStarts
       \/ Goto("startOsc", "stopControl") /\ UNCHANGED oscVars
    /\ UNCHANGED <<ready, alive, services, loaded>>

StartTimer ==
    /\ Goto("startTimer", "loop")
    /\ forwarder' = TRUE /\ ticking' = TRUE /\ ready' = TRUE
    /\ UNCHANGED <<oscVars, alive, attached, control, loaded>>

-----------------------------------------------------------------------------
\* The control server's other threads (module ControlServer has them whole), as
\* far as its stop() waits for them.

\* A client is there; whoever was before it is superseded under the lock.
Accept ==
    /\ acceptor = "waiting" /\ listening
    /\ acceptor' = "superseding"
    /\ UNCHANGED <<oscVars, stage, ready, alive, attached, forwarder, listening,
                   connected, connMutex, sections, ticking, loaded>>

\* Where the acceptor goes when it is done with a client: back, unless told to quit.
AcceptNext == IF listening THEN "waiting" ELSE "ended"

Supersede ==
    /\ acceptor = "superseding" /\ ~connMutex
    /\ acceptor' = AcceptNext
    /\ connected' = TRUE
    /\ UNCHANGED <<oscVars, stage, ready, alive, attached, forwarder, listening,
                   connMutex, sections, ticking, loaded>>

\* The wait for a client fails: the listener is closed.
AcceptFails ==
    /\ acceptor = "waiting" /\ ~listening
    /\ acceptor' = "ended"
    /\ UNCHANGED <<oscVars, stage, ready, alive, attached, forwarder, listening,
                   connected, connMutex, sections, ticking, loaded>>

\* A connection thread registers its socket, writes an answer, or leaves.  Once
\* quit is set each does so three times at most.
LockConnection ==
    /\ connected /\ ~connMutex
    /\ connMutex' = TRUE
    /\ \/ listening /\ UNCHANGED sections
       \/ ~listening /\ sections < MaxSections /\ sections' = sections + 1
    /\ UNCHANGED <<oscVars, stage, ready, alive, attached, forwarder, listening,
                   acceptor, connected, ticking, loaded>>

\* The write has gone out or failed.
UnlockConnection ==
    /\ connMutex
    /\ connMutex' = FALSE
    /\ UNCHANGED <<oscVars, stage, ready, alive, attached, forwarder, listening,
                   acceptor, connected, sections, ticking, loaded>>

-----------------------------------------------------------------------------
\* The dispatch loop, as far as the end of the host depends on it.

\* Showing a window makes the editor it holds; hidden it keeps it, and it goes
\* with the slot.
ShowWindow ==
    /\ stage = "loop"
    /\ windows' = TRUE
    /\ UNCHANGED <<oscVars, stage, ready, alive, services, players, reading>>

RemoveSlot ==
    /\ stage = "loop"
    /\ windows' = FALSE
    /\ UNCHANGED <<oscVars, stage, ready, alive, services, players, reading>>

PlayAudioFile ==
    /\ stage = "loop"
    /\ players' = TRUE /\ reading' = TRUE
    /\ UNCHANGED <<oscVars, stage, ready, alive, services, windows>>

StopAudio ==
    /\ stage = "loop" /\ players
    /\ players' = FALSE
    /\ UNCHANGED <<oscVars, stage, ready, alive, services, windows, reading>>

Quit ==
    /\ Goto("loop", "shutdown")
    /\ UNCHANGED <<oscVars, ready, alive, services, loaded>>

-----------------------------------------------------------------------------
\* App::shutdown.

StopTimer ==
    /\ Goto("shutdown", "stopOsc")
    /\ ticking' = FALSE /\ forwarder' = FALSE
    /\ UNCHANGED <<oscVars, ready, alive, attached, control, loaded>>

StopOsc ==
    /\ Goto("stopOsc", "joinOsc")
    /\ OscStop
    /\ UNCHANGED <<ready, alive, services, loaded>>

JoinOsc ==
    /\ Goto("joinOsc", "stopControl")
    /\ OscJoin
    /\ UNCHANGED <<ready, alive, services, loaded>>

\* Mutant: quit is set, and the acceptor left in its wait for a client.
StopControlUnheard ==
    /\ Goto("stopControl", "closeConnection")
    /\ UNCHANGED <<oscVars, ready, alive, services, loaded>>

\* controlServer.stop(), which a start that failed calls too: quit is set and
\* the listener closed, then the connection under the lock, then the acceptor
\* is waited for.
StopControl ==
    /\ Goto("stopControl", "closeConnection")
    /\ listening' = FALSE
    /\ UNCHANGED <<oscVars, ready, alive, attached, forwarder, acceptor, connected,
                   connMutex, sections, ticking, loaded>>

CloseConnection ==
    /\ Goto("closeConnection", "joinAcceptor") /\ ~connMutex
    /\ UNCHANGED <<oscVars, ready, alive, services, loaded>>

JoinAcceptor ==
    /\ Goto("joinAcceptor", IF ready THEN "removeCallback" ELSE "destroy")
    /\ acceptor = "ended"
    /\ UNCHANGED <<oscVars, ready, alive, services, loaded>>

\* Mutant: the player lets the graph go and stays with the device.
RemoveAudioCallbackNot ==
    /\ Goto("removeCallback", "destroy")
    /\ UNCHANGED <<oscVars, ready, alive, services, loaded>>

\* Returns when no callback is running.
RemoveAudioCallback ==
    /\ Goto("removeCallback", "destroy")
    /\ attached' = FALSE
    /\ UNCHANGED <<oscVars, ready, alive, forwarder, control, ticking, loaded>>

-----------------------------------------------------------------------------
\* ~App: the members in reverse order, each with what its destructor does.  The
\* servers' destructors call stop() again, which finds nothing running.

\* Mutant: the members die in the order they are declared.
NextMemberFirst == Members[Len(Members) + 1 - alive]

NextMember == Members[alive]

DestroyMember ==
    /\ stage = "destroy" /\ alive > 0
    /\ alive' = alive - 1
    /\ stage' = IF alive' = 0 THEN "exited" ELSE stage
    /\ ticking' = (ticking /\ NextMember # "drainTimer")
    /\ windows' = (windows /\ NextMember # "windowManager")
    /\ reading' = (reading /\ NextMember # "readerThread")
    /\ players' = (players /\ NextMember # "graph")
    /\ attached' = (attached /\ NextMember # "deviceManager")
    /\ UNCHANGED <<oscVars, ready, forwarder, control>>

-----------------------------------------------------------------------------
Start == OpenDevice \/ AddAudioCallback \/ StartControl \/ StartOsc \/ StartTimer
Loop == ShowWindow \/ RemoveSlot \/ PlayAudioFile \/ StopAudio \/ Quit
StopServer == StopControl \/ CloseConnection \/ JoinAcceptor
Shutdown == StopTimer \/ StopOsc \/ JoinOsc \/ StopServer \/ RemoveAudioCallback
Acceptor == Accept \/ Supersede \/ AcceptFails
Connections == LockConnection \/ UnlockConnection

AudioCallback == attached /\ TakeMidi

Next ==
    \/ Start \/ Loop \/ Shutdown \/ DestroyMember \/ Acceptor \/ Connections
    \/ (Worker \/ AudioCallback \/ ExpireMidi) /\ UNCHANGED appVars

Spec == Init /\ [][Next]_vars

\* The message thread, the acceptor and the OSC worker run while they can, and
\* what is written to a client goes out or fails: clients read what they are
\* sent, or leave.  No client and no datagram need come, and whether the host is
\* ever told to quit is up to the client.  The last conjunct is weak fairness of
\* HandlePacket, the only step out of handling.
Fairness ==
    /\ WF_vars(Start \/ Shutdown \/ DestroyMember)
    /\ WF_vars(Supersede \/ AcceptFails)
    /\ WF_vars(UnlockConnection)
    /\ WF_vars((LoopTop \/ WaitAgain) /\ UNCHANGED appVars)
    /\ WF_worker(worker = "handling" /\ worker' = "top")

FairSpec == Spec /\ Fairness

-----------------------------------------------------------------------------
Stages == {"device", "graph", "startControl", "startOsc", "startTimer", "loop",
           "shutdown", "stopOsc", "joinOsc", "stopControl", "closeConnection",
           "joinAcceptor", "removeCallback", "destroy", "exited"}
Standing == {Members[i] : i \in 1..alive}

\* The type of every variable, of OscServer's too.
TypeOK ==
    /\ OscTypeOK
    /\ stage \in Stages /\ ready \in BOOLEAN /\ alive \in 0..Len(Members)
    /\ {attached, forwarder, ticking} \subseteq BOOLEAN
    /\ acceptor \in {"none", "waiting", "superseding", "ended"}
    /\ {listening, connected, connMutex} \subseteq BOOLEAN /\ sections \in 0..MaxSections
    /\ {windows, players, reading} \subseteq BOOLEAN

\* Whichever step of the start failed, and from wherever the host was told to
\* quit: the OSC worker has ended before the server and the player its sinks
\* use, the acceptor and the log forwarder before the control server, the timer
\* before the graph it drains, and every editor is closed before the processor
\* it shows; the graph does not outlive the formats it creates plug-ins with.
ServicesEndFirst ==
    /\ worker \notin {"none", "ended"} => {"oscServer", "dawPlayer"} \subseteq Standing
    /\ acceptor \notin {"none", "ended"} \/ forwarder => "controlServer" \in Standing
    /\ ticking => {"drainTimer", "graph"} \subseteq Standing
    /\ windows => {"windowManager", "graph"} \subseteq Standing
    /\ "graph" \in Standing => "scanner" \in Standing

\* Once the host has started, the audio callback has been removed before the
\* player and the graph it runs are destroyed.  A start that fails behind
\* addAudioCallback is the only way round this.
AudioStopsFirst ==
    ready /\ attached => {"deviceManager", "dawPlayer", "graph"} \subseteq Standing

\* The host starts or gives up, and once told to quit it exits: neither the OSC
\* worker nor the lock and the acceptor of the control server are waited for for
\* ever.  It is assumed that clients read what is written to them or leave: a
\* write that stays blocked holds the lock that stop() takes (module
\* ControlServer).
HostEnds == stage # "loop" ~> stage \in {"loop", "exited"}

\* The reader thread is "kept alive for the lifetime of the host" (DawGraph.h):
\* the file players, which detach from it as they are destroyed, go first.
PlayersDetachFirst == players => "readerThread" \in Standing

=============================================================================
