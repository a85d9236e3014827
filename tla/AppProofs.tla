------------------------------ MODULE AppProofs ------------------------------
(***************************************************************************)
(* Proofs about App, for every set of datagrams and every buffer: in what  *)
(* order the host comes down, wherever its start stopped, and that what    *)
(* the decoder hands on is what the datagrams say.                         *)
(***************************************************************************)
EXTENDS App, TLAPS, SequenceTheorems, FiniteSetTheorems, WellFoundedInduction,
        NaturalsInduction

Early  == {"device", "graph", "startControl", "startOsc"}
Late   == {"stopControl", "closeConnection", "joinAcceptor", "removeCallback", "destroy", "exited"}
Ending == {"destroy", "exited"}

\* What may run at each stage of the host.
Life ==
    /\ stage \in Stages /\ alive \in 0..9
    /\ ready \in BOOLEAN /\ attached \in BOOLEAN /\ forwarder \in BOOLEAN
    /\ ticking \in BOOLEAN /\ windows \in BOOLEAN
    /\ acceptor \in {"none", "waiting", "superseding", "ended"}
    /\ stage \notin Ending => alive = 9
    /\ stage \in Early \/ stage \in Late => worker \in {"none", "ended"}
    /\ acceptor \in {"waiting", "superseding"} =>
           stage \notin {"device", "graph", "startControl", "removeCallback", "destroy", "exited"}
    /\ forwarder \/ ticking => stage \in {"loop", "shutdown"}
    /\ ready \/ windows => stage \notin Early /\ stage # "startTimer"
    /\ windows => 6 <= alive
    /\ ready /\ attached => stage \notin Ending

LEMMA InitLife == Init => Life
<1>1. Len(Members) = 9
  BY DEF Members
<1>2. ASSUME Init
      PROVE  /\ stage = "device" /\ alive = 9 /\ worker = "none"
             /\ ready = FALSE /\ attached = FALSE /\ forwarder = FALSE
             /\ acceptor = "none" /\ ticking = FALSE /\ windows = FALSE
  BY <1>1, <1>2 DEF Init, OscInit
<1>3. QED
  BY <1>2 DEF Life, Stages, Early, Late, Ending

LEMMA MembersAre ==
    ASSUME alive \in 0..9
    PROVE  /\ alive = 9 => Standing = {"deviceManager", "dawPlayer", "scanner", "graph",
                 "readerThread", "windowManager", "oscServer", "controlServer", "drainTimer"}
           /\ 6 <= alive => {"graph", "windowManager"} \subseteq Standing
           /\ "graph" \in Standing => "scanner" \in Standing
<1>1. Standing = {Members[i] : i \in 1..alive}
  BY DEF Standing
<1>2. /\ Members[1] = "deviceManager" /\ Members[2] = "dawPlayer" /\ Members[3] = "scanner"
      /\ Members[4] = "graph" /\ Members[5] = "readerThread" /\ Members[6] = "windowManager"
      /\ Members[7] = "oscServer" /\ Members[8] = "controlServer" /\ Members[9] = "drainTimer"
  BY DEF Members
<1>3. alive = 9 => Standing = {"deviceManager", "dawPlayer", "scanner", "graph",
                 "readerThread", "windowManager", "oscServer", "controlServer", "drainTimer"}
  BY <1>1, <1>2
<1>4. 6 <= alive => {"graph", "windowManager"} \subseteq Standing
  BY <1>1, <1>2
<1>5. "graph" \in Standing => "scanner" \in Standing
  <2>1. ASSUME NEW i \in 1..alive, Members[i] = "graph" PROVE i = 4
    BY <1>2, <2>1
  <2>2. QED
    BY <1>1, <1>2, <2>1
<1>6. QED
  BY <1>1, <1>3, <1>4, <1>5

LEMMA NextLife ==
    ASSUME Life, [Next]_vars
    PROVE  Life'
<1> USE DEF Life, Stages, Early, Late, Ending, Goto
<1>1. CASE OpenDevice
  BY <1>1 DEF OpenDevice, oscVars, services, control, loaded
<1>2. CASE AddAudioCallback
  BY <1>2 DEF AddAudioCallback, oscVars, control, loaded
<1>3. CASE StartControl
  <2>1. /\ stage = "startControl" /\ stage' \in {"startOsc", "destroy"}
        /\ UNCHANGED <<worker, ready, alive, attached, forwarder, ticking, windows>>
    BY <1>3 DEF StartControl, oscVars, loaded
  <2>2. acceptor \in {"none", "ended"}
    BY <2>1
  <2>3. (acceptor' = "waiting" /\ stage' = "startOsc") \/ acceptor' = acceptor
    BY <1>3 DEF StartControl
  <2>4. QED
    BY <2>1, <2>2, <2>3
<1>4. CASE StartOsc
  BY <1>4 DEF StartOsc, OscStarts, oscVars, services, control, loaded
<1>5. CASE StartTimer
  BY <1>5 DEF StartTimer, oscVars, control, loaded
<1>6. CASE Loop
  <2>1. /\ stage = "loop" /\ stage' \in {"loop", "shutdown"}
        /\ UNCHANGED <<worker, ready, alive, attached, forwarder, acceptor, ticking>>
    BY <1>6 DEF Loop, ShowWindow, RemoveSlot, PlayAudioFile, StopAudio, Quit, oscVars, services, control, loaded
  <2>2. windows' \in BOOLEAN
    BY <1>6 DEF Loop, ShowWindow, RemoveSlot, PlayAudioFile, StopAudio, Quit, loaded
  <2>3. /\ alive = 9 /\ alive' = 9
        /\ worker' = worker /\ ready' = ready /\ attached' = attached
        /\ forwarder' = forwarder /\ acceptor' = acceptor /\ ticking' = ticking
    BY <2>1
  <2>4. QED
    BY <2>1, <2>2, <2>3
<1>7. CASE StopTimer
  BY <1>7 DEF StopTimer, oscVars, control, loaded
<1>8. CASE StopOsc
  BY <1>8 DEF StopOsc, OscStop, services, control, loaded
<1>9. CASE JoinOsc
  BY <1>9 DEF JoinOsc, OscJoin, services, control, loaded
<1>10. CASE StopServer
  <2>1. CASE StopControl
    BY <2>1 DEF StopControl, oscVars, loaded
  <2>2. CASE CloseConnection
    BY <2>2 DEF CloseConnection, oscVars, services, control, loaded
  <2>3. CASE JoinAcceptor
    BY <2>3 DEF JoinAcceptor, oscVars, services, control, loaded
  <2> QED BY <1>10, <2>1, <2>2, <2>3 DEF StopServer
<1>11. CASE RemoveAudioCallback
  BY <1>11 DEF RemoveAudioCallback, oscVars, control, loaded
<1>12. CASE DestroyMember
  <2>1. /\ stage = "destroy" /\ stage' \in {"destroy", "exited"}
        /\ alive \in 1..9 /\ alive' = alive - 1
        /\ ticking' \in BOOLEAN /\ windows' \in BOOLEAN /\ attached' \in BOOLEAN
        /\ (ticking' => ticking) /\ (attached' => attached)
        /\ windows' => windows /\ Members[alive] # "windowManager"
        /\ UNCHANGED <<worker, ready, forwarder, acceptor>>
    BY <1>12 DEF DestroyMember, NextMember, oscVars, control
  <2>2. Members[6] = "windowManager"
    BY DEF Members
  <2>3. windows' => 6 <= alive'
    BY <2>1, <2>2
  <2>4. QED
    BY <2>1, <2>3
<1>13. CASE (Worker \/ AudioCallback \/ ExpireMidi) /\ UNCHANGED appVars
  <2>1. worker \in {"none", "ended"} => worker' = worker
    BY <1>13 DEF Worker, LoopTop, WaitAgain, Receive, HandlePacket, AudioCallback, TakeMidi, ExpireMidi
  <2>2. QED
    BY <1>13, <2>1 DEF appVars, services, control, loaded
<1>14. CASE UNCHANGED vars
  BY <1>14 DEF vars, oscVars, appVars, services, control, loaded
<1>15. CASE Acceptor \/ Connections
  <2>1. /\ acceptor' # acceptor => acceptor \in {"waiting", "superseding"}
        /\ acceptor' \in {"none", "waiting", "superseding", "ended"}
        /\ UNCHANGED <<worker, stage, ready, alive, attached, forwarder, ticking, windows>>
    BY <1>15 DEF Acceptor, Accept, Supersede, AcceptNext, AcceptFails,
                 Connections, LockConnection, UnlockConnection, oscVars, loaded
  <2> QED BY <2>1
<1>16. QED
  BY <1>1, <1>2, <1>3, <1>4, <1>5, <1>6, <1>7, <1>8, <1>9, <1>10, <1>11, <1>12, <1>13, <1>14, <1>15
     DEF Next, Start, Shutdown

THEOREM LifeHolds == Spec => []Life
<1>1. QED
  BY InitLife, NextLife, PTL DEF Spec

\* App::init, App::shutdown and ~App: every thread, timer, forwarder and window
\* has ended before what it uses is destroyed, whichever step of the start
\* failed and whatever was received, played and opened.
THEOREM OrderlyEnd == Spec => []ServicesEndFirst
<1>1. Life => ServicesEndFirst
  <2> SUFFICES ASSUME Life PROVE ServicesEndFirst
    OBVIOUS
  <2>1. worker \notin {"none", "ended"} \/ acceptor \notin {"none", "ended"}
            \/ forwarder \/ ticking => alive = 9
    BY DEF Life, Stages, Early, Late, Ending
  <2>2. windows => 6 <= alive
    BY DEF Life
  <2>3. alive \in 0..9
    BY DEF Life
  <2>4. QED
    BY <2>1, <2>2, <2>3, MembersAre DEF ServicesEndFirst
<1>2. QED
  BY <1>1, LifeHolds, PTL

\* The audio callback of a host that has started is removed before the player
\* and the graph it runs are destroyed.
THEOREM AudioEndsFirst == Spec => []AudioStopsFirst
<1>1. Life => AudioStopsFirst
  BY MembersAre DEF Life, AudioStopsFirst, Ending
<1>2. QED
  BY <1>1, LifeHolds, PTL

-----------------------------------------------------------------------------
\* Decoding.

Byte == 0..255

LEMMA LeastElement ==
    ASSUME NEW T, T \subseteq Nat, T # {}
    PROVE  \E x \in T : \A y \in T : x =< y
<1> DEFINE R == {ss \in Nat \X Nat : ss[1] < ss[2]}
<1>1. IsWellFoundedOn(R, Nat)
  BY NatLessThanWellFounded DEF OpToRel
<1>2. \A x, y \in Nat : y < x => <<y, x>> \in R
  OBVIOUS
<1> HIDE DEF R
<1>3. PICK x \in T : \A y \in T : ~(<<y, x>> \in R)
  BY <1>1, WFMin
<1>4. \A y \in T : ~(y < x)
  BY <1>2, <1>3
<1> QED BY <1>4

LEMMA EndIs ==
    ASSUME NEW buf, NEW n \in Nat, NEW cursor \in Nat, Nulls(buf, n, cursor) # {}
    PROVE  /\ End(buf, n, cursor) \in cursor..(n - 1)
           /\ buf[End(buf, n, cursor) + 1] = 0
           /\ \A e \in cursor..(n - 1) : buf[e + 1] = 0 => End(buf, n, cursor) <= e
<1>1. Nulls(buf, n, cursor) \subseteq Nat
  BY DEF Nulls
<1>2. \E e \in Nulls(buf, n, cursor) : \A f \in Nulls(buf, n, cursor) : e <= f
  BY <1>1, LeastElement
<1> DEFINE e0 == End(buf, n, cursor)
<1>3. e0 \in Nulls(buf, n, cursor) /\ \A f \in Nulls(buf, n, cursor) : e0 <= f
  BY <1>2 DEF End
<1> HIDE DEF e0
<1>4. e0 \in cursor..(n - 1) /\ buf[e0 + 1] = 0
  BY <1>3 DEF Nulls
<1>5. \A e \in cursor..(n - 1) : buf[e + 1] = 0 => e0 <= e
  BY <1>3 DEF Nulls
<1> QED BY <1>4, <1>5 DEF e0

\* A string ends at the first null: where one stands and none before it.
LEMMA EndAt ==
    ASSUME NEW buf, NEW n \in Nat, NEW cursor \in Nat, NEW e \in cursor..(n - 1),
           buf[e + 1] = 0, \A f \in cursor..(e - 1) : buf[f + 1] # 0
    PROVE  Nulls(buf, n, cursor) # {} /\ End(buf, n, cursor) = e
<1>1. e \in Nulls(buf, n, cursor)
  BY DEF Nulls
<1> DEFINE e0 == End(buf, n, cursor)
<1>2. e0 \in cursor..(n - 1) /\ buf[e0 + 1] = 0 /\ e0 <= e
  BY <1>1, EndIs
<1> HIDE DEF e0
<1>3. e0 \notin cursor..(e - 1)
  BY <1>2
<1>4. e0 = e
  BY <1>2, <1>3
<1> QED BY <1>1, <1>4 DEF e0

-----------------------------------------------------------------------------
\* A message of a kind, byte by byte: the address and its null, then the tags
\* and theirs; the padding is not looked at, and the arguments begin at byte 12.
Letter(kind) == Address[kind][1]
Pattern(b, n, kind) ==
    /\ 12 + 4 * Arity[kind] <= n
    /\ b[1] = Letter(kind) /\ b[2] = 0
    /\ b[5] = 44 /\ \A i \in 6..(5 + Arity[kind]) : b[i] = 105
    /\ b[6 + Arity[kind]] = 0

LEMMA KindFacts ==
    ASSUME NEW kind \in Kinds
    PROVE  /\ Arity[kind] \in 3..4 /\ Letter(kind) \in 1..255 /\ Letter(kind) # 256
           /\ Address[kind] = <<Letter(kind)>>
           /\ Address[kind] \in Seq(Nat) /\ Len(Address[kind]) = 1
<1>1. kind \in {"note_on", "note_off", "cc"}
  BY DEF Kinds
<1>2. Arity[kind] \in 3..4
  BY <1>1 DEF Arity
<1>3. \/ Address[kind] = <<97>> \/ Address[kind] = <<98>> \/ Address[kind] = <<99>>
  BY <1>1 DEF Address
<1>4. Letter(kind) \in 97..99 /\ Address[kind] = <<Letter(kind)>>
  BY <1>3 DEF Letter
<1>5. Letter(kind) \in 1..255 /\ Letter(kind) \in Nat /\ Letter(kind) # 256
  BY <1>4
<1>6. <<Letter(kind)>> \in Seq(Nat) /\ Len(<<Letter(kind)>>) = 1
  BY <1>5
<1> QED BY <1>2, <1>4, <1>5, <1>6

LEMMA TagsOf ==
    ASSUME NEW kind \in Kinds
    PROVE  /\ TypeTags[kind] \in Seq(Nat) /\ Len(TypeTags[kind]) = Arity[kind] + 1
           /\ TypeTags[kind][1] = 44
           /\ \A i \in 2..(Arity[kind] + 1) : TypeTags[kind][i] = 105
<1> DEFINE a == Arity[kind]
           ints == [i \in 1..a |-> 105]
<1>1. a \in 3..4
  BY KindFacts
<1>2. TypeTags[kind] = <<44>> \o ints
  BY DEF TypeTags
<1> HIDE DEF a
<1>3. ints \in Seq(Nat) /\ Len(ints) = a /\ \A i \in 1..a : ints[i] = 105
  BY <1>1
<1> HIDE DEF ints
<1>4. <<44>> \in Seq(Nat) /\ Len(<<44>>) = 1 /\ <<44>>[1] = 44
  OBVIOUS
<1>5. /\ <<44>> \o ints \in Seq(Nat) /\ Len(<<44>> \o ints) = Len(<<44>>) + Len(ints)
      /\ \A i \in 1..(Len(<<44>>) + Len(ints)) : (<<44>> \o ints)[i] =
            IF i <= Len(<<44>>) THEN <<44>>[i] ELSE ints[i - Len(<<44>>)]
  BY <1>3, <1>4, ConcatProperties
<1> DEFINE tags == <<44>> \o ints
<1> HIDE DEF tags
<1>6. /\ tags \in Seq(Nat) /\ Len(tags) = 1 + a
      /\ \A i \in 1..(1 + a) : tags[i] = IF i <= 1 THEN <<44>>[i] ELSE ints[i - 1]
  BY <1>3, <1>4, <1>5 DEF tags
<1>7. tags[1] = 44
  BY <1>1, <1>4, <1>6
<1>8. ASSUME NEW i \in 2..(a + 1) PROVE tags[i] = 105
  <2>1. i \in 1..(1 + a) /\ ~(i <= 1) /\ i - 1 \in 1..a
    BY <1>1
  <2> QED BY <2>1, <1>3, <1>6
<1> QED BY <1>1, <1>2, <1>6, <1>7, <1>8 DEF a, tags

\* A text, its null, and padding that may hold anything.
LEMMA SpacedOf ==
    ASSUME NEW text \in Seq(Nat), Padded(Len(text) + 1) \in Nat,
           Len(text) < Padded(Len(text) + 1)
    PROVE  /\ Spaced(text) \in Seq(Nat) /\ Len(Spaced(text)) = Padded(Len(text) + 1)
           /\ \A i \in 1..Len(text) : Spaced(text)[i] = text[i]
           /\ Spaced(text)[Len(text) + 1] = 0
           /\ \A i \in (Len(text) + 2)..Padded(Len(text) + 1) : Spaced(text)[i] = 256
<1> DEFINE rest == Padded(Len(text) + 1) - Len(text)
           pad == [i \in 1..rest |-> IF i = 1 THEN 0 ELSE 256]
<1>1. Spaced(text) = text \o pad
  BY DEF Spaced
<1>2. rest \in Nat \ {0} /\ Len(text) \in Nat /\ Len(text) + rest = Padded(Len(text) + 1)
  OBVIOUS
<1> HIDE DEF rest
<1>3. pad \in Seq(Nat) /\ Len(pad) = rest
  BY <1>2
<1>4. pad[1] = 0 /\ \A i \in 2..rest : pad[i] = 256
  BY <1>2
<1> HIDE DEF pad
<1>5. /\ text \o pad \in Seq(Nat) /\ Len(text \o pad) = Len(text) + Len(pad)
      /\ \A i \in 1..(Len(text) + Len(pad)) : (text \o pad)[i] =
            IF i <= Len(text) THEN text[i] ELSE pad[i - Len(text)]
  BY <1>3, ConcatProperties
<1> QED BY <1>1, <1>2, <1>3, <1>4, <1>5

LEMMA LayoutOf ==
    ASSUME NEW kind \in Kinds
    PROVE  /\ Len(Layout[kind]) = 12 /\ DOMAIN Layout[kind] = 1..12
           /\ Layout[kind][1] = Letter(kind) /\ Layout[kind][2] = 0
           /\ Layout[kind][5] = 44
           /\ \A i \in 6..(5 + Arity[kind]) : Layout[kind][i] = 105
           /\ Layout[kind][6 + Arity[kind]] = 0
           /\ \A i \in 1..12 : i \in {3, 4} \/ i > 6 + Arity[kind] => Layout[kind][i] = 256
<1> DEFINE U == Spaced(Address[kind])
           V == Spaced(TypeTags[kind])
           a == Arity[kind]
<1>1. a \in 3..4
  BY KindFacts
<1>2. Address[kind] \in Seq(Nat) /\ Len(Address[kind]) = 1
  BY KindFacts
<1>3. TypeTags[kind] \in Seq(Nat) /\ Len(TypeTags[kind]) = a + 1
  BY TagsOf
<1>4. /\ Padded(Len(Address[kind]) + 1) = 4
      /\ Padded(Len(TypeTags[kind]) + 1) = 8
  BY <1>1, <1>2, <1>3 DEF Padded
<1>5. /\ U \in Seq(Nat) /\ Len(U) = 4
      /\ U[1] = Address[kind][1] /\ U[2] = 0 /\ U[3] = 256 /\ U[4] = 256
  <2>0. Address[kind] \in Seq(Nat)
    BY <1>2
  <2>1. /\ Len(Address[kind]) < Padded(Len(Address[kind]) + 1)
        /\ Padded(Len(Address[kind]) + 1) \in Nat
    BY <1>2, <1>4
  <2>2. /\ U \in Seq(Nat) /\ Len(U) = Padded(Len(Address[kind]) + 1)
        /\ \A i \in 1..Len(Address[kind]) : U[i] = Address[kind][i]
        /\ U[Len(Address[kind]) + 1] = 0
        /\ \A i \in (Len(Address[kind]) + 2)..Padded(Len(Address[kind]) + 1) : U[i] = 256
    BY <2>0, <2>1, SpacedOf
  <2> HIDE DEF U
  <2> QED BY <2>2, <1>2, <1>4
<1>6. /\ V \in Seq(Nat) /\ Len(V) = 8
      /\ \A i \in 1..(a + 1) : V[i] = TypeTags[kind][i]
      /\ V[a + 2] = 0 /\ \A i \in (a + 3)..8 : V[i] = 256
  <2>0. TypeTags[kind] \in Seq(Nat)
    BY <1>3
  <2>1. /\ Len(TypeTags[kind]) < Padded(Len(TypeTags[kind]) + 1)
        /\ Padded(Len(TypeTags[kind]) + 1) \in Nat
    BY <1>1, <1>3, <1>4
  <2>2. /\ V \in Seq(Nat) /\ Len(V) = Padded(Len(TypeTags[kind]) + 1)
        /\ \A i \in 1..Len(TypeTags[kind]) : V[i] = TypeTags[kind][i]
        /\ V[Len(TypeTags[kind]) + 1] = 0
        /\ \A i \in (Len(TypeTags[kind]) + 2)..Padded(Len(TypeTags[kind]) + 1) : V[i] = 256
    BY <2>0, <2>1, SpacedOf
  <2> HIDE DEF V, a
  <2>3. Len(TypeTags[kind]) = a + 1 /\ Padded(Len(TypeTags[kind]) + 1) = 8 /\ a \in Nat
    BY <1>1, <1>3, <1>4
  <2> QED BY <2>2, <2>3
<1>7. V[1] = 44 /\ \A i \in 2..(a + 1) : V[i] = 105
  <2> HIDE DEF V
  <2> HIDE DEF a
  <2>1. /\ TypeTags[kind][1] = 44
        /\ \A i \in 2..(a + 1) : TypeTags[kind][i] = 105
    BY TagsOf DEF a
  <2> QED BY <1>1, <1>6, <2>1
<1>8. Layout[kind] = U \o V
  BY DEF Layout
<1> HIDE DEF U, V, a
<1>9. U \in Seq(Nat) /\ V \in Seq(Nat)
  BY <1>5, <1>6
<1>10. /\ U \o V \in Seq(Nat) /\ Len(U \o V) = Len(U) + Len(V)
       /\ \A i \in 1..(Len(U) + Len(V)) : (U \o V)[i] = IF i <= Len(U) THEN U[i] ELSE V[i - Len(U)]
  BY <1>9, ConcatProperties
<1> DEFINE W == U \o V
<1> HIDE DEF W
<1>11. /\ W \in Seq(Nat) /\ Len(W) = 12
       /\ \A i \in 1..4 : W[i] = U[i]
       /\ \A i \in 5..12 : W[i] = V[i - 4]
  <2>1. Len(U) = 4 /\ Len(V) = 8
    BY <1>5, <1>6
  <2>2. /\ W \in Seq(Nat) /\ Len(W) = Len(U) + Len(V)
        /\ \A i \in 1..(Len(U) + Len(V)) : W[i] = IF i <= Len(U) THEN U[i] ELSE V[i - Len(U)]
    BY <1>10 DEF W
  <2> QED BY <2>1, <2>2
<1>12. DOMAIN W = 1..12
  BY <1>11, LenProperties
<1>13. W[1] = Letter(kind) /\ W[2] = 0 /\ W[3] = 256 /\ W[4] = 256
  BY <1>5, <1>11 DEF Letter
<1>14. /\ W[5] = 44 /\ W[6 + a] = 0
       /\ \A i \in 6..(5 + a) : W[i] = 105
       /\ \A i \in 1..12 : i > 6 + a => W[i] = 256
  <2>1. W[5] = V[1] /\ W[6 + a] = V[a + 2]
    BY <1>1, <1>11
  <2>2. ASSUME NEW i \in 6..(5 + a) PROVE W[i] = 105
    <3>1. W[i] = V[i - 4] /\ i - 4 \in 2..(a + 1)
      BY <1>1, <1>11
    <3> QED BY <3>1, <1>7
  <2>3. ASSUME NEW i \in 1..12, i > 6 + a PROVE W[i] = 256
    <3>0. i \in 5..12 /\ i - 4 \in (a + 3)..8
      BY <2>3, <1>1
    <3>1. W[i] = V[i - 4] /\ i - 4 \in (a + 3)..8
      BY <3>0, <1>11
    <3> QED BY <3>1, <1>6
  <2> QED BY <2>1, <2>2, <2>3, <1>6, <1>7
<1>15. \A i \in 1..12 : i \in {3, 4} \/ i > 6 + a => W[i] = 256
  BY <1>13, <1>14
<1>16. Layout[kind] = W /\ a = Arity[kind] /\ Len(W) = 12
  BY <1>8, <1>11 DEF W, a
<1> QED BY <1>12, <1>13, <1>14, <1>15, <1>16

\* What Says states of a datagram is the pattern of its kind.
LEMMA SaysIsPattern ==
    ASSUME NEW d \in Seq(Byte), NEW kind \in Kinds
    PROVE  Says(d, kind) <=> Pattern(d, Len(d), kind)
<1> DEFINE a == Arity[kind]
           L == Layout[kind]
<1>1. a \in 3..4
  BY KindFacts
<1>2. /\ Len(L) = 12 /\ DOMAIN L = 1..12
      /\ L[1] = Letter(kind) /\ L[2] = 0 /\ L[5] = 44
      /\ \A i \in 6..(5 + a) : L[i] = 105
      /\ L[6 + a] = 0
      /\ \A i \in 1..12 : i \in {3, 4} \/ i > 6 + a => L[i] = 256
  BY LayoutOf
<1>3. Letter(kind) # 256
  BY KindFacts
<1>4. Len(d) \in Nat /\ \A i \in 1..Len(d) : d[i] \in Byte
  BY ElementOfSeq, LenProperties
<1>5. Says(d, kind) <=> 12 + 4 * a <= Len(d) /\ \A i \in 1..12 : L[i] \in {d[i], 256}
  BY <1>1, <1>2, <1>4 DEF Says
<1>6. Pattern(d, Len(d), kind) <=>
        /\ 12 + 4 * a <= Len(d)
        /\ d[1] = Letter(kind) /\ d[2] = 0 /\ d[5] = 44
        /\ \A i \in 6..(5 + a) : d[i] = 105
        /\ d[6 + a] = 0
  BY DEF Pattern
<1> HIDE DEF a, L
<1>7. ASSUME \A i \in 1..12 : L[i] \in {d[i], 256}
      PROVE  /\ d[1] = Letter(kind) /\ d[2] = 0 /\ d[5] = 44
             /\ \A i \in 6..(5 + a) : d[i] = 105
             /\ d[6 + a] = 0
  <2>1. ASSUME NEW i \in 1..12, L[i] # 256 PROVE d[i] = L[i]
    <3>1. L[i] \in {d[i], 256}
      BY <1>7
    <3> QED BY <2>1, <3>1
  <2>2. d[1] = Letter(kind) /\ d[2] = 0 /\ d[5] = 44
    <3>0. L[1] # 256 /\ L[2] # 256 /\ L[5] # 256
      <4>2. L[1] = Letter(kind) /\ L[2] = 0 /\ L[5] = 44
        BY <1>2
      <4> QED BY <1>3, <4>2
    <3>1. d[1] = L[1] /\ d[2] = L[2] /\ d[5] = L[5]
      BY <2>1, <3>0
    <3> QED BY <3>1, <1>2
  <2>3. \A i \in 6..(5 + a) : i \in 1..12
    BY <1>1
  <2>4. \A i \in 6..(5 + a) : d[i] = 105
    BY <2>1, <2>3, <1>2
  <2>5. 6 + a \in 1..12
    BY <1>1
  <2>6. d[6 + a] = 0
    BY <2>1, <2>5, <1>2
  <2> QED BY <2>2, <2>4, <2>6
<1>8. ASSUME /\ d[1] = Letter(kind) /\ d[2] = 0 /\ d[5] = 44
             /\ \A i \in 6..(5 + a) : d[i] = 105
             /\ d[6 + a] = 0,
             NEW i \in 1..12
      PROVE  L[i] \in {d[i], 256}
  <2>1. \/ i \in {3, 4} \/ i > 6 + a
        \/ i \in {1, 2, 5}
        \/ i \in 6..(5 + a)
        \/ i = 6 + a
    BY <1>1
  <2> QED BY <2>1, <1>2, <1>8
<1> QED BY <1>5, <1>6, <1>7, <1>8

-----------------------------------------------------------------------------
\* What the decoder makes of a buffer of bytes.

LEMMA TextOf ==
    ASSUME NEW buf, NEW n \in Nat, \A i \in 1..n : buf[i] \in Byte,
           NEW cursor \in Nat, Nulls(buf, n, cursor) # {}
    PROVE  /\ Text(buf, n, cursor) \in Seq(Nat)
           /\ Len(Text(buf, n, cursor)) = End(buf, n, cursor) - cursor
           /\ \A i \in 1..(End(buf, n, cursor) - cursor) :
                  Text(buf, n, cursor)[i] = buf[cursor + i]
<1> DEFINE e == End(buf, n, cursor)
<1>1. e \in cursor..(n - 1)
  BY EndIs
<1>2. Text(buf, n, cursor) = SubSeq(buf, cursor + 1, e)
  BY DEF Text
<1> HIDE DEF e
<1>3. cursor + 1 \in Int /\ e \in Int /\ \A i \in (cursor + 1)..e : buf[i] \in Nat
  <2>1. \A i \in (cursor + 1)..e : i \in 1..n
    BY <1>1
  <2>2. \A i \in 1..n : buf[i] \in Nat
    BY DEF Byte
  <2> QED BY <1>1, <2>1, <2>2
<1>4. /\ SubSeq(buf, cursor + 1, e) \in Seq(Nat)
      /\ Len(SubSeq(buf, cursor + 1, e)) = IF cursor + 1 <= e THEN e - (cursor + 1) + 1 ELSE 0
      /\ \A i \in 1..(e - (cursor + 1) + 1) :
             SubSeq(buf, cursor + 1, e)[i] = buf[cursor + 1 + i - 1]
  BY <1>3, SubSeqProperties
<1>5. Len(SubSeq(buf, cursor + 1, e)) = e - cursor
  BY <1>1, <1>4
<1>6. \A i \in 1..(e - cursor) : SubSeq(buf, cursor + 1, e)[i] = buf[cursor + i]
  <2> SUFFICES ASSUME NEW i \in 1..(e - cursor)
               PROVE  SubSeq(buf, cursor + 1, e)[i] = buf[cursor + i]
    OBVIOUS
  <2>1. i \in 1..(e - (cursor + 1) + 1) /\ cursor + 1 + i - 1 = cursor + i
    BY <1>1
  <2> QED BY <2>1, <1>4
<1> QED BY <1>2, <1>4, <1>5, <1>6 DEF e

\* The condition under which the decoder takes a packet for one of a kind.
Tags(buf, n) == ReadOscString(buf, n, 0)
Args(buf, n) == ReadOscString(buf, n, Tags(buf, n))
Reads(buf, n, kind) ==
    /\ Args(buf, n) # Malformed
    /\ Text(buf, n, 0) = Address[kind]
    /\ Text(buf, n, Tags(buf, n)) = TypeTags[kind]
    /\ HasArguments(n, Args(buf, n), kind)

LEMMA PatternReads ==
    ASSUME NEW buf, NEW n \in Nat, \A i \in 1..n : buf[i] \in Byte,
           NEW kind \in Kinds, Pattern(buf, n, kind)
    PROVE  Reads(buf, n, kind) /\ Args(buf, n) = 12
<1> DEFINE a == Arity[kind]
<1>1. a \in 3..4 /\ Letter(kind) \in 1..255 /\ Address[kind] = <<Letter(kind)>>
  BY KindFacts
<1>2. /\ 12 + 4 * a <= n /\ buf[1] = Letter(kind) /\ buf[2] = 0 /\ buf[5] = 44
      /\ \A i \in 6..(5 + a) : buf[i] = 105
      /\ buf[6 + a] = 0
  BY DEF Pattern
<1>3. /\ TypeTags[kind] \in Seq(Nat) /\ Len(TypeTags[kind]) = a + 1
      /\ TypeTags[kind][1] = 44 /\ \A i \in 2..(a + 1) : TypeTags[kind][i] = 105
  BY TagsOf
<1>4. a \in Nat /\ HasArguments(n, 12, kind) <=> 12 + 4 * a <= n
  BY <1>1 DEF HasArguments
<1> HIDE DEF a
<1>5. Nulls(buf, n, 0) # {} /\ End(buf, n, 0) = 1
  <2>1. 1 \in 0..(n - 1) /\ buf[1 + 1] = 0 /\ \A f \in 0..(1 - 1) : buf[f + 1] # 0
    BY <1>1, <1>2
  <2> QED BY <2>1, EndAt
<1>6. Tags(buf, n) = 4
  BY <1>5 DEF Tags, ReadOscString, Padded, Malformed
<1>7. Nulls(buf, n, 4) # {} /\ End(buf, n, 4) = 5 + a
  <2> DEFINE e == 5 + a
  <2>1. e \in 4..(n - 1) /\ buf[e + 1] = 0
    BY <1>1, <1>2
  <2>2. ASSUME NEW f \in 4..(e - 1) PROVE buf[f + 1] # 0
    <3>1. f + 1 = 5 \/ f + 1 \in 6..(5 + a)
      BY <1>1
    <3> QED BY <3>1, <1>2
  <2> HIDE DEF e
  <2>3. Nulls(buf, n, 4) # {} /\ End(buf, n, 4) = e
    BY <2>1, <2>2, EndAt
  <2> QED BY <2>3 DEF e
<1>8. Args(buf, n) = 12
  <2>1. ReadOscString(buf, n, 4) = 4 + Padded(End(buf, n, 4) - 4 + 1)
    BY <1>7 DEF ReadOscString, Malformed
  <2>2. End(buf, n, 4) - 4 + 1 = a + 2
    BY <1>1, <1>7
  <2>3. Padded(a + 2) = 8
    BY <1>1 DEF Padded
  <2> QED BY <2>1, <2>2, <2>3, <1>6 DEF Args
<1>9. Text(buf, n, 0) = Address[kind]
  <2>1. /\ Text(buf, n, 0) \in Seq(Nat) /\ Len(Text(buf, n, 0)) = End(buf, n, 0) - 0
        /\ \A i \in 1..(End(buf, n, 0) - 0) : Text(buf, n, 0)[i] = buf[0 + i]
    BY <1>5, TextOf
  <2>2. Len(Text(buf, n, 0)) = 1 /\ Text(buf, n, 0)[1] = Letter(kind)
    <3>1. End(buf, n, 0) - 0 = 1 /\ 0 + 1 = 1 /\ 1 \in 1..1
      BY <1>5
    <3>2. Text(buf, n, 0)[1] = buf[0 + 1]
      BY <2>1, <3>1
    <3> QED BY <2>1, <3>1, <3>2, <1>2
  <2>3. Address[kind] \in Seq(Nat) /\ Len(Address[kind]) = 1 /\ Address[kind][1] = Letter(kind)
    BY KindFacts DEF Letter
  <2> QED BY <2>1, <2>2, <2>3, SeqEqual
<1>10. Text(buf, n, 4) = TypeTags[kind]
  <2>1. /\ Text(buf, n, 4) \in Seq(Nat) /\ Len(Text(buf, n, 4)) = End(buf, n, 4) - 4
        /\ \A i \in 1..(End(buf, n, 4) - 4) : Text(buf, n, 4)[i] = buf[4 + i]
    <3>1. Nulls(buf, n, 4) # {} /\ 4 \in Nat
      BY <1>7
    <3> QED BY <3>1, TextOf
  <2>2. Len(Text(buf, n, 4)) = a + 1 /\ \A i \in 1..(a + 1) : Text(buf, n, 4)[i] = buf[4 + i]
    BY <2>1, <1>1, <1>7
  <2>3. ASSUME NEW i \in 1..(a + 1) PROVE Text(buf, n, 4)[i] = TypeTags[kind][i]
    <3>1. Text(buf, n, 4)[i] = buf[4 + i]
      BY <2>2
    <3>2. CASE i = 1
      BY <3>1, <3>2, <1>2, <1>3
    <3>3. CASE i # 1
      <4>1. i \in 2..(a + 1) /\ 4 + i \in 6..(5 + a)
        BY <3>3, <1>1
      <4> QED BY <3>1, <4>1, <1>2, <1>3
    <3> QED BY <3>2, <3>3
  <2>4. /\ Text(buf, n, 4) \in Seq(Nat) /\ TypeTags[kind] \in Seq(Nat)
        /\ Len(Text(buf, n, 4)) = Len(TypeTags[kind])
        /\ \A i \in 1..Len(Text(buf, n, 4)) : Text(buf, n, 4)[i] = TypeTags[kind][i]
    BY <2>1, <2>2, <2>3, <1>3
  <2> QED BY <2>4, SeqEqual
<1> QED BY <1>2, <1>4, <1>6, <1>8, <1>9, <1>10 DEF Reads, Malformed

LEMMA ReadsPattern ==
    ASSUME NEW buf, NEW n \in Nat, \A i \in 1..n : buf[i] \in Byte,
           NEW kind \in Kinds, Reads(buf, n, kind)
    PROVE  Pattern(buf, n, kind)
<1> DEFINE a == Arity[kind]
           e0 == End(buf, n, 0)
           e1 == End(buf, n, 4)
<1>1. a \in 3..4
  BY KindFacts
<1>2. /\ TypeTags[kind] \in Seq(Nat) /\ Len(TypeTags[kind]) = a + 1
      /\ TypeTags[kind][1] = 44 /\ \A i \in 2..(a + 1) : TypeTags[kind][i] = 105
  BY TagsOf
<1>3. Len(Address[kind]) = 1 /\ Address[kind][1] = Letter(kind)
  BY KindFacts DEF Letter
<1>4. Nulls(buf, n, 0) # {}
  BY DEF Reads, Args, Tags, ReadOscString
<1>5. e0 = 1 /\ buf[1] = Letter(kind) /\ buf[2] = 0
  <2>1. e0 \in 0..(n - 1) /\ buf[e0 + 1] = 0
    BY <1>4, EndIs
  <2>2. /\ Len(Text(buf, n, 0)) = e0 - 0
        /\ \A i \in 1..(e0 - 0) : Text(buf, n, 0)[i] = buf[0 + i]
    BY <1>4, TextOf
  <2>3. Text(buf, n, 0) = Address[kind]
    BY DEF Reads
  <2> HIDE DEF e0
  <2>4. e0 = 1
    BY <2>1, <2>2, <2>3, <1>3
  <2> QED BY <2>1, <2>2, <2>3, <2>4, <1>3
<1>6. Tags(buf, n) = 4
  BY <1>4, <1>5 DEF Tags, ReadOscString, Padded, Malformed
<1>7. Nulls(buf, n, 4) # {}
  BY <1>6 DEF Reads, Args, ReadOscString
<1>8. /\ e1 = 5 + a /\ buf[6 + a] = 0
      /\ \A i \in 1..(a + 1) : buf[4 + i] = TypeTags[kind][i]
  <2>1. e1 \in 4..(n - 1) /\ buf[e1 + 1] = 0
    BY <1>7, EndIs
  <2>2. /\ Len(Text(buf, n, 4)) = e1 - 4
        /\ \A i \in 1..(e1 - 4) : Text(buf, n, 4)[i] = buf[4 + i]
    <3>1. Nulls(buf, n, 4) # {} /\ 4 \in Nat
      BY <1>7
    <3> QED BY <3>1, TextOf
  <2>3. Text(buf, n, 4) = TypeTags[kind]
    BY <1>6 DEF Reads
  <2> HIDE DEF e1, a
  <2>4. e1 = 5 + a
    BY <2>1, <2>2, <2>3, <1>1, <1>2
  <2>5. e1 + 1 = 6 + a /\ e1 - 4 = a + 1
    BY <2>4, <1>1
  <2> QED BY <2>1, <2>2, <2>3, <2>4, <2>5
<1>9. Args(buf, n) = 12
  <2>1. ReadOscString(buf, n, 4) = 4 + Padded(End(buf, n, 4) - 4 + 1)
    BY <1>7 DEF ReadOscString, Malformed
  <2>2. End(buf, n, 4) - 4 + 1 = a + 2
    BY <1>1, <1>8
  <2>3. Padded(a + 2) = 8
    BY <1>1 DEF Padded
  <2> QED BY <2>1, <2>2, <2>3, <1>6 DEF Args
<1>10. 12 + 4 * a <= n
  BY <1>9 DEF Reads, HasArguments
<1> HIDE DEF a, e0, e1
<1>11. buf[5] = 44
  <2>1. 1 \in 1..(a + 1) /\ 4 + 1 = 5
    BY <1>1
  <2> QED BY <2>1, <1>2, <1>8
<1>12. ASSUME NEW i \in 6..(5 + a) PROVE buf[i] = 105
  <2>1. i - 4 \in 1..(a + 1) /\ i - 4 \in 2..(a + 1) /\ 4 + (i - 4) = i
    BY <1>1
  <2>2. buf[4 + (i - 4)] = TypeTags[kind][i - 4]
    BY <2>1, <1>8
  <2>3. TypeTags[kind][i - 4] = 105
    BY <2>1, <1>2
  <2> QED BY <2>1, <2>2, <2>3
<1> QED BY <1>5, <1>8, <1>10, <1>11, <1>12 DEF Pattern, a

LEMMA LettersDiffer ==
    ASSUME NEW j \in Kinds, NEW k \in Kinds, Letter(j) = Letter(k)
    PROVE  j = k
<1>1. \A x \in Kinds : \/ x = "note_on" /\ Letter(x) = 97
                       \/ x = "note_off" /\ Letter(x) = 98
                       \/ x = "cc" /\ Letter(x) = 99
  BY DEF Kinds, Letter, Address
<1> QED BY <1>1

\* A packet means nothing, or one event.
Event(buf, kind) ==
    [kind |-> kind, args |-> [i \in 1..Arity[kind] |-> ReadOscInt32(buf, 12 + 4 * (i - 1))]]

LEMMA EventsOf ==
    ASSUME NEW buf, NEW n \in Nat, \A i \in 1..n : buf[i] \in Byte
    PROVE  /\ (\A k \in Kinds : ~Pattern(buf, n, k)) => DecodeMessage(buf, n) = {}
           /\ \A k \in Kinds : Pattern(buf, n, k) => DecodeMessage(buf, n) = {Event(buf, k)}
<1> DEFINE Decoded(k) == [kind |-> k, args |-> [i \in 1..Arity[k] |->
                              ReadOscInt32(buf, Args(buf, n) + 4 * (i - 1))]]
<1>1. DecodeMessage(buf, n) = {Decoded(k) : k \in {k \in Kinds : Reads(buf, n, k)}}
  BY DEF DecodeMessage, Reads, Tags, Args
<1>2. \A k \in Kinds : Reads(buf, n, k) <=> Pattern(buf, n, k)
  BY PatternReads, ReadsPattern
<1>3. ASSUME NEW k \in Kinds, Pattern(buf, n, k) PROVE Decoded(k) = Event(buf, k)
  <2>1. Args(buf, n) = 12
    BY <1>3, PatternReads
  <2> QED BY <2>1 DEF Event
<1>4. ASSUME NEW j \in Kinds, NEW k \in Kinds, Pattern(buf, n, j), Pattern(buf, n, k)
      PROVE  j = k
  <2>1. Letter(j) = Letter(k)
    BY <1>4 DEF Pattern
  <2> QED BY <2>1, LettersDiffer
<1> HIDE DEF Decoded
<1>5. ASSUME NEW k \in Kinds, Pattern(buf, n, k)
      PROVE  DecodeMessage(buf, n) = {Event(buf, k)}
  <2>1. {j \in Kinds : Reads(buf, n, j)} = {k}
    BY <1>2, <1>4, <1>5
  <2>2. DecodeMessage(buf, n) = {Decoded(k)}
    BY <1>1, <2>1
  <2> QED BY <2>2, <1>3, <1>5
<1>6. ASSUME \A k \in Kinds : ~Pattern(buf, n, k) PROVE DecodeMessage(buf, n) = {}
  <2>1. {j \in Kinds : Reads(buf, n, j)} = {}
    BY <1>2, <1>6
  <2> QED BY <1>1, <2>1
<1> QED BY <1>5, <1>6

-----------------------------------------------------------------------------
\* What the sinks make of an event.

LEMMA SetToSeqEmpty == SetToSeq({}) = <<>>
<1>1. Cardinality({}) = 0
  BY FS_EmptySet
<1>2. [1..0 -> {}] = {<<>>}
  <2>1. <<>> \in [1..0 -> {}]
    OBVIOUS
  <2>2. ASSUME NEW f \in [1..0 -> {}] PROVE f = <<>>
    <3>1. f \in Seq({}) /\ Len(f) = 0
      BY SeqDef
    <3> QED BY <3>1, EmptySeq
  <2> QED BY <2>1, <2>2
<1>3. IsInjective(<<>>)
  BY DEF IsInjective
<1> QED BY <1>1, <1>2, <1>3 DEF SetToSeq

LEMMA SetToSeqOne ==
    ASSUME NEW x
    PROVE  SetToSeq({x}) = <<x>>
<1>1. Cardinality({x}) = 1
  BY FS_Singleton
<1>2. [1..1 -> {x}] = {<<x>>}
  <2>1. <<x>> \in [1..1 -> {x}]
    OBVIOUS
  <2>2. ASSUME NEW f \in [1..1 -> {x}] PROVE f = <<x>>
    OBVIOUS
  <2> QED BY <2>1, <2>2
<1>3. IsInjective(<<x>>)
  BY DEF IsInjective
<1> QED BY <1>1, <1>2, <1>3 DEF SetToSeq

LEMMA ClampIn ==
    ASSUME NEW x \in Int
    PROVE  Clamp(1, 16, x) \in 1..16 /\ Clamp(0, 127, x) \in 0..127
BY DEF Clamp

LEMMA Int32IsInt ==
    ASSUME NEW buf, NEW n \in Nat, \A i \in 1..n : buf[i] \in Byte,
           NEW cursor \in Nat, cursor + 4 <= n
    PROVE  ReadOscInt32(buf, cursor) \in Int
<1> DEFINE u(i) == buf[cursor + 1 + i]
<1>1. u(0) \in Byte /\ u(1) \in Byte /\ u(2) \in Byte /\ u(3) \in Byte
  OBVIOUS
<1>2. ReadOscInt32(buf, cursor) = 256 * (256 * (256 * Signed(u(0)) + u(1)) + u(2)) + u(3)
  BY DEF ReadOscInt32
<1> HIDE DEF u
<1>3. u(0) \in Int /\ u(1) \in Int /\ u(2) \in Int /\ u(3) \in Int
  BY <1>1 DEF Byte
<1>4. Signed(u(0)) \in Int
  BY <1>3 DEF Signed
<1> QED BY <1>2, <1>3, <1>4

LEMMA SameInt32 ==
    ASSUME NEW buf, NEW d, NEW n \in Nat, \A i \in 1..n : buf[i] = d[i],
           NEW cursor \in Nat, cursor + 4 <= n
    PROVE  ReadOscInt32(buf, cursor) = ReadOscInt32(d, cursor)
<1>1. /\ buf[cursor + 1 + 0] = d[cursor + 1 + 0] /\ buf[cursor + 1 + 1] = d[cursor + 1 + 1]
      /\ buf[cursor + 1 + 2] = d[cursor + 1 + 2] /\ buf[cursor + 1 + 3] = d[cursor + 1 + 3]
  OBVIOUS
<1> QED BY <1>1 DEF ReadOscInt32

Messages == [kind : Kinds, channel : 1..16, data : Seq(0..127)]
Items    == [from : Nat \ {0}, message : Messages]

LEMMA MessageOf ==
    ASSUME NEW buf, NEW n \in Nat, \A i \in 1..n : buf[i] \in Byte,
           NEW kind \in Kinds, Pattern(buf, n, kind)
    PROVE  /\ MidiMessage(Event(buf, kind)) = Meaning(buf, kind)
           /\ Meaning(buf, kind) \in Messages
<1> DEFINE a == Arity[kind]
           arg == [i \in 1..a |-> ReadOscInt32(buf, 12 + 4 * (i - 1))]
           data == [i \in 1..(a - 2) |-> Clamp(0, 127, arg[i + 2])]
           M == [kind |-> kind, channel |-> Clamp(1, 16, arg[2]), data |-> data]
<1>1. a \in 3..4
  BY KindFacts
<1>2. 12 + 4 * a <= n
  BY DEF Pattern
<1>3. Len(Layout[kind]) = 12
  BY LayoutOf
<1>4. Event(buf, kind) = [kind |-> kind, args |-> arg]
  BY DEF Event
<1>5. Meaning(buf, kind) =
        [kind |-> kind, channel |-> Clamp(1, 16, ReadOscInt32(buf, 12 + 4 * (2 - 1))),
         data |-> [i \in 1..(a - 2) |-> Clamp(0, 127, ReadOscInt32(buf, 12 + 4 * (i + 2 - 1)))]]
  BY <1>3 DEF Meaning
<1> HIDE DEF a
<1>6. \A i \in 1..a : arg[i] = ReadOscInt32(buf, 12 + 4 * (i - 1))
  OBVIOUS
<1>7. Len(arg) = a
  BY <1>1
<1> HIDE DEF arg
<1>8. MidiMessage(Event(buf, kind)) = M
  <2> DEFINE e == Event(buf, kind)
  <2>1. e.kind = kind /\ e.args = arg
    BY <1>4
  <2> HIDE DEF e
  <2>2. MidiMessage(e) = [kind |-> e.kind, channel |-> Clamp(1, 16, e.args[2]),
                          data |-> [i \in 1..(Len(e.args) - 2) |-> Clamp(0, 127, e.args[i + 2])]]
    BY DEF MidiMessage
  <2> QED BY <2>1, <2>2, <1>7 DEF e
<1>9. Meaning(buf, kind) = M
  <2>1. arg[2] = ReadOscInt32(buf, 12 + 4 * (2 - 1))
    BY <1>1, <1>6
  <2>2. \A i \in 1..(a - 2) : arg[i + 2] = ReadOscInt32(buf, 12 + 4 * (i + 2 - 1))
    BY <1>1, <1>6
  <2>3. data = [i \in 1..(a - 2) |-> Clamp(0, 127, ReadOscInt32(buf, 12 + 4 * (i + 2 - 1)))]
    BY <2>2
  <2> QED BY <1>5, <2>1, <2>3
<1>10. ASSUME NEW i \in 1..a PROVE arg[i] \in Int
  <2>1. 12 + 4 * (i - 1) \in Nat /\ 12 + 4 * (i - 1) + 4 <= n
    BY <1>1, <1>2
  <2> QED BY <2>1, <1>6, Int32IsInt
<1>11. Clamp(1, 16, arg[2]) \in 1..16
  <2>1. arg[2] \in Int
    BY <1>1, <1>10
  <2> QED BY <2>1, ClampIn
<1>12. ASSUME NEW i \in 1..(a - 2) PROVE Clamp(0, 127, arg[i + 2]) \in 0..127
  <2>1. arg[i + 2] \in Int
    BY <1>1, <1>10
  <2> QED BY <2>1, ClampIn
<1>13. data \in Seq(0..127)
  BY <1>1, <1>12
<1> HIDE DEF data
<1>14. M \in Messages
  BY <1>11, <1>13 DEF Messages
<1> QED BY <1>8, <1>9, <1>14

\* A datagram and the buffer it was read into mean the same.
LEMMA SameMeaning ==
    ASSUME NEW buf, NEW d, NEW n \in Nat, \A i \in 1..n : buf[i] = d[i],
           NEW kind \in Kinds, Pattern(buf, n, kind)
    PROVE  Meaning(buf, kind) = Meaning(d, kind)
<1> DEFINE a == Arity[kind]
<1>1. a \in 3..4
  BY KindFacts
<1>2. 12 + 4 * a <= n
  BY DEF Pattern
<1>3. Len(Layout[kind]) = 12
  BY LayoutOf
<1>4. ASSUME NEW b
      PROVE  Meaning(b, kind) =
        [kind |-> kind, channel |-> Clamp(1, 16, ReadOscInt32(b, 12 + 4 * (2 - 1))),
         data |-> [i \in 1..(a - 2) |-> Clamp(0, 127, ReadOscInt32(b, 12 + 4 * (i + 2 - 1)))]]
  BY <1>3 DEF Meaning
<1> HIDE DEF a
<1>5. ReadOscInt32(buf, 12 + 4 * (2 - 1)) = ReadOscInt32(d, 12 + 4 * (2 - 1))
  <2>1. 12 + 4 * (2 - 1) \in Nat /\ 12 + 4 * (2 - 1) + 4 <= n
    BY <1>1, <1>2
  <2> QED BY <2>1, SameInt32
<1>6. ASSUME NEW i \in 1..(a - 2)
      PROVE  ReadOscInt32(buf, 12 + 4 * (i + 2 - 1)) = ReadOscInt32(d, 12 + 4 * (i + 2 - 1))
  <2>1. 12 + 4 * (i + 2 - 1) \in Nat /\ 12 + 4 * (i + 2 - 1) + 4 <= n
    BY <1>1, <1>2
  <2> QED BY <2>1, SameInt32
<1> QED BY <1>4, <1>5, <1>6

LEMMA SamePattern ==
    ASSUME NEW buf, NEW d, NEW n \in Nat, \A i \in 1..n : buf[i] = d[i], NEW kind \in Kinds
    PROVE  Pattern(buf, n, kind) <=> Pattern(d, n, kind)
<1> DEFINE a == Arity[kind]
<1>1. a \in 3..4
  BY KindFacts
<1>2. \A b : Pattern(b, n, kind) <=>
        /\ 12 + 4 * a <= n /\ b[1] = Letter(kind) /\ b[2] = 0 /\ b[5] = 44
        /\ \A i \in 6..(5 + a) : b[i] = 105
        /\ b[6 + a] = 0
  BY DEF Pattern
<1> HIDE DEF a
<1>3. ASSUME 12 + 4 * a <= n PROVE \A i \in 1..(6 + a) : buf[i] = d[i]
  BY <1>1, <1>3
<1>4. 1 \in 1..(6 + a) /\ 2 \in 1..(6 + a) /\ 5 \in 1..(6 + a) /\ 6 + a \in 1..(6 + a)
  BY <1>1
<1>5. \A i \in 6..(5 + a) : i \in 1..(6 + a)
  BY <1>1
<1>6. CASE 12 + 4 * a <= n
  BY <1>2, <1>3, <1>4, <1>5, <1>6
<1>7. CASE ~(12 + 4 * a <= n)
  BY <1>2, <1>7
<1> QED BY <1>6, <1>7

-----------------------------------------------------------------------------
\* The invariant of the worker and the collector: their types, and that what
\* the worker has in hand is the last datagram.

Handled == IF worker = "handling" THEN Len(received) - 1 ELSE Len(received)

OscTypes ==
    /\ oscRunning \in BOOLEAN /\ oscQuit \in BOOLEAN
    /\ worker \in {"none", "top", "waiting", "handling", "ended"}
    /\ recvBuf \in [1..BufSize -> Byte] /\ size \in 0..BufSize
    /\ received \in Seq(Seq(Byte)) /\ Len(received) <= MaxDatagrams
    /\ collector \in Seq(Items) /\ played \in Seq(Items)

InHand ==
    worker = "handling" =>
        /\ received # <<>> /\ size = Len(received[Len(received)])
        /\ \A i \in 1..size : recvBuf[i] = received[Len(received)][i]

\* The parts of MidiFollowsOsc: of a sequence s of messages, the first h of the
\* datagrams r, and what has expired.
InOrder(s) == \A i, j \in 1..Len(s) : i < j => s[i].from < s[j].from
SaidBy(m, h, r) ==
    /\ m.from \in 1..h /\ Says(r[m.from], m.message.kind)
    /\ m.message = Meaning(r[m.from], m.message.kind)
Faithful(s, h, r) == \A i \in 1..Len(s) : SaidBy(s[i], h, r)
Complete(s, h, r, x) ==
    \A n \in 1..h : (\E kind \in Kinds : Says(r[n], kind)) =>
        n \in x \/ \E i \in 1..Len(s) : s[i].from = n
Follows(s, h, r, x) == InOrder(s) /\ Faithful(s, h, r) /\ Complete(s, h, r, x)

OscInv == OscTypes /\ InHand /\ Follows(played \o collector, Handled, received, expired)

LEMMA SoFarType ==
    ASSUME OscTypes
    PROVE  /\ played \o collector \in Seq(Items)
           /\ Len(played \o collector) = Len(played) + Len(collector)
           /\ \A i \in 1..Len(played) : (played \o collector)[i] = played[i]
           /\ \A i \in 1..Len(collector) :
                  (played \o collector)[Len(played) + i] = collector[i]
<1>1. played \in Seq(Items) /\ collector \in Seq(Items)
  BY DEF OscTypes
<1>2. Len(played) \in Nat /\ Len(collector) \in Nat
  BY <1>1, LenProperties
<1>3. /\ played \o collector \in Seq(Items)
      /\ Len(played \o collector) = Len(played) + Len(collector)
      /\ \A i \in 1..(Len(played) + Len(collector)) : (played \o collector)[i] =
            IF i <= Len(played) THEN played[i] ELSE collector[i - Len(played)]
  BY <1>1, ConcatProperties
<1> QED BY <1>2, <1>3

LEMMA FollowsIsMidiFollowsOsc ==
    ASSUME OscTypes
    PROVE  MidiFollowsOsc <=> Follows(played \o collector, Handled, received, expired)
<1> DEFINE s == played \o collector
<1>1. DOMAIN s = 1..Len(s)
  BY SoFarType, LenProperties
<1>2. MidiFollowsOsc <=>
        /\ \A i, j \in DOMAIN s : i < j => s[i].from < s[j].from
        /\ \A i \in DOMAIN s : SaidBy(s[i], Handled, received)
        /\ \A n \in 1..Handled :
              (\E kind \in Kinds : Says(received[n], kind)) =>
                  n \in {s[i].from : i \in DOMAIN s} \union expired
  BY DEF MidiFollowsOsc, Handled, SaidBy
<1> HIDE DEF s
<1>3. \A n : n \in {s[i].from : i \in DOMAIN s} \union expired
                <=> n \in expired \/ \E i \in 1..Len(s) : s[i].from = n
  BY <1>1
<1>4. QED
  BY <1>1, <1>2, <1>3 DEF Follows, InOrder, Faithful, Complete, s

LEMMA OscInvImplies == OscInv => OscTypeOK /\ MidiFollowsOsc
<1> SUFFICES ASSUME OscInv PROVE OscTypeOK /\ MidiFollowsOsc
  OBVIOUS
<1>1. MidiFollowsOsc
  BY FollowsIsMidiFollowsOsc DEF OscInv
<1> DEFINE s == collector \o played
<1>2. s \in Seq(Items)
  BY ConcatProperties DEF OscInv, OscTypes
<1>3. ASSUME NEW i \in 1..Len(s)
      PROVE  /\ s[i].message.kind \in Kinds /\ s[i].message.channel \in 1..16
             /\ \A j \in DOMAIN s[i].message.data : s[i].message.data[j] \in 0..127
  <2> HIDE DEF s
  <2>1. s[i] \in Items
    BY <1>2, ElementOfSeq
  <2>2. s[i].message \in Messages
    BY <2>1 DEF Items
  <2>3. /\ s[i].message.kind \in Kinds /\ s[i].message.channel \in 1..16
        /\ s[i].message.data \in Seq(0..127)
    BY <2>2 DEF Messages
  <2> DEFINE f == s[i].message.data
  <2>4. f \in Seq(0..127)
    BY <2>3
  <2> HIDE DEF f
  <2>5. \A j \in DOMAIN f : f[j] \in 0..127
    BY <2>4, LenProperties, ElementOfSeq
  <2> QED BY <2>3, <2>5 DEF f
<1>4. OscTypeOK <=>
        /\ oscRunning \in BOOLEAN /\ oscQuit \in BOOLEAN
        /\ worker \in {"none", "top", "waiting", "handling", "ended"}
        /\ recvBuf \in [1..BufSize -> 0..255] /\ size \in 0..BufSize
        /\ Len(received) <= MaxDatagrams
        /\ \A i \in 1..Len(s) :
              /\ s[i].message.kind \in Kinds /\ s[i].message.channel \in 1..16
              /\ \A j \in DOMAIN s[i].message.data : s[i].message.data[j] \in 0..127
  BY DEF OscTypeOK
<1> HIDE DEF s
<1>5. OscTypeOK
  BY <1>3, <1>4 DEF OscInv, OscTypes, Byte
<1> QED BY <1>1, <1>5

LEMMA InitOsc == Init => OscInv
<1> SUFFICES ASSUME Init PROVE OscInv
  OBVIOUS
<1>1. /\ oscRunning = FALSE /\ oscQuit = FALSE /\ worker = "none"
      /\ recvBuf = [i \in 1..BufSize |-> 0] /\ size = 0
      /\ received = <<>> /\ collector = <<>> /\ played = <<>> /\ expired = {}
  BY DEF Init, OscInit
<1>2. OscTypes
  <2>1. /\ received \in Seq(Seq(Byte)) /\ Len(received) = 0
        /\ collector \in Seq(Items) /\ played \in Seq(Items)
    BY <1>1, EmptySeq
  <2>2. recvBuf \in [1..BufSize -> Byte] /\ size \in 0..BufSize
    BY <1>1, OscAssumption DEF Byte
  <2>3. Len(received) <= MaxDatagrams
    BY <2>1, OscAssumption
  <2> QED BY <1>1, <2>1, <2>2, <2>3 DEF OscTypes
<1>3. Len(played \o collector) = 0 /\ Handled = 0
  <2>1. Len(played) = 0 /\ Len(collector) = 0 /\ Len(received) = 0
    BY <1>1, EmptySeq
  <2> QED BY <2>1, <1>1, <1>2, SoFarType DEF Handled
<1>4. Follows(played \o collector, Handled, received, expired)
  <2>1. 1..Len(played \o collector) = {} /\ 1..Handled = {}
    BY <1>3
  <2> QED BY <2>1 DEF Follows, InOrder, Faithful, Complete
<1> QED BY <1>1, <1>2, <1>4 DEF OscInv, InHand

\* Steps that leave the buffer, the collector and the history alone, and do not
\* take the worker into or out of a packet.
LEMMA WorkerMoves ==
    ASSUME OscInv, worker # "handling", worker' # "handling",
           worker' \in {"none", "top", "waiting", "ended"},
           oscRunning' \in BOOLEAN, oscQuit' \in BOOLEAN,
           UNCHANGED <<recvBuf, size, received, midi>>
    PROVE  OscInv'
<1>1. UNCHANGED <<recvBuf, size, received, collector, played, expired>>
  BY DEF midi
<1>2. OscTypes'
  BY <1>1 DEF OscInv, OscTypes
<1>3. Handled' = Handled
  BY <1>1 DEF Handled
<1>4. Follows(played \o collector, Handled, received, expired)'
  BY <1>1, <1>3 DEF OscInv, Follows, InOrder, Faithful, Complete, SaidBy
<1> QED BY <1>2, <1>4 DEF OscInv, InHand

LEMMA ReceiveKeeps ==
    ASSUME OscInv, Receive
    PROVE  OscInv'
<1>1. PICK d \in Datagrams :
        LET n == IF Len(d) > BufSize THEN BufSize ELSE Len(d)
        IN  /\ received' = Append(received, SubSeq(d, 1, n))
            /\ size' = n
            /\ recvBuf' = [i \in 1..BufSize |-> IF i <= n THEN d[i] ELSE recvBuf[i]]
  BY DEF Receive
<1>2. /\ worker = "waiting" /\ Len(received) < MaxDatagrams /\ worker' = "handling"
      /\ UNCHANGED <<oscRunning, oscQuit, collector, played, expired>>
  BY DEF Receive, oscServer, midi
<1> DEFINE n == IF Len(d) > BufSize THEN BufSize ELSE Len(d)
           read == SubSeq(d, 1, n)
<1>3. /\ received' = Append(received, read) /\ size' = n
      /\ recvBuf' = [i \in 1..BufSize |-> IF i <= n THEN d[i] ELSE recvBuf[i]]
  BY <1>1
<1>4. d \in Seq(Byte) /\ BufSize \in Nat /\ MaxDatagrams \in Nat
  BY OscAssumption DEF Byte
<1>5. Len(d) \in Nat /\ \A i \in 1..Len(d) : d[i] \in Byte
  BY <1>4, LenProperties, ElementOfSeq
<1>6. n \in 0..BufSize /\ n <= Len(d)
  BY <1>4, <1>5
<1> HIDE DEF n
<1>7. read \in Seq(Byte) /\ Len(read) = n /\ \A i \in 1..n : read[i] = d[i]
  <2>1. 1 \in Int /\ n \in Int /\ \A i \in 1..n : d[i] \in Byte
    BY <1>4, <1>5, <1>6
  <2>2. /\ read \in Seq(Byte) /\ Len(read) = IF 1 <= n THEN n - 1 + 1 ELSE 0
        /\ \A i \in 1..(n - 1 + 1) : read[i] = d[1 + i - 1]
    BY <2>1, SubSeqProperties
  <2>3. ASSUME NEW i \in 1..n PROVE read[i] = d[i]
    <3>1. i \in 1..(n - 1 + 1) /\ 1 + i - 1 = i
      BY <2>1
    <3> QED BY <3>1, <2>2
  <2> QED BY <2>2, <2>3, <1>4, <1>6
<1> HIDE DEF read
<1>8. received \in Seq(Seq(Byte))
  BY DEF OscInv, OscTypes
<1>9. /\ received' \in Seq(Seq(Byte)) /\ Len(received') = Len(received) + 1
      /\ Len(received) \in Nat
      /\ received'[Len(received')] = read
      /\ \A i \in 1..Len(received) : received'[i] = received[i]
  <2>1. /\ Append(received, read) \in Seq(Seq(Byte))
        /\ Len(Append(received, read)) = Len(received) + 1
        /\ \A i \in 1..Len(received) : Append(received, read)[i] = received[i]
        /\ Append(received, read)[Len(received) + 1] = read
    BY <1>7, <1>8, AppendProperties
  <2>2. Len(received) \in Nat
    BY <1>8, LenProperties
  <2> QED BY <2>1, <2>2, <1>3
<1>10. recvBuf' \in [1..BufSize -> Byte]
  <2>1. recvBuf \in [1..BufSize -> Byte]
    BY DEF OscInv, OscTypes
  <2>2. ASSUME NEW i \in 1..BufSize PROVE (IF i <= n THEN d[i] ELSE recvBuf[i]) \in Byte
    BY <2>1, <1>4, <1>5, <1>6
  <2> QED BY <2>2, <1>3
<1>11. OscTypes'
  BY <1>2, <1>3, <1>4, <1>6, <1>9, <1>10 DEF OscInv, OscTypes
<1>12. InHand'
  <2>1. received' # <<>>
    BY <1>9, EmptySeq
  <2>2. ASSUME NEW i \in 1..n PROVE recvBuf'[i] = received'[Len(received')][i]
    BY <1>3, <1>4, <1>6, <1>7, <1>9
  <2> QED BY <2>1, <2>2, <1>3, <1>7, <1>9 DEF InHand
<1>13. Handled = Len(received) /\ Handled' = Len(received)
  BY <1>2, <1>9 DEF Handled
<1> DEFINE s == played \o collector
<1>14. Follows(s, Handled, received, expired)
  BY DEF OscInv
<1>15. s' = s /\ expired' = expired
  BY <1>2
<1> HIDE DEF s
<1>16. Follows(s, Len(received), received', expired)
  <2>1. \A m : SaidBy(m, Len(received), received) => SaidBy(m, Len(received), received')
    BY <1>9 DEF SaidBy
  <2>2. Faithful(s, Len(received), received')
    BY <2>1, <1>13, <1>14 DEF Follows, Faithful
  <2>3. Complete(s, Len(received), received', expired)
    BY <1>9, <1>13, <1>14 DEF Follows, Complete
  <2> QED BY <2>2, <2>3, <1>14 DEF Follows
<1>17. Follows(s', Handled', received', expired')
  BY <1>13, <1>15, <1>16
<1> QED BY <1>11, <1>12, <1>17 DEF OscInv, s

LEMMA HandleKeeps ==
    ASSUME OscInv, HandlePacket
    PROVE  OscInv'
<1> DEFINE N == Len(received)
           r == received[N]
           Item(event) == [from |-> N, message |-> MidiMessage(event)]
           found == {Item(event) : event \in DecodeMessage(recvBuf, size)}
           s == played \o collector
<1>1. /\ worker = "handling" /\ worker' = "top"
      /\ collector' = collector \o SetToSeq(found)
      /\ UNCHANGED <<oscRunning, oscQuit, recvBuf, size, received, played, expired>>
  BY DEF HandlePacket, oscServer
<1>2. /\ received # <<>> /\ size = Len(r) /\ \A i \in 1..size : recvBuf[i] = r[i]
  BY <1>1 DEF OscInv, InHand
<1>3. /\ received \in Seq(Seq(Byte)) /\ size \in 0..BufSize /\ BufSize \in Nat
      /\ recvBuf \in [1..BufSize -> Byte]
      /\ collector \in Seq(Items) /\ played \in Seq(Items)
  BY OscAssumption DEF OscInv, OscTypes
<1>4. N \in Nat \ {0} /\ r \in Seq(Byte)
  <2>1. N \in Nat \ {0}
    BY <1>2, <1>3, EmptySeq, LenProperties
  <2> HIDE DEF N
  <2>2. N \in 1..Len(received)
    BY <2>1 DEF N
  <2> QED BY <2>1, <2>2, <1>3, ElementOfSeq
<1>5. size \in Nat /\ \A i \in 1..size : recvBuf[i] \in Byte
  BY <1>3
<1>6. \A k \in Kinds : Says(r, k) <=> Pattern(recvBuf, size, k)
  <2> HIDE DEF r
  <2> SUFFICES ASSUME NEW k \in Kinds PROVE Says(r, k) <=> Pattern(recvBuf, size, k)
    OBVIOUS
  <2>1. Says(r, k) <=> Pattern(r, size, k)
    BY <1>2, <1>4, SaysIsPattern
  <2>2. Pattern(recvBuf, size, k) <=> Pattern(r, size, k)
    BY <1>2, <1>5, SamePattern
  <2> QED BY <2>1, <2>2
<1>7. Handled = N - 1 /\ Handled' = N
  BY <1>1 DEF Handled
<1>8. Follows(s, N - 1, received, expired)
  BY <1>7 DEF OscInv
<1>9. s \in Seq(Items) /\ Len(s) \in Nat
  BY SoFarType, LenProperties DEF OscInv
<1>10. N = Len(received) /\ r = received[N]
  OBVIOUS
<1> HIDE DEF s, N, r, Item
<1>11. CASE \A k \in Kinds : ~Pattern(recvBuf, size, k)
  <2>1. DecodeMessage(recvBuf, size) = {}
    BY <1>5, <1>11, EventsOf
  <2>2. found = {}
    BY <2>1
  <2> HIDE DEF found
  <2>3. collector' = collector
    BY <1>1, <1>3, <2>2, SetToSeqEmpty, ConcatEmptySeq
  <2>4. OscTypes'
    BY <1>1, <2>3 DEF OscInv, OscTypes
  <2>5. s' = s
    BY <1>1, <2>3 DEF s
  <2>6. Faithful(s, N, received)
    BY <1>4, <1>8 DEF Follows, Faithful, SaidBy
  <2>7. Complete(s, N, received, expired)
    <3>1. ASSUME NEW n \in 1..N, \E kind \in Kinds : Says(received[n], kind) PROVE n # N
      BY <3>1, <1>6, <1>10, <1>11
    <3>2. \A n \in 1..N : n # N => n \in 1..(N - 1)
      BY <1>4
    <3> QED BY <3>1, <3>2, <1>8 DEF Follows, Complete
  <2>8. Follows(s, N, received, expired)
    BY <2>6, <2>7, <1>8 DEF Follows
  <2>9. Follows(s', Handled', received', expired')
    BY <2>5, <2>8, <1>1, <1>7
  <2> QED BY <2>4, <2>9, <1>1 DEF OscInv, InHand, s
<1>12. ASSUME NEW k \in Kinds, Pattern(recvBuf, size, k) PROVE OscInv'
  <2> DEFINE m == Item(Event(recvBuf, k))
  <2>1. DecodeMessage(recvBuf, size) = {Event(recvBuf, k)}
    BY <1>5, <1>12, EventsOf
  <2>2. found = {m}
    BY <2>1
  <2>3. SetToSeq(found) = <<m>>
    BY <2>2, SetToSeqOne
  <2>4. /\ MidiMessage(Event(recvBuf, k)) = Meaning(recvBuf, k)
        /\ Meaning(recvBuf, k) \in Messages
    BY <1>5, <1>12, MessageOf
  <2>5. Meaning(recvBuf, k) = Meaning(r, k)
    BY <1>2, <1>5, <1>12, SameMeaning
  <2>6. m.from = N /\ m.message = Meaning(r, k) /\ m \in Items
    BY <2>4, <2>5, <1>4 DEF Item, Items
  <2>7. m.message.kind = k
    BY <2>6 DEF Meaning
  <2> HIDE DEF m, found
  <2>8. collector' = collector \o <<m>>
    BY <1>1, <2>3
  <2>9. <<m>> \in Seq(Items) /\ Len(<<m>>) = 1 /\ <<m>>[1] = m
    BY <2>6
  <2>10. collector' \in Seq(Items)
    BY <1>3, <2>8, <2>9, ConcatProperties
  <2>11. OscTypes'
    BY <1>1, <2>10 DEF OscInv, OscTypes
  <2> DEFINE t == s \o <<m>>
  <2>12. s' = t
    <3>1. (played \o collector) \o <<m>> = played \o (collector \o <<m>>)
      BY <1>3, <2>9, ConcatAssociative
    <3> QED BY <3>1, <2>8, <1>1 DEF s
  <2>13. /\ Len(t) = Len(s) + 1 /\ t[Len(s) + 1] = m
         /\ \A i \in 1..Len(s) : t[i] = s[i]
    <3>1. /\ t \in Seq(Items) /\ Len(t) = Len(s) + Len(<<m>>)
          /\ \A i \in 1..(Len(s) + Len(<<m>>)) : t[i] =
                IF i <= Len(s) THEN s[i] ELSE <<m>>[i - Len(s)]
      BY <1>9, <2>9, ConcatProperties
    <3> HIDE DEF t
    <3>2. Len(s) + 1 \in 1..(Len(s) + Len(<<m>>)) /\ Len(s) + 1 - Len(s) = 1
      BY <1>9, <2>9
    <3>3. t[Len(s) + 1] = m
      BY <3>1, <3>2, <1>9, <2>9
    <3> QED BY <3>1, <3>3, <1>9, <2>9
  <2> HIDE DEF t
  <2>14. \A i \in 1..Len(t) : i \in 1..Len(s) \/ i = Len(s) + 1
    BY <1>9, <2>13
  <2>15. InOrder(t)
    <3> SUFFICES ASSUME NEW i \in 1..Len(t), NEW j \in 1..Len(t), i < j
                 PROVE  t[i].from < t[j].from
      BY DEF InOrder
    <3>1. i \in 1..Len(s)
      BY <1>9, <2>13
    <3>2. s[i].from \in 1..(N - 1)
      BY <3>1, <1>8 DEF Follows, Faithful, SaidBy
    <3>3. CASE j \in 1..Len(s)
      <4>1. s[i].from < s[j].from
        BY <3>1, <3>3, <1>8 DEF Follows, InOrder
      <4> QED BY <4>1, <3>1, <3>3, <2>13
    <3>4. CASE j = Len(s) + 1
      <4>1. t[j].from = N /\ t[i] = s[i]
        BY <3>1, <3>4, <2>6, <2>13
      <4> QED BY <4>1, <3>2, <1>4
    <3> QED BY <3>3, <3>4, <2>14
  <2>16. Faithful(t, N, received)
    <3> SUFFICES ASSUME NEW i \in 1..Len(t) PROVE SaidBy(t[i], N, received)
      BY DEF Faithful
    <3>1. CASE i \in 1..Len(s)
      <4>1. SaidBy(s[i], N - 1, received)
        BY <3>1, <1>8 DEF Follows, Faithful
      <4> QED BY <4>1, <3>1, <2>13, <1>4 DEF SaidBy
    <3>2. CASE i = Len(s) + 1
      <4>1. t[i] = m /\ Says(received[N], k) /\ N \in 1..N
        BY <3>2, <2>13, <1>4, <1>6, <1>10, <1>12
      <4> QED BY <4>1, <2>6, <2>7, <1>10 DEF SaidBy
    <3> QED BY <3>1, <3>2, <2>14
  <2>17. Complete(t, N, received, expired)
    <3> SUFFICES ASSUME NEW n \in 1..N, \E kind \in Kinds : Says(received[n], kind)
                 PROVE  n \in expired \/ \E i \in 1..Len(t) : t[i].from = n
      BY DEF Complete
    <3>1. CASE n = N
      <4>1. Len(s) + 1 \in 1..Len(t)
        BY <1>9, <2>13
      <4> QED BY <3>1, <4>1, <2>6, <2>13
    <3>2. CASE n # N
      <4>1. n \in 1..(N - 1)
        BY <3>2, <1>4
      <4>2. n \in expired \/ \E i \in 1..Len(s) : s[i].from = n
        BY <4>1, <1>8 DEF Follows, Complete
      <4>3. \A i \in 1..Len(s) : i \in 1..Len(t) /\ t[i] = s[i]
        BY <1>9, <2>13
      <4> QED BY <4>2, <4>3
    <3> QED BY <3>1, <3>2
  <2>18. Follows(s', Handled', received', expired')
    BY <2>12, <2>15, <2>16, <2>17, <1>1, <1>7 DEF Follows
  <2> QED BY <2>11, <2>18, <1>1 DEF OscInv, InHand, s
<1> QED BY <1>11, <1>12

LEMMA TakeKeeps ==
    ASSUME OscInv, TakeMidi
    PROVE  OscInv'
<1>1. /\ played' = played \o collector /\ collector' = <<>>
      /\ UNCHANGED <<oscRunning, oscQuit, worker, recvBuf, size, received, expired>>
  BY DEF TakeMidi, oscServer
<1>2. played' \in Seq(Items) /\ collector' \in Seq(Items)
  BY <1>1, SoFarType, EmptySeq DEF OscInv
<1>3. OscTypes'
  BY <1>1, <1>2 DEF OscInv, OscTypes
<1>4. (played \o collector)' = played \o collector
  BY <1>1, SoFarType, ConcatEmptySeq DEF OscInv
<1>5. Handled' = Handled
  BY <1>1 DEF Handled
<1>6. Follows(played \o collector, Handled, received, expired)'
  BY <1>1, <1>4, <1>5 DEF OscInv, Follows, InOrder, Faithful, Complete, SaidBy
<1> QED BY <1>1, <1>3, <1>6 DEF OscInv, InHand

LEMMA ExpireKeeps ==
    ASSUME OscInv, ExpireMidi
    PROVE  OscInv'
<1> DEFINE s == played \o collector
           t == played \o Tail(collector)
           p == Len(played)
<1>1. /\ collector # <<>> /\ expired' = expired \union {Head(collector).from}
      /\ collector' = Tail(collector)
      /\ UNCHANGED <<oscRunning, oscQuit, worker, recvBuf, size, received, played>>
  BY DEF ExpireMidi, oscServer
<1>2. collector \in Seq(Items) /\ played \in Seq(Items)
  BY DEF OscInv, OscTypes
<1>3. /\ Tail(collector) \in Seq(Items) /\ Len(Tail(collector)) = Len(collector) - 1
      /\ \A i \in 1..Len(Tail(collector)) : Tail(collector)[i] = collector[i + 1]
  BY <1>1, <1>2, HeadTailProperties
<1>4. Len(collector) \in Nat \ {0} /\ p \in Nat
  BY <1>1, <1>2, EmptySeq, LenProperties
<1>5. OscTypes'
  BY <1>1, <1>3 DEF OscInv, OscTypes
<1>6. /\ Len(s) = p + Len(collector)
      /\ \A i \in 1..p : s[i] = played[i]
      /\ \A i \in 1..Len(collector) : s[p + i] = collector[i]
  BY SoFarType DEF OscInv
<1>7. s' = t
  BY <1>1
<1>8. /\ Len(t) = p + (Len(collector) - 1)
      /\ \A i \in 1..p : t[i] = played[i]
      /\ \A i \in 1..(Len(collector) - 1) : t[p + i] = Tail(collector)[i]
  <2>1. /\ t \in Seq(Items) /\ Len(t) = p + Len(Tail(collector))
        /\ \A i \in 1..(p + Len(Tail(collector))) : t[i] =
              IF i <= p THEN played[i] ELSE Tail(collector)[i - p]
    BY <1>2, <1>3, ConcatProperties
  <2> HIDE DEF t, p
  <2>2. ASSUME NEW i \in 1..(Len(collector) - 1) PROVE t[p + i] = Tail(collector)[i]
    <3> DEFINE x == p + i
    <3>1. x \in 1..(p + Len(Tail(collector))) /\ ~(x <= p) /\ x - p = i
      BY <1>3, <1>4
    <3> HIDE DEF x
    <3>2. t[x] = Tail(collector)[x - p]
      BY <3>1, <2>1
    <3> QED BY <3>1, <3>2 DEF x
  <2> QED BY <2>1, <2>2, <1>3, <1>4
<1>9. Head(collector) = s[p + 1]
  BY <1>4, <1>6
<1> HIDE DEF s, t, p
<1>10. /\ Len(s) \in Nat /\ p + 1 \in 1..Len(s) /\ Len(t) = Len(s) - 1
       /\ \A i \in 1..p : i \in 1..Len(s) /\ t[i] = s[i]
       /\ \A i \in (p + 1)..Len(t) : i + 1 \in 1..Len(s) /\ t[i] = s[i + 1]
  <2>1. Len(s) \in Nat /\ p + 1 \in 1..Len(s) /\ Len(t) = Len(s) - 1
    BY <1>4, <1>6, <1>8
  <2>2. ASSUME NEW i \in 1..p PROVE i \in 1..Len(s) /\ t[i] = s[i]
    BY <1>4, <1>6, <1>8
  <2>3. ASSUME NEW i \in (p + 1)..Len(t) PROVE i + 1 \in 1..Len(s) /\ t[i] = s[i + 1]
    <3>1. /\ i - p \in 1..(Len(collector) - 1) /\ p + (i - p) = i
          /\ i - p + 1 \in 1..Len(collector) /\ p + (i - p + 1) = i + 1
      BY <1>4, <1>8
    <3>2. t[i] = Tail(collector)[i - p] /\ Tail(collector)[i - p] = collector[i - p + 1]
      BY <3>1, <1>3, <1>8
    <3>3. s[i + 1] = collector[i - p + 1]
      BY <3>1, <1>6
    <3>4. i + 1 \in 1..Len(s)
      BY <1>4, <2>1
    <3> QED BY <3>2, <3>3, <3>4
  <2> QED BY <2>1, <2>2, <2>3
<1>11. Follows(s, Handled, received, expired)
  BY DEF OscInv, s
<1> DEFINE at(i) == IF i <= p THEN i ELSE i + 1
<1>12. \A i \in 1..Len(t) : at(i) \in 1..Len(s) /\ t[i] = s[at(i)]
  BY <1>4, <1>10
<1>13. \A i, j \in 1..Len(t) : i < j => at(i) < at(j)
  BY <1>4, <1>10
<1>14. ASSUME NEW j \in 1..Len(s), j # p + 1 PROVE \E i \in 1..Len(t) : at(i) = j
  <2>1. CASE j <= p
    <3>1. j \in 1..Len(t) /\ at(j) = j
      BY <2>1, <1>4, <1>10
    <3> QED BY <3>1
  <2>2. CASE j > p
    <3>1. j - 1 \in 1..Len(t) /\ at(j - 1) = j
      BY <2>2, <1>4, <1>10, <1>14
    <3> QED BY <3>1
  <2> QED BY <2>1, <2>2, <1>4
<1> HIDE DEF at
<1>15. InOrder(t)
  BY <1>11, <1>12, <1>13 DEF Follows, InOrder
<1>16. Faithful(t, Handled, received)
  BY <1>11, <1>12 DEF Follows, Faithful
<1>17. Complete(t, Handled, received, expired')
  <2> SUFFICES ASSUME NEW n \in 1..Handled, \E kind \in Kinds : Says(received[n], kind)
               PROVE  n \in expired' \/ \E i \in 1..Len(t) : t[i].from = n
    BY DEF Complete
  <2>1. n \in expired \/ \E j \in 1..Len(s) : s[j].from = n
    BY <1>11 DEF Follows, Complete
  <2>2. CASE n \in expired
    BY <2>2, <1>1
  <2>3. ASSUME NEW j \in 1..Len(s), s[j].from = n
        PROVE  n \in expired' \/ \E i \in 1..Len(t) : t[i].from = n
    <3>1. CASE j = p + 1
      BY <3>1, <2>3, <1>1, <1>9
    <3>2. CASE j # p + 1
      BY <3>2, <2>3, <1>12, <1>14
    <3> QED BY <3>1, <3>2
  <2> QED BY <2>1, <2>2, <2>3
<1>18. Handled' = Handled
  BY <1>1 DEF Handled
<1>19. Follows(s', Handled', received', expired')
  BY <1>1, <1>7, <1>15, <1>16, <1>17, <1>18 DEF Follows
<1> QED BY <1>1, <1>5, <1>19 DEF OscInv, InHand, s

-----------------------------------------------------------------------------
\* The two together.

Flags ==
    /\ players \in BOOLEAN /\ reading \in BOOLEAN
    /\ listening \in BOOLEAN /\ connected \in BOOLEAN /\ connMutex \in BOOLEAN
    /\ sections \in 0..MaxSections

IInv == Life /\ Flags /\ OscInv

LEMMA StillKeeps ==
    ASSUME OscInv, UNCHANGED oscVars
    PROVE  OscInv'
<1>1. UNCHANGED <<oscRunning, oscQuit, worker, recvBuf, size, received, collector, played,
                  expired>>
  BY DEF oscVars, oscServer, midi
<1>2. OscTypes'
  BY <1>1 DEF OscInv, OscTypes
<1>3. Handled' = Handled
  BY <1>1 DEF Handled
<1>4. Follows(played \o collector, Handled, received, expired)'
  BY <1>1, <1>3 DEF OscInv, Follows, InOrder, Faithful, Complete, SaidBy
<1> QED BY <1>1, <1>2, <1>4 DEF OscInv, InHand

LEMMA NextOsc ==
    ASSUME IInv, [Next]_vars
    PROVE  OscInv'
<1>1. OscInv /\ oscRunning \in BOOLEAN /\ oscQuit \in BOOLEAN
  BY DEF IInv, OscInv, OscTypes
<1>3. CASE StartOsc
  <2>1. worker # "handling"
    BY <1>3 DEF StartOsc, Goto, IInv, Life, Early
  <2>2. CASE OscStarts
    <3>1. /\ worker' = "top" /\ oscRunning' = TRUE /\ oscQuit' = FALSE
          /\ UNCHANGED <<recvBuf, size, received, midi>>
      BY <2>2 DEF OscStarts
    <3> QED BY <1>1, <2>1, <3>1, WorkerMoves
  <2>3. CASE UNCHANGED oscVars
    BY <1>1, <2>3, StillKeeps
  <2> QED BY <1>3, <2>2, <2>3 DEF StartOsc
<1>4. CASE StopOsc \/ JoinOsc
  <2>1. /\ oscRunning' \in BOOLEAN /\ oscQuit' \in BOOLEAN
        /\ UNCHANGED <<worker, recvBuf, size, received, collector, played, expired>>
    BY <1>1, <1>4 DEF StopOsc, OscStop, JoinOsc, OscJoin, midi
  <2>2. OscTypes'
    BY <1>1, <2>1 DEF OscInv, OscTypes
  <2>3. Handled' = Handled
    BY <2>1 DEF Handled
  <2>4. Follows(played \o collector, Handled, received, expired)'
    BY <1>1, <2>1, <2>3 DEF OscInv, Follows, InOrder, Faithful, Complete, SaidBy
  <2> QED BY <1>1, <2>1, <2>2, <2>4 DEF OscInv, InHand
<1>5. CASE LoopTop \/ WaitAgain
  <2>1. /\ worker # "handling" /\ worker' \in {"top", "waiting", "ended"}
        /\ UNCHANGED <<oscServer, recvBuf, size, received, midi>>
    BY <1>5 DEF LoopTop, WaitAgain
  <2>2. oscRunning' \in BOOLEAN /\ oscQuit' \in BOOLEAN
    BY <1>1, <2>1 DEF oscServer
  <2> QED BY <1>1, <2>1, <2>2, WorkerMoves
<1>6. CASE Receive \/ HandlePacket
  BY <1>1, <1>6, ReceiveKeeps, HandleKeeps
<1>7. CASE AudioCallback \/ ExpireMidi
  BY <1>1, <1>7, TakeKeeps, ExpireKeeps DEF AudioCallback
<1>8. CASE UNCHANGED oscVars
  BY <1>1, <1>8, StillKeeps
<1>9. \/ StartOsc \/ StopOsc \/ JoinOsc \/ LoopTop \/ WaitAgain \/ Receive \/ HandlePacket
      \/ AudioCallback \/ ExpireMidi \/ UNCHANGED oscVars
  <2>1. CASE Start
    BY <2>1 DEF Start, OpenDevice, AddAudioCallback, StartControl, StartTimer
  <2>2. CASE Loop
    BY <2>2 DEF Loop, ShowWindow, RemoveSlot, PlayAudioFile, StopAudio, Quit
  <2>3. CASE Shutdown
    BY <2>3 DEF Shutdown, StopTimer, StopServer, StopControl, CloseConnection, JoinAcceptor,
                RemoveAudioCallback
  <2>4. CASE DestroyMember
    BY <2>4 DEF DestroyMember
  <2>5. CASE Worker \/ AudioCallback \/ ExpireMidi
    BY <2>5 DEF Worker
  <2>6. CASE UNCHANGED vars
    BY <2>6 DEF vars
  <2>7. CASE Acceptor \/ Connections
    BY <2>7 DEF Acceptor, Accept, Supersede, AcceptFails,
                Connections, LockConnection, UnlockConnection
  <2> QED BY <2>1, <2>2, <2>3, <2>4, <2>5, <2>6, <2>7 DEF Next
<1> QED BY <1>3, <1>4, <1>5, <1>6, <1>7, <1>8, <1>9

LEMMA NextFlags ==
    ASSUME Flags, [Next]_vars
    PROVE  Flags'
<1> USE DEF Flags, loaded
<1>1. CASE Start
  BY <1>1 DEF Start, OpenDevice, AddAudioCallback, StartControl, StartOsc, StartTimer,
              services, control
<1>2. CASE Loop
  BY <1>2 DEF Loop, ShowWindow, RemoveSlot, PlayAudioFile, StopAudio, Quit, services, control
<1>3. CASE Shutdown
  BY <1>3 DEF Shutdown, StopTimer, StopOsc, JoinOsc, StopServer, StopControl, CloseConnection,
              JoinAcceptor, RemoveAudioCallback, services, control
<1>4. CASE DestroyMember
  BY <1>4 DEF DestroyMember, control
<1>5. CASE UNCHANGED appVars
  BY <1>5 DEF appVars, services, control
<1>6. CASE Acceptor
  BY <1>6 DEF Acceptor, Accept, Supersede, AcceptFails
<1>7. CASE LockConnection
  BY <1>7, AppAssumption DEF LockConnection
<1>8. CASE UnlockConnection
  BY <1>8 DEF UnlockConnection
<1>9. QED
  BY <1>1, <1>2, <1>3, <1>4, <1>5, <1>6, <1>7, <1>8 DEF Next, Connections, vars

LEMMA IInvHolds == Spec => []IInv
<1>1. Init => IInv
  <2>1. Init => Flags
    <3>1. Init => sections \in 0..MaxSections
      BY AppAssumption DEF Init
    <3>2. Init => /\ players \in BOOLEAN /\ reading \in BOOLEAN
                  /\ listening \in BOOLEAN /\ connected \in BOOLEAN /\ connMutex \in BOOLEAN
      BY DEF Init
    <3> QED BY <3>1, <3>2 DEF Flags
  <2>2. QED
    BY <2>1, InitLife, InitOsc DEF IInv
<1>2. IInv /\ [Next]_vars => IInv'
  BY NextLife, NextFlags, NextOsc DEF IInv
<1>3. QED
  BY <1>1, <1>2, PTL DEF Spec

\* Every variable of the host and its OSC worker keeps to its type, and what
\* reaches the collector is MIDI: a channel of 1 to 16, data of 0 to 127,
\* whatever bytes arrive.
THEOREM AppTypeCorrect == Spec => []TypeOK
<1>1. IInv => TypeOK
  <2> SUFFICES ASSUME IInv PROVE TypeOK
    OBVIOUS
  <2>1. OscTypeOK
    BY OscInvImplies DEF IInv
  <2>2. Len(Members) = 9
    BY DEF Members
  <2>3. QED
    BY <2>1, <2>2 DEF IInv, Life, Flags, TypeOK
<1>2. QED
  BY <1>1, IInvHolds, PTL

\* The decoder and its buffer that is never cleared: the notes and controllers
\* that reach the graph are what the datagrams say, in order, each once, and
\* all of them but what expired, for every set of datagrams and every buffer.
THEOREM OscIsFollowed == Spec => []MidiFollowsOsc
<1>1. IInv => MidiFollowsOsc
  BY OscInvImplies DEF IInv
<1>2. QED
  BY <1>1, IInvHolds, PTL

=============================================================================
