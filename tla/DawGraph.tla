------------------------------- MODULE DawGraph -------------------------------
(***************************************************************************)
(* The topology of the host (DawGraph.cpp) with the editor windows that    *)
(* follow it (PluginUi.cpp) and the guards of the control ops (Main.cpp).  *)
(*                                                                         *)
(* A plugin is a slot on a host channel.  The chain of a channel is an     *)
(* optional instrument and an ordered list of effects.  The graph holds a  *)
(* node for every slot, a MIDI filter for every channel that has had an    *)
(* instrument, a node for every audio file played, and four permanent      *)
(* nodes.  Each op changes the books (slots, channels, filePlayers), adds  *)
(* or removes nodes, and rewires one channel; no op looks at the           *)
(* connections of another.  All ops run whole on the message thread.       *)
(*                                                                         *)
(* A node of the graph has every connection to it dropped when it is       *)
(* removed (juce::AudioProcessorGraph).  The two stereo connections        *)
(* between two nodes are always made together and are one audio cable.     *)
(***************************************************************************)
EXTENDS Integers, Sequences, FiniteSets, SequencesExt

CONSTANTS
    Channels,      \* host channels clients name, channel 0 being the synth's
    MaxPlugins,    \* bound: slot ids handed out
    MaxPlayers,    \* bound: audio ids handed out
    FxIndices      \* fxIndex arguments clients send; -1 is "append"

ASSUME GraphAssumption ==
    /\ Channels \subseteq Nat
    /\ MaxPlugins \in Nat /\ MaxPlayers \in Nat
    /\ FxIndices \subseteq Int

None     == 0                    \* instrumentSlot -1
SlotIds  == 1..MaxPlugins
AudioIds == 1..MaxPlayers

SlotNode(s)    == <<"slot", s>>
FilterNode(ch) == <<"filter", ch>>
FileNode(a)    == <<"file", a>>
MidiInput      == <<"midiInput", 0>>
Scheduler      == <<"scheduler", 0>>
AudioSum       == <<"audioSum", 0>>
AudioOutput    == <<"audioOutput", 0>>
Permanent      == {MidiInput, Scheduler, AudioSum, AudioOutput}

Cable(a, b, t) == [src |-> a, dst |-> b, type |-> t]

VARIABLES
    nextSlotId, nextAudioId,
    slots,        \* slot -> [channelIdx, kind, active]
    channels,     \* channel -> [instrumentSlot, hasFilter, fxSlots]
    filePlayers,  \* audio ids in use
    nodes,        \* nodes of the graph
    cables,       \* connections of the graph
    windows,      \* slot -> is its editor window visible
    announced     \* history: slots the slot-removed callback was called for

vars == <<nextSlotId, nextAudioId, slots, channels, filePlayers, nodes, cables,
          windows, announced>>

SlotInfo == [channelIdx : Channels, kind : {"Instrument", "Fx"}, active : BOOLEAN]

EmptyChain == [instrumentSlot |-> None, hasFilter |-> FALSE, fxSlots |-> <<>>]

\* chainFor creates the chain on a miss.
ChainFor(ch) == IF ch \in DOMAIN channels THEN channels[ch] ELSE EmptyChain

With(f, x, v) == [y \in DOMAIN f \cup {x} |-> IF y = x THEN v ELSE f[y]]
Less(f, S)    == Restrict(f, DOMAIN f \ S)

Init ==
    /\ nextSlotId = 1 /\ nextAudioId = 1
    /\ slots = <<>> /\ channels = <<>> /\ filePlayers = {}
    /\ nodes = Permanent /\ cables = {}
    /\ windows = <<>> /\ announced = {}

-----------------------------------------------------------------------------
(* rewireChannel.                                                          *)

\* The instrument as a set of none or one.
InstrumentOf(chain) == {chain.instrumentSlot} \ {None}
Plugins(chain)      == InstrumentOf(chain) \cup Range(chain.fxSlots)

\* The nodes that take part in the channel.
NodesInChannel(ch, chain, files) ==
    {SlotNode(s) : s \in Plugins(chain)}
    \cup (IF chain.hasFilter THEN {FilterNode(ch)} ELSE {})
    \cup (IF ch = 0 THEN {AudioSum} \cup {FileNode(a) : a \in files} ELSE {})

\* midi input and scheduler -> filter -> instrument.
MidiWiring(ch, chain) ==
    UNION {LET entry == IF chain.hasFilter THEN FilterNode(ch) ELSE SlotNode(s)
           IN  {Cable(MidiInput, entry, "midi"), Cable(Scheduler, entry, "midi")}
               \cup (IF chain.hasFilter
                     THEN {Cable(entry, SlotNode(s), "midi")} ELSE {})
           : s \in InstrumentOf(chain)}

\* The node the effects take their audio from, as a set of none or one.
AudioTail(ch, chain) == IF ch = 0 THEN {AudioSum}
                        ELSE {SlotNode(s) : s \in InstrumentOf(chain)}

\* tail -> fx[0] -> fx[1] -> ... -> output; on channel 0 the tail sums the
\* instrument and the file players.
AudioWiring(ch, chain, files) ==
    LET fx == chain.fxSlots
        Path(tail) == <<tail>> \o [i \in DOMAIN fx |-> SlotNode(fx[i])]
                              \o <<AudioOutput>>
        Summed == {SlotNode(s) : s \in InstrumentOf(chain)}
                  \cup {FileNode(a) : a \in files}
    IN  (UNION {{Cable(Path(tail)[i], Path(tail)[i+1], "audio") : i \in 1..(Len(fx) + 1)}
                : tail \in AudioTail(ch, chain)})
        \cup (IF ch = 0 THEN {Cable(n, AudioSum, "audio") : n \in Summed} ELSE {})

Untouched(cs, ns) == {c \in cs : c.src \notin ns /\ c.dst \notin ns}

\* Mutant: what leaves the channel's nodes is left connected.
RewiredInputsOnly(ch, chain, files, cs) ==
    {c \in cs : c.dst \notin NodesInChannel(ch, chain, files)}
    \cup MidiWiring(ch, chain) \cup AudioWiring(ch, chain, files)

\* The connections cs after the channel has been rewired to chain.
Rewired(ch, chain, files, cs) ==
    Untouched(cs, NodesInChannel(ch, chain, files))
    \cup MidiWiring(ch, chain) \cup AudioWiring(ch, chain, files)

-----------------------------------------------------------------------------
(* Plugin ops.                                                             *)

\* Mutant: the callback reaches the scheduler only.
SlotsRemovedUnseen(gone) == windows' = windows /\ announced' = announced \cup gone

\* The slot-removed callback, for each of the slots gone: the window is
\* destroyed and the scheduler is told to cancel.
SlotsRemoved(gone) == /\ windows' = Less(windows, gone)
                      /\ announced' = announced \cup gone

\* Mutant: ids are handed out twice.
AddSlotAgain(ch, kind, gone) ==
    /\ nextSlotId =< MaxPlugins
    /\ nextSlotId' = nextSlotId
    /\ slots' = With(Less(slots, gone), nextSlotId,
                     [channelIdx |-> ch, kind |-> kind, active |-> TRUE])

\* addPluginNode, with the slots gone removed before it.
AddSlot(ch, kind, gone) ==
    /\ nextSlotId =< MaxPlugins
    /\ nextSlotId' = nextSlotId + 1
    /\ slots' = With(Less(slots, gone), nextSlotId,
                     [channelIdx |-> ch, kind |-> kind, active |-> TRUE])

\* loadPlugin(Instrument): an instrument already there is replaced, the filter
\* is created by the first one.
LoadInstrument(ch) ==
    LET old   == InstrumentOf(ChainFor(ch))
        chain == [ChainFor(ch) EXCEPT !.instrumentSlot = nextSlotId,
                                      !.hasFilter = TRUE]
        left  == {SlotNode(s) : s \in old}
    IN  /\ AddSlot(ch, "Instrument", old)
        /\ SlotsRemoved(old)
        /\ channels' = With(channels, ch, chain)
        /\ nodes' = (nodes \ left) \cup {FilterNode(ch), SlotNode(nextSlotId)}
        /\ cables' = Rewired(ch, chain, filePlayers, Untouched(cables, left))
        /\ UNCHANGED <<nextAudioId, filePlayers>>

\* The position a fxIndex asks for in a list of n effects, counted from 1.
Position(fxIndex, n) == IF fxIndex < 0 \/ fxIndex > n THEN n + 1 ELSE fxIndex + 1

\* loadPlugin(Fx) on any channel, with or without an instrument.
LoadFx(ch, fxIndex) ==
    LET fx    == ChainFor(ch).fxSlots
        chain == [ChainFor(ch) EXCEPT
                     !.fxSlots = InsertAt(fx, Position(fxIndex, Len(fx)), nextSlotId)]
    IN  /\ AddSlot(ch, "Fx", {})
        /\ channels' = With(channels, ch, chain)
        /\ nodes' = nodes \cup {SlotNode(nextSlotId)}
        /\ cables' = Rewired(ch, chain, filePlayers, cables)
        /\ UNCHANGED <<nextAudioId, filePlayers, windows, announced>>

\* The loadPlugin op: channel 0's instrument is reserved.
LoadPlugin(ch) == ch # 0 /\ LoadInstrument(ch)

\* The loadPhobosSynth op.  loadPhobosCrystal is LoadFx(0, -1).
LoadPhobosSynth == LoadInstrument(0)

\* Mutants: the effects stay, or the filter does.
TeardownInstrumentOnly(ch) ==
    LET gone == InstrumentOf(channels[ch])
        left == {SlotNode(s) : s \in gone} \cup {FilterNode(ch)}
    IN  /\ slots' = Less(slots, gone)
        /\ SlotsRemoved(gone)
        /\ channels' = Less(channels, {ch})
        /\ nodes' = nodes \ left
        /\ cables' = Untouched(cables, left)

TeardownKeepingFilter(ch) ==
    LET gone == Plugins(channels[ch])
        left == {SlotNode(s) : s \in gone}
    IN  /\ slots' = Less(slots, gone)
        /\ SlotsRemoved(gone)
        /\ channels' = Less(channels, {ch})
        /\ nodes' = nodes \ left
        /\ cables' = Untouched(cables, left)

\* teardownChannel: the instrument, every effect and the filter.
TeardownChannel(ch) ==
    LET gone == Plugins(channels[ch])
        left == {SlotNode(s) : s \in gone} \cup {FilterNode(ch)}
    IN  /\ slots' = Less(slots, gone)
        /\ SlotsRemoved(gone)
        /\ channels' = Less(channels, {ch})
        /\ nodes' = nodes \ left
        /\ cables' = Untouched(cables, left)

\* unloadPlugin of an effect: out of the chain, node dropped, rewired.  An effect
\* is in its chain once (ChainsMatchSlots), so std::remove takes the first out.
UnloadFx(s) ==
    LET ch    == slots[s].channelIdx
        chain == [channels[ch] EXCEPT !.fxSlots = RemoveFirst(@, s)]
    IN  /\ slots' = Less(slots, {s})
        /\ SlotsRemoved({s})
        /\ channels' = With(channels, ch, chain)
        /\ nodes' = nodes \ {SlotNode(s)}
        /\ cables' = Rewired(ch, chain, filePlayers, Untouched(cables, {SlotNode(s)}))

\* The op refuses to unload the synth.
Reserved(s) == slots[s].channelIdx = 0 /\ slots[s].kind = "Instrument"

\* The unloadPlugin op.  The chain of a slot always exists (ChainsMatchSlots),
\* so the branch for an orphan is never taken.
UnloadPlugin(s) ==
    /\ s \in DOMAIN slots
    /\ ~Reserved(s)
    /\ IF slots[s].kind = "Instrument"
       THEN TeardownChannel(slots[s].channelIdx) ELSE UnloadFx(s)
    /\ UNCHANGED <<nextSlotId, nextAudioId, filePlayers>>

\* Mutant: the index is taken for one in the list as it was, with s in it.
MovedOldIndex(fx, s, newFxIndex) ==
    LET others == RemoveFirst(fx, s)
        passed == {k \in DOMAIN fx : fx[k] = s /\ k <= newFxIndex}
    IN  InsertAt(others, Position(newFxIndex - Cardinality(passed), Len(others)), s)

\* fx with s taken out and put back where newFxIndex says.
Moved(fx, s, newFxIndex) ==
    LET others == RemoveFirst(fx, s)
    IN  InsertAt(others, Position(newFxIndex, Len(others)), s)

ReorderFx(s, newFxIndex) ==
    /\ s \in DOMAIN slots /\ slots[s].kind = "Fx"
    /\ LET ch    == slots[s].channelIdx
           chain == [channels[ch] EXCEPT !.fxSlots = Moved(@, s, newFxIndex)]
       IN  /\ channels' = With(channels, ch, chain)
           /\ cables' = Rewired(ch, chain, filePlayers, cables)
    /\ UNCHANGED <<nextSlotId, nextAudioId, slots, filePlayers, nodes, windows,
                   announced>>

\* The node is bypassed, not disconnected.
SetPluginActive(s, active) ==
    /\ s \in DOMAIN slots
    /\ slots' = [slots EXCEPT ![s].active = active]
    /\ UNCHANGED <<nextSlotId, nextAudioId, channels, filePlayers, nodes, cables,
                   windows, announced>>

-----------------------------------------------------------------------------
(* File players.                                                           *)

\* rewireChannel(0), which returns at once when channel 0 has no chain.
RewireChannelZero(files, cs) ==
    cables' = IF 0 \in DOMAIN channels THEN Rewired(0, channels[0], files, cs) ELSE cs

PlayAudioFile ==
    /\ nextAudioId =< MaxPlayers
    /\ nextAudioId' = nextAudioId + 1
    /\ filePlayers' = filePlayers \cup {nextAudioId}
    /\ nodes' = nodes \cup {FileNode(nextAudioId)}
    /\ RewireChannelZero(filePlayers', cables)
    /\ UNCHANGED <<nextSlotId, slots, channels, windows, announced>>

StopAudio(a) ==
    /\ a \in filePlayers
    /\ filePlayers' = filePlayers \ {a}
    /\ nodes' = nodes \ {FileNode(a)}
    /\ RewireChannelZero(filePlayers', Untouched(cables, {FileNode(a)}))
    /\ UNCHANGED <<nextSlotId, nextAudioId, slots, channels, windows, announced>>

-----------------------------------------------------------------------------
(* Editor windows.                                                         *)

\* The showPluginUi op finds the processor through the slot.
ShowPluginUi(s) ==
    /\ s \in DOMAIN slots
    /\ windows' = With(windows, s, TRUE)
    /\ UNCHANGED <<nextSlotId, nextAudioId, slots, channels, filePlayers, nodes,
                   cables, announced>>

\* The closePluginUi op and the close button hide the window.
ClosePluginUi(s) ==
    /\ s \in DOMAIN windows
    /\ windows' = [windows EXCEPT ![s] = FALSE]
    /\ UNCHANGED <<nextSlotId, nextAudioId, slots, channels, filePlayers, nodes,
                   cables, announced>>

-----------------------------------------------------------------------------
\* Every op with a slot or an audio id that is not in use answers with an error.
UnknownSlot(s)  == s \notin DOMAIN slots /\ UNCHANGED vars
UnknownAudio(a) == a \notin filePlayers /\ UNCHANGED vars

Next ==
    \/ \E ch \in Channels : LoadPlugin(ch)
    \/ 0 \in Channels /\ LoadPhobosSynth
    \/ \E ch \in Channels, i \in FxIndices : LoadFx(ch, i)
    \/ \E s \in SlotIds : \/ UnloadPlugin(s)
                          \/ \E i \in FxIndices : ReorderFx(s, i)
                          \/ \E active \in BOOLEAN : SetPluginActive(s, active)
                          \/ ShowPluginUi(s)
                          \/ ClosePluginUi(s)
                          \/ UnknownSlot(s)
    \/ PlayAudioFile
    \/ \E a \in AudioIds : StopAudio(a) \/ UnknownAudio(a)

Spec == Init /\ [][Next]_vars

-----------------------------------------------------------------------------
(* MIDI routing: what a filter lets through.                               *)

\* Mutant: the filter is set to the channel counted from 0.
FilterChannelFromZero(ch) == IF ch > 16 THEN 16 ELSE ch

\* setFilterChannel(channelIdx + 1), which clamps to 16.
FilterChannel(ch) == IF ch + 1 > 16 THEN 16 ELSE ch + 1

\* What src sends on MIDI channel m arrives at the plugin in slot s.
Hears(src, m, s) ==
    \/ Cable(src, SlotNode(s), "midi") \in cables
    \/ \E ch \in Channels : /\ FilterChannel(ch) = m
                            /\ Cable(src, FilterNode(ch), "midi") \in cables
                            /\ Cable(FilterNode(ch), SlotNode(s), "midi") \in cables

-----------------------------------------------------------------------------
(* Properties.                                                             *)

ChannelChain == [instrumentSlot : SlotIds \cup {None}, hasFilter : BOOLEAN,
                 fxSlots : Seq(SlotIds)]

\* Every variable has its type; ids in use are ids that were handed out.
TypeOK ==
    /\ nextSlotId \in 1..(MaxPlugins + 1) /\ nextAudioId \in 1..(MaxPlayers + 1)
    /\ DOMAIN slots \subseteq 1..(nextSlotId - 1)
    /\ \A s \in DOMAIN slots : slots[s] \in SlotInfo
    /\ DOMAIN channels \subseteq Channels
    /\ \A ch \in DOMAIN channels : channels[ch] \in ChannelChain
    /\ filePlayers \subseteq 1..(nextAudioId - 1)
    /\ \A s \in DOMAIN windows : s \in SlotIds /\ windows[s] \in BOOLEAN
    /\ announced \subseteq SlotIds

\* The two books of plugins agree: a slot is in the chain of its channel, in
\* the place of its kind, exactly once, and a chain names nothing else.
ChainsMatchSlots ==
    /\ \A s \in DOMAIN slots :
           /\ slots[s].channelIdx \in DOMAIN channels
           /\ s \in Plugins(channels[slots[s].channelIdx])
    /\ \A ch \in DOMAIN channels :
           LET chain == channels[ch]
           IN  /\ \A s \in InstrumentOf(chain) :
                      /\ s \in DOMAIN slots
                      /\ slots[s].channelIdx = ch /\ slots[s].kind = "Instrument"
               /\ \A s \in Range(chain.fxSlots) :
                      /\ s \in DOMAIN slots
                      /\ slots[s].channelIdx = ch /\ slots[s].kind = "Fx"
               /\ IsInjective(chain.fxSlots)

\* The graph holds the nodes the books account for and no other: no plugin,
\* filter or file player stays behind in it, and its cables end at its nodes.
GraphMatchesBooks ==
    /\ nodes = Permanent
               \cup {SlotNode(s) : s \in DOMAIN slots}
               \cup {FilterNode(ch) : ch \in {c \in DOMAIN channels : channels[c].hasFilter}}
               \cup {FileNode(a) : a \in filePlayers}
    /\ \A c \in cables : c.src \in nodes /\ c.dst \in nodes
    /\ \A ch \in DOMAIN channels :
           channels[ch].instrumentSlot # None => channels[ch].hasFilter

\* The nodes whose audio goes straight into node n.
AudioInto(n) == {c.src : c \in {d \in cables : d.dst = n /\ d.type = "audio"}}

\* A channel has something to play: channel 0 its sum, another an instrument.
Fed(ch) == ch = 0 \/ channels[ch].instrumentSlot # None

\* The node a channel's audio leaves from after its first i effects.
After(ch, i) ==
    IF i > 0 THEN SlotNode(channels[ch].fxSlots[i])
    ELSE IF ch = 0 THEN AudioSum ELSE SlotNode(channels[ch].instrumentSlot)

\* Whatever was loaded, unloaded, replaced or moved on whichever channels, the
\* audio of a channel passes its effects once each in their order and reaches
\* the output once, no channel leaks into another, and an effect without a
\* source gets none.
AudioPath ==
    /\ \A ch \in DOMAIN channels : \A i \in DOMAIN channels[ch].fxSlots :
           AudioInto(SlotNode(channels[ch].fxSlots[i])) =
               IF Fed(ch) THEN {After(ch, i - 1)} ELSE {}
    /\ AudioInto(AudioOutput) = {After(ch, Len(channels[ch].fxSlots)) :
                                    ch \in {c \in DOMAIN channels : Fed(c)}}
    /\ 0 \in DOMAIN channels =>
           AudioInto(AudioSum) = {SlotNode(s) : s \in InstrumentOf(channels[0])}
                                 \cup {FileNode(a) : a \in filePlayers}
    /\ \A c \in cables : c.type = "audio" =>
           \/ c.dst \in {AudioSum, AudioOutput}
           \/ \E s \in DOMAIN slots : slots[s].kind = "Fx" /\ c.dst = SlotNode(s)

\* What a client or a sequence plays on MIDI channel c + 1 is heard by the
\* instrument now on host channel c, by that one only, and by no plugin that
\* it replaced; but MIDI channel 16, to which setFilterChannel clamps, is heard
\* by the instruments of every host channel from 15 up (see ExclusiveMidi).
MidiReachesItsChannel ==
    \A src \in {MidiInput, Scheduler}, m \in 1..16, s \in DOMAIN slots :
        Hears(src, m, s) <=> /\ slots[s].kind = "Instrument"
                             /\ \/ slots[s].channelIdx + 1 = m
                                \/ m = 16 /\ slots[s].channelIdx >= 16

\* Every slot that has gone was announced to the scheduler and the editor
\* windows, by whichever op it went, and no other; and no editor window is left
\* for a plugin that is gone.  What the scheduler does of it is CancelHonoured
\* of SchedulerNode.
SlotsAccountedFor ==
    /\ announced = (1..(nextSlotId - 1)) \ DOMAIN slots
    /\ DOMAIN windows \subseteq DOMAIN slots

Precedes(fx, a, b) == \E i, j \in DOMAIN fx : i < j /\ fx[i] = a /\ fx[j] = b

\* Of the effects that are in both lists all but at most one keep their order.
OneMoves(fx, newFx) ==
    LET Stayed == Range(fx) \cap Range(newFx)
    IN  Stayed # {} =>
          \E moved \in Stayed : \A a, b \in Stayed \ {moved} :
              Precedes(fx, a, b) <=> Precedes(newFx, a, b)

\* s is in the list at fxIndex, counted from 0 in the list as it is now, or
\* last if fxIndex is none of its indices.
Landed(newFx, s, fxIndex) ==
    newFx[IF fxIndex \in 0..(Len(newFx) - 1) THEN fxIndex + 1 ELSE Len(newFx)] = s

\* An op moves at most one effect of a channel, and an effect that is loaded or
\* moved is afterwards where its index says, whether it came from in front of
\* that place, from behind it, or is new.
EffectsKeepOrder ==
    [][channels' # channels =>
       /\ \A ch \in DOMAIN channels \cap DOMAIN channels' :
              OneMoves(channels[ch].fxSlots, channels'[ch].fxSlots)
       /\ \A ch \in Channels, i \in FxIndices :
              LoadFx(ch, i) => Landed(channels'[ch].fxSlots, nextSlotId, i)
       /\ \A s \in SlotIds, i \in FxIndices :
              ReorderFx(s, i) => Landed(channels'[slots[s].channelIdx].fxSlots, s, i)]_vars

-----------------------------------------------------------------------------
(* What comments say, and the code does not do.                            *)

\* DawGraph.cpp:260 "wired even when no instrument is loaded -- file players
\* still need a path to the FX chain".
FilePlayersAudible ==
    \A a \in filePlayers : Cable(FileNode(a), AudioSum, "audio") \in cables

\* Main.cpp:251 "Rejected if channel 0 already has an instrument".
SynthMounted == 0 \in DOMAIN channels /\ channels[0].instrumentSlot # None
SynthNeverReplaced ==
    [][SynthMounted => channels'[0].instrumentSlot = channels[0].instrumentSlot]_vars

\* Main.cpp:415 "the outgoing MIDI lands on midiChannel = channelIdx + 1
\* (matching the OSC convention and the per-channel MidiChannelFilter)": no
\* two instruments play what is sent on one MIDI channel.
ExclusiveMidi ==
    \A m \in 1..16, s, t \in DOMAIN slots :
        Hears(Scheduler, m, s) /\ Hears(Scheduler, m, t) => s = t

=============================================================================
