--------------------------- MODULE MCSchedulerNode ---------------------------
(***************************************************************************)
(* Small instances of SchedulerNode.  At 3 samples for 2 ticks the         *)
(* conversion truncates: ticks 1, 2, 3, 4 are samples 1, 3, 4, 6.          *)
(***************************************************************************)
EXTENDS SchedulerNode

Note(note, start, dur) == [note |-> note, start |-> start, dur |-> dur]

\* Slot 1 is on host channel 0, slot 2 on channel 1.
TwoChannels == [slot \in SlotIds |-> slot - 1]
\* Both slots on one channel.
OneChannel  == [slot \in SlotIds |-> 0]

Beep    == <<Note(60, 0, 1)>>
Later   == <<Note(60, 1, 1), Note(62, 3, 1)>>

\* Notes that end in their block, and notes held over it.
LifeScores  == {Beep, Later}
BeepScores  == {Beep}

\* For the timing questions: three notes at once for a table of two, a note
\* that ends when the same note begins again, and lists the op has to refuse
\* (out of order, a length of zero, no such note).
TimingScores ==
    {<<Note(60, 0, 1), Note(62, 0, 3), Note(64, 0, 1)>>,
     <<Note(60, 0, 2), Note(60, 2, 1)>>,
     <<Note(60, 1, 2), Note(62, 3, 1)>>,
     <<Note(60, 3, 1), Note(62, 0, 1)>>,
     <<Note(60, 0, 0)>>,
     <<Note(128, 0, 1)>>}

\* A note that begins where the same note ends, longer than a block of 2: shows
\* NotesHeldToEnd violated.
LegatoScores == {<<Note(60, 0, 2), Note(60, 2, 2)>>}

=============================================================================
