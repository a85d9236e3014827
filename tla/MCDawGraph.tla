------------------------------ MODULE MCDawGraph ------------------------------
(***************************************************************************)
(* A small instance of DawGraph: the synth's channel, the last one with a  *)
(* MIDI channel of its own and the first that has to share it; the index   *)
(* arguments append, insert in front, in the middle and past the end.      *)
(***************************************************************************)
EXTENDS DawGraph

HostChannels == {0, 15, 16}
Positions    == -1..2

=============================================================================
