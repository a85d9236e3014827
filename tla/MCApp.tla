-------------------------------- MODULE MCApp --------------------------------
(***************************************************************************)
(* A small instance of App: datagrams of each kind, one that is longer     *)
(* than the buffer, and malformed ones: cut short in a string, in its      *)
(* padding and in an argument, of an unknown address, with other tags, not *)
(* aligned, empty of strings.                                              *)
(***************************************************************************)
EXTENDS App

Argument(high, low) == <<high, high, high, low>>
NoteOn == Layout.note_on
Zeros(bytes) == [i \in DOMAIN bytes |-> IF bytes[i] = 256 THEN 0 ELSE bytes[i]]
Ones(bytes)  == [i \in DOMAIN bytes |-> IF bytes[i] = 256 THEN 1 ELSE bytes[i]]
Cut(bytes, n) == SubSeq(bytes, 1, n)

Full == Zeros(NoteOn) \o Argument(0, 1) \o Argument(0, 17) \o Argument(255, 200) \o Argument(0, 128)
Off  == Ones(Layout.note_off)
            \o Argument(0, 2) \o Argument(255, 255) \o Argument(0, 60)
Cc   == Zeros(Layout.cc)
            \o Argument(0, 3) \o Argument(0, 0) \o Argument(0, 7) \o Argument(0, 127)

SomeDatagrams ==
    {Full, Off, Cc, Full \o Full,
     Cut(Full, 1), Cut(Full, 2), Cut(Full, 6), Cut(Full, 10), Cut(Full, 12), Cut(Full, 25), Cut(Full, 27),
     <<100>> \o Tail(Full), Zeros(Spaced(Address.note_on)) \o Tail(Cut(Off, 16)) \o Full,
     Tail(Full), <<0>>}

=============================================================================
