----------------------------- MODULE BoundedFifo -----------------------------
(***************************************************************************)
(* What a single-producer single-consumer ring promises: a queue of at     *)
(* most Capacity values, each taken once, in the order they were put.  A   *)
(* refused push and an empty pop change nothing.                           *)
(***************************************************************************)
EXTENDS Integers, Sequences

CONSTANTS Capacity, Values, Empty

VARIABLES queue, out

Init == queue = <<>> /\ out = Empty

Put(v) == /\ Len(queue) < Capacity
          /\ queue' = Append(queue, v)
          /\ out' = out

Take == /\ queue # <<>>
        /\ out' = Head(queue)
        /\ queue' = Tail(queue)

\* The consumer's caller has moved the value on.
Consume == out # Empty /\ out' = Empty /\ queue' = queue

Next == Take \/ Consume \/ \E v \in Values : Put(v)

Spec == Init /\ [][Next]_<<queue, out>>

=============================================================================
