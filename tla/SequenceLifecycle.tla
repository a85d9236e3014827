-------------------------- MODULE SequenceLifecycle --------------------------
(***************************************************************************)
(* What SchedulerNode promises about one midi sequence after another: ids  *)
(* are issued in order and never reused; sequences start, or are turned    *)
(* away, in the order they were issued; a sequence plays once, is handed   *)
(* back once and is freed once.  The only payload that is not handed back  *)
(* is one turned away with no room to return it.                           *)
(***************************************************************************)
EXTENDS Integers

CONSTANT MaxSequences

VARIABLE status

SequenceIds == 1..MaxSequences
Statuses == {"none", "queued", "playing", "returned", "freed"}

TypeOK == status \in [SequenceIds -> Statuses]

Init == status = [id \in SequenceIds |-> "none"]

\* id is the oldest sequence whose status is s.
Oldest(id, s) == /\ status[id] = s
                 /\ \A other \in 1..(id - 1) : status[other] # s

Become(id, s) == status' = [status EXCEPT ![id] = s]

\* The command ring has room, or it has not and the id is used up.
Issue(id)  == Oldest(id, "none") /\ Become(id, "queued")
Refuse(id) == Oldest(id, "none") /\ Become(id, "freed")

\* The audio thread takes the oldest sequence: there is an entry for it, or it
\* is returned unplayed, or it is destroyed on the spot.
Start(id)    == Oldest(id, "queued") /\ Become(id, "playing")
TurnAway(id) == Oldest(id, "queued") /\ Become(id, "returned")
Destroy(id)  == Oldest(id, "queued") /\ Become(id, "freed")

\* Finished or stopped.
Return(id) == status[id] = "playing" /\ Become(id, "returned")

\* The message thread frees everything handed back.
FreeReturned ==
    /\ \E id \in SequenceIds : status[id] = "returned"
    /\ status' = [id \in SequenceIds |-> IF status[id] = "returned"
                                         THEN "freed" ELSE status[id]]

Next == \/ FreeReturned
        \/ \E id \in SequenceIds :
               \/ Issue(id) \/ Refuse(id)
               \/ Start(id) \/ TurnAway(id) \/ Destroy(id)
               \/ Return(id)

Spec == Init /\ [][Next]_status

=============================================================================
