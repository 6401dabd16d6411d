------------------------------- MODULE Stream -------------------------------
(***************************************************************************)
(* What a session promises the two hosts in one direction, without the     *)
(* stations, the frames and the channel between them.  The sender's host   *)
(* queues the units 1, 2, 3, ...; the receiver's host is handed them in    *)
(* this order; the sender is told of a unit (its queue shrinks) only when  *)
(* it has been handed over.  The promise rests while the receiver's host   *)
(* has hung up: what its station still answers may confirm more than it    *)
(* delivers.  What was handed over is never taken back.                    *)
(***************************************************************************)
EXTENDS Integers, Sequences

VARIABLES
    sent,       \* units the host has queued
    confirmed,  \* units that have left its queue
    got,        \* the units handed to the other host
    over        \* the other host has hung up

stream == <<sent, confirmed, got, over>>

UnitsTo(n) == [i \in 1..n |-> i]

Init == sent = 0 /\ confirmed = 0 /\ got = <<>> /\ over = FALSE

Queue == sent' = sent + 1 /\ UNCHANGED <<confirmed, got, over>>

\* The next units, a frame of them.
Deliver ==
    /\ ~over
    /\ \E n \in (Len(got) + 1)..sent : got' = UnitsTo(n)
    /\ UNCHANGED <<sent, confirmed, over>>

Confirm ==
    /\ ~over
    /\ confirmed' \in (confirmed + 1)..Len(got)
    /\ UNCHANGED <<sent, got, over>>

HangUp == ~over /\ over' = TRUE /\ UNCHANGED <<sent, confirmed, got>>

\* A call that came to nothing may be followed by one that succeeds.
CallAgain ==
    /\ over /\ over' = FALSE
    /\ confirmed = 0 /\ got = <<>>
    /\ UNCHANGED <<sent, confirmed, got>>

\* After a hang-up.
Trail ==
    /\ over
    /\ confirmed' \in confirmed..sent
    /\ Len(got) <= Len(got') /\ SubSeq(got', 1, Len(got)) = got
    /\ UNCHANGED <<sent, over>>

Next == Queue \/ Deliver \/ Confirm \/ HangUp \/ CallAgain \/ Trail

Spec == Init /\ [][Next]_stream
=============================================================================
