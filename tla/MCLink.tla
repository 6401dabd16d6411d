------------------------------- MODULE MCLink -------------------------------
(* Link.tla for TLC: one station on a channel that may bring any frame. *)
EXTENDS Link

MCCap == [m \in 0..(Modes - 1) |-> m + 1]

\* A frame may be full or not.
MCCapTwo == [m \in 0..(Modes - 1) |-> 2]

\* One broadcast type with a payload and one without.
MCFecTypes == {0, NoType}
=============================================================================
