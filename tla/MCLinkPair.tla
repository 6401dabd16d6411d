----------------------------- MODULE MCLinkPair -----------------------------
(* LinkPair.tla for TLC, and the scenarios of its runs. *)
EXTENDS LinkPair

MCCap == [m \in 0..(Modes - 1) |-> m + 1]

\* A sends three units over a bad channel, frames collide, and A may hang up.
OneWay ==
    [cmdA |-> {"CONNECT", "DISCONNECT"}, cmdB |-> {},
     timers |-> {"REPEAT", "PENDING", "FINAL_ID", "STALL"}, calls |-> 1,
     dataA |-> 3, dataB |-> 0, loss |-> 1, bad |-> 1, overlap |-> TRUE]

\* Both send; the link changes hands; frames are lost and collide.
BothWays ==
    [cmdA |-> {"CONNECT", "BREAK"}, cmdB |-> {"BREAK"},
     timers |-> {"REPEAT", "PENDING"}, calls |-> 1,
     dataA |-> 2, dataB |-> 2, loss |-> 1, bad |-> 0, overlap |-> TRUE]

\* One way over a bad channel; either host may hang up, or both.
BadChannel ==
    [cmdA |-> {"CONNECT", "DISCONNECT"}, cmdB |-> {"DISCONNECT"},
     timers |-> {"REPEAT", "PENDING", "SILENCE"}, calls |-> 1,
     dataA |-> 3, dataB |-> 0, loss |-> 2, bad |-> 1, overlap |-> FALSE]

\* Both ways over a good channel.
GoodChannel ==
    [cmdA |-> {"CONNECT"}, cmdB |-> {},
     timers |-> {"REPEAT", "PENDING", "SILENCE"}, calls |-> 1,
     dataA |-> 3, dataB |-> 3, loss |-> 0, bad |-> 0, overlap |-> FALSE]

\* The ACK of a BREAK is lost.
LostBreakAck ==
    [cmdA |-> {"CONNECT"}, cmdB |-> {},
     timers |-> {"REPEAT", "PENDING", "SILENCE"}, calls |-> 1,
     dataA |-> 1, dataB |-> 1, loss |-> 1, bad |-> 0, overlap |-> FALSE]

\* A second session between the same stations.
SecondCall ==
    [cmdA |-> {"CONNECT", "DISCONNECT"}, cmdB |-> {},
     timers |-> {"REPEAT", "PENDING"}, calls |-> 2,
     dataA |-> 2, dataB |-> 0, loss |-> 0, bad |-> 0, overlap |-> TRUE]

\* The link changes hands twice, and a payload is damaged.  No run has it; in
\* SecondCall's place it violates NoSilentLoss too, at link.c:1025.
StaleAck ==
    [cmdA |-> {"CONNECT"}, cmdB |-> {},
     timers |-> {"REPEAT", "PENDING"}, calls |-> 1,
     dataA |-> 2, dataB |-> 1, loss |-> 0, bad |-> 1, overlap |-> FALSE]

AllScenarios == {OneWay, BothWays, BadChannel, GoodChannel}
LostBreakAckScenario == {LostBreakAck}
SecondCallScenario == {SecondCall}
HangUpScenario == {BadChannel}
StaleAckScenario == {StaleAck}
=============================================================================
