------------------------------ MODULE LinkPair ------------------------------
(***************************************************************************)
(* Two stations running Link on one half-duplex radio channel: A, whose    *)
(* host calls, and B, which is called.  The channel is not part of the     *)
(* code; it does what the audio loopback of app/loopback.c does with two   *)
(* modems (a frame is heard by the other station when its transmission     *)
(* ends, transmissions that overlap destroy each other) and what a radio   *)
(* does besides: it loses frames, and damages payloads whose frame type    *)
(* is still read.                                                          *)
(*                                                                         *)
(* Each host sends the units 1, 2, 3, ... in this order.                   *)
(***************************************************************************)
EXTENDS Integers, Sequences

CONSTANTS
    Modes, Cap, AutoBreak,  \* as in Link
    MaxData,                \* bound: units a host sends in any scenario
    Scenarios               \* the environments to check

\* An environment: the commands each host issues, the timers that may be due,
\* and the bounds of the instance.  overlap says whether a timer may fire while
\* the other station transmits.
ASSUME PairAssumption ==
    /\ Modes \in Nat \ {0}
    /\ Cap \in [0..(Modes - 1) -> Nat \ {0}]
    /\ AutoBreak \in BOOLEAN
    /\ MaxData \in Nat
    /\ \A s \in Scenarios :
          /\ {s.dataA, s.dataB} \subseteq 0..MaxData  \* units each host sends
          /\ s.calls \in Nat      \* sessions A's host requests
          /\ s.loss \in Nat       \* frames lost
          /\ s.bad \in Nat        \* payloads damaged
          /\ s.overlap \in BOOLEAN

VARIABLES
    sc,             \* the scenario of this behaviour
    lkA, airA, freshA, toldA, rxA,
    lkB, airB, freshB, toldB, rxB,
    hitA, hitB,     \* the frame A (B) transmits has met one of the other's
    calls,          \* sessions requested so far
    lost, bad,      \* frames lost and damaged so far
    sentA, sentB,   \* units queued by each host so far
    gotA, gotB      \* units each host was handed so far

stationA == <<lkA, airA, freshA, toldA, rxA>>
stationB == <<lkB, airB, freshB, toldB, rxB>>
vars == <<sc, stationA, stationB, hitA, hitB, calls, lost, bad,
          sentA, sentB, gotA, gotB>>

Units == 1..MaxData
AllCommands == {"CONNECT", "SEND_DATA", "BREAK", "DISCONNECT"}

A == INSTANCE Link WITH
         lk <- lkA, air <- airA, fresh <- freshA,
         told <- toldA, rx <- rxA,
         Data <- Units, TxCap <- MaxData, DiscTries <- 5,
         Listening <- TRUE, PingAck <- FALSE, IdleTimed <- FALSE,
         FecRepeats <- 0, FecTypes <- {}, Replies <- {"CONACK"},
         Commands <- AllCommands

B == INSTANCE Link WITH
         lk <- lkB, air <- airB, fresh <- freshB,
         told <- toldB, rx <- rxB,
         Data <- Units, TxCap <- MaxData, DiscTries <- 5,
         Listening <- TRUE, PingAck <- FALSE, IdleTimed <- FALSE,
         FecRepeats <- 0, FecTypes <- {}, Replies <- {"CONACK"},
         Commands <- AllCommands

Silence == A!Silence

Init ==
    /\ sc \in Scenarios
    /\ A!Init /\ B!Init
    /\ hitA = FALSE /\ hitB = FALSE
    /\ calls = 0 /\ lost = 0 /\ bad = 0
    /\ sentA = 0 /\ sentB = 0
    /\ gotA = <<>> /\ gotB = <<>>

-----------------------------------------------------------------------------
(* The channel *)

\* A frame is hit as soon as both stations transmit, and stays hit; a frame
\* that replaces it in the modulator starts clean if the other is silent.
Collide ==
    /\ hitA' = /\ airA' # Silence
               /\ airB' # Silence \/ (hitA /\ airA' = airA)
    /\ hitB' = /\ airB' # Silence
               /\ airA' # Silence \/ (hitB /\ airB' = airB)

Delivers ==
    /\ gotA' = gotA \o rxA'
    /\ gotB' = gotB \o rxB'

Clean == UNCHANGED <<lost, bad>>

\* A's transmission ends and B hears it.
AtoB == /\ airA # Silence /\ ~hitA
        /\ A!TxDone /\ B!Rx(airA)
        /\ Clean

BtoA == /\ airB # Silence /\ ~hitB
        /\ B!TxDone /\ A!Rx(airB)
        /\ Clean

\* A's transmission ends and B hears nothing: it collided, it was a resend
\* that no longer matches its modulation, or the channel lost it.
Unheard(airX, hitX) ==
    \/ (hitX \/ airX.k = "JUNK") /\ Clean
    \/ ~hitX /\ lost < sc.loss /\ lost' = lost + 1 /\ UNCHANGED bad

AtoNobody == /\ A!TxDone
             /\ Unheard(airA, hitA)
             /\ rxB' = <<>> /\ UNCHANGED <<lkB, airB, freshB, toldB>>

BtoNobody == /\ B!TxDone
             /\ Unheard(airB, hitB)
             /\ rxA' = <<>> /\ UNCHANGED <<lkA, airA, freshA, toldA>>

\* B reads the type of A's data frame, its payload fails to decode.
AtoBdamaged == /\ bad < sc.bad /\ ~hitA
               /\ A!TxDone /\ B!RxBad(airA)
               /\ bad' = bad + 1 /\ UNCHANGED lost

BtoAdamaged == /\ bad < sc.bad /\ ~hitB
               /\ B!TxDone /\ A!RxBad(airB)
               /\ bad' = bad + 1 /\ UNCHANGED lost

Channel ==
    /\ AtoB \/ BtoA \/ AtoNobody \/ BtoNobody \/ AtoBdamaged \/ BtoAdamaged
    /\ UNCHANGED <<calls, sentA, sentB>>

-----------------------------------------------------------------------------
(* A step of one station on its own *)

OnlyA == rxB' = <<>> /\ UNCHANGED <<lkB, airB, freshB, toldB, lost, bad>>
OnlyB == rxA' = <<>> /\ UNCHANGED <<lkA, airA, freshA, toldA, lost, bad>>

Due(t, other) == t \in sc.timers /\ (sc.overlap \/ other = Silence)

RepeatA == /\ Due("REPEAT", airB) /\ (A!Repeat \/ A!RepeatGivesUp)
           /\ OnlyA /\ UNCHANGED <<calls, sentA, sentB>>

RepeatB == /\ Due("REPEAT", airA) /\ (B!Repeat \/ B!RepeatGivesUp)
           /\ OnlyB /\ UNCHANGED <<calls, sentA, sentB>>

TimerA == /\ \/ Due("PENDING", airB) /\ A!PendingTimeout
             \/ Due("STALL", airB) /\ A!StallTimeout
             \/ Due("FINAL_ID", airB) /\ A!FinalId
          /\ OnlyA /\ UNCHANGED <<calls, sentA, sentB>>

TimerB == /\ \/ Due("PENDING", airA) /\ B!PendingTimeout
             \/ Due("STALL", airA) /\ B!StallTimeout
             \/ Due("FINAL_ID", airA) /\ B!FinalId
          /\ OnlyB /\ UNCHANGED <<calls, sentA, sentB>>

\* The silence deadline where time matters: ARQTIMEOUT is longer than any
\* exchange, and than the tries of a DISC, so it comes due for a station Y only
\* when the other one, X, will not transmit again: X has left the session, or
\* has yielded the link and ignores the BREAKs that Y repeats.
SilentFor(lkX, airX, lkY) ==
    /\ airX = Silence
    /\ \/ lkX.state = "DISC"
       \/ lkX.state = "IRS_FROM_ISS" /\ lkY.state = "IRS_TO_ISS"

SilenceA == /\ "SILENCE" \in sc.timers /\ SilentFor(lkB, airB, lkA)
            /\ ~A!Disconnecting(lkA) /\ A!StallTimeout
            /\ OnlyA /\ UNCHANGED <<calls, sentA, sentB>>

SilenceB == /\ "SILENCE" \in sc.timers /\ SilentFor(lkA, airA, lkB)
            /\ ~B!Disconnecting(lkB) /\ B!StallTimeout
            /\ OnlyB /\ UNCHANGED <<calls, sentA, sentB>>

CallA == /\ "CONNECT" \in sc.cmdA /\ calls < sc.calls /\ A!HostConnect
         /\ calls' = calls + 1
         /\ OnlyA /\ UNCHANGED <<sentA, sentB>>

SendA == /\ sentA < sc.dataA /\ A!HostSendData(<<sentA + 1>>)
         /\ sentA' = sentA + 1
         /\ OnlyA /\ UNCHANGED <<calls, sentB>>

SendB == /\ sentB < sc.dataB /\ B!HostSendData(<<sentB + 1>>)
         /\ sentB' = sentB + 1
         /\ OnlyB /\ UNCHANGED <<calls, sentA>>

BreakA == /\ "BREAK" \in sc.cmdA /\ ~lkA.break_pending /\ A!HostBreak
          /\ OnlyA /\ UNCHANGED <<calls, sentA, sentB>>

BreakB == /\ "BREAK" \in sc.cmdB /\ ~lkB.break_pending /\ B!HostBreak
          /\ OnlyB /\ UNCHANGED <<calls, sentA, sentB>>

\* A host hangs up a session it knows of, once.
HangUpA == /\ "DISCONNECT" \in sc.cmdA
           /\ toldA = "CONNECTED" /\ lkA.disc_repeat_count = 0
           /\ A!HostDisconnect
           /\ OnlyA /\ UNCHANGED <<calls, sentA, sentB>>

HangUpB == /\ "DISCONNECT" \in sc.cmdB
           /\ toldB = "CONNECTED" /\ lkB.disc_repeat_count = 0
           /\ B!HostDisconnect
           /\ OnlyB /\ UNCHANGED <<calls, sentA, sentB>>

Happens(step) == step /\ Collide /\ Delivers /\ UNCHANGED sc

Next == Happens(\/ Channel \/ RepeatA \/ RepeatB \/ TimerA \/ TimerB
                \/ SilenceA \/ SilenceB
                \/ CallA \/ SendA \/ SendB \/ BreakA \/ BreakB
                \/ HangUpA \/ HangUpB)

Spec == Init /\ [][Next]_vars

\* A transmission ends (pull_tx drains the modulator), and a repeat timer that
\* keeps coming due is served: the loop services the timers in every block it
\* is not transmitting, and the 2 s of listening after each transmission is
\* longer than any answer.  The silence deadline is served the same way.
\* Nothing is assumed of the hosts.
Fairness == /\ WF_vars(Happens(Channel))
            /\ SF_vars(Happens(RepeatA)) /\ SF_vars(Happens(RepeatB))
            /\ SF_vars(Happens(SilenceA)) /\ SF_vars(Happens(SilenceB))

FairSpec == Spec /\ Fairness

-----------------------------------------------------------------------------
(* Properties *)

\* A host that hangs up gives up what follows: the frames its station still
\* acknowledges take the place of its DISC, see HangUpRepeatsDisc.
HangsUp(told, lk) == told = "DISCONNECTED" \/ lk.disc_repeat_count > 0

\* Each host is handed the other's units in order, each once, none skipped
\* (deliver_data's last_data_to_host check, the even/odd types of
\* iss_send_next, the turnovers).  CarriesStreams says it too, and when.
InOrderOnce ==
    /\ (\A i \in DOMAIN gotA : gotA[i] = i) \/ HangsUp(toldA, lkA)
    /\ (\A i \in DOMAIN gotB : gotB[i] = i) \/ HangsUp(toldB, lkB)

\* A unit leaves a sender's queue only when the other host has it: a DataACK
\* confirms delivery (step_iss_data_rx), and a turnover keeps the queue
\* (iss_yield_on_break).
NoSilentLoss ==
    /\ sentA - Len(lkA.tx) <= Len(gotB) \/ HangsUp(toldB, lkB)
    /\ sentB - Len(lkB.tx) <= Len(gotA) \/ HangsUp(toldA, lkA)

\* The two directions of the session as the hosts see them (Stream.tla).
ToB == INSTANCE Stream WITH
           sent <- sentA, confirmed <- sentA - Len(lkA.tx), got <- gotB,
           over <- HangsUp(toldB, lkB)

ToA == INSTANCE Stream WITH
           sent <- sentB, confirmed <- sentB - Len(lkB.tx), got <- gotA,
           over <- HangsUp(toldA, lkA)

\* The two stations, their frames, timers and the channel between them are two
\* streams: every step of either delivers the next units, confirms delivered
\* ones, or is none of a host's business (deliver_data, step_iss_data_rx).
CarriesStreams == ToB!Spec /\ ToA!Spec

\* A station that hangs up does "send DISC and repeat it (up to five tries in
\* the timer service) until the peer answers END" (step_host_disconnect): the
\* repeat timer that counts a try puts a DISC on the air (step_timer).
HangUpRepeatsDisc ==
    [][/\ lkA.disc_repeat_count \in 1..(lkA'.disc_repeat_count - 1)
              => airA'.k = "DISC"
       /\ lkB.disc_repeat_count \in 1..(lkB'.disc_repeat_count - 1)
              => airB'.k = "DISC"]_vars

\* The two stations of a session never both hold the sender's role.
OneSender ==
    ~(lkA.state \in {"ISS", "IDLE"} /\ lkB.state \in {"ISS", "IDLE"})

\* The calling host is told CONNECTED only after the called host: the
\* handshake is finished by the target's DataACK.
CallerConnectsLast == toldA = "CONNECTED" => toldB # "NONE"

\* What either station makes of the session fits the other's.
RolesFit == OneSender /\ CallerConnectsLast

\* The eventualities are claimed where the silence deadline is served and a
\* timer does not fire into the other station's transmission: repeats at fixed
\* intervals could collide for ever.
InTurn == ~sc.overlap

\* Once the calling host knows of the session, every unit it queues reaches
\* the other host unless one of them hangs up: lost and damaged frames are
\* resent until acknowledged (arm_repeat, step_timer, step_iss_data_rx).
DataFromAArrives ==
    \A n \in 1..MaxData :
        (toldA = "CONNECTED" /\ sentA >= n /\ InTurn)
            ~> \/ Len(gotB) >= n
               \/ lkA.disc_repeat_count > 0 \/ HangsUp(toldB, lkB)

\* The called station's units arrive too, for which it has to take the link
\* over with BREAK (send_break, iss_yield_on_break, step_irs_to_iss_rx).
DataFromBArrives ==
    \A n \in 1..MaxData :
        (toldA = "CONNECTED" /\ sentB >= n /\ InTurn) ~> Len(gotA) >= n

\* What either host queues in a session reaches the other.
DataArrives == DataFromAArrives /\ DataFromBArrives

\* A station that asks for the link gets it and becomes the sender: it repeats
\* "BREAK until the ISS acknowledges" (send_break, step_irs_to_iss_rx).
TurnoverCompletes ==
    /\ (lkA.state = "IRS_TO_ISS" /\ InTurn) ~> lkA.state \in {"ISS", "IDLE"}
    /\ (lkB.state = "IRS_TO_ISS" /\ InTurn) ~> lkB.state \in {"ISS", "IDLE"}

\* Either host, or both, can hang up at any moment, and the session then ends
\* on both sides: DISC is sent up to five times, the peer answers END, and a
\* station that is left without an answer ends on its silence deadline
\* (step_host_disconnect, connected_teardown, step_timer).
HangUpCompletes ==
    /\ (toldA = "CONNECTED" /\ lkA.disc_repeat_count > 0 /\ InTurn)
           ~> (toldA # "CONNECTED" /\ toldB # "CONNECTED")
    /\ (toldB = "CONNECTED" /\ lkB.disc_repeat_count > 0 /\ InTurn)
           ~> (toldA # "CONNECTED" /\ toldB # "CONNECTED")
=============================================================================
