-------------------------------- MODULE Link --------------------------------
(***************************************************************************)
(* One station's ARDOP link machine: ardop_link_step() of                  *)
(* core/link/link.c, driven by the runtime (shell/runtime.c) and its loop  *)
(* (shell/loop.c).                                                         *)
(*                                                                         *)
(* The C machine is a pure step function; its static helpers, which edit   *)
(* the ardop_link struct, are the operators below that map a link record   *)
(* to a link record and keep the C names.  Each handler of an input        *)
(* (a demodulator event, a host command, a due timer, the end of a         *)
(* transmission) is an action.                                             *)
(*                                                                         *)
(* Data is abstracted to what the protocol distinguishes.  A frame is its  *)
(* kind; a data frame also has its type, 2 * (ladder index) + parity, and  *)
(* its payload, a sequence of data units.  A deadline is a Boolean: armed  *)
(* or 0; an armed one may be due at any moment the loop services timers.   *)
(* Session ids, callsigns and reported qualities decide nothing in these   *)
(* handlers once a frame is decoded, and are left out; the negotiated      *)
(* bandwidth and the gear shift are nondeterministic here (GearShift.tla   *)
(* has the gear shift in full).                                            *)
(***************************************************************************)
EXTENDS Integers, Sequences

CONSTANTS
    Data,         \* the units of payload a host may send
    Modes,        \* number of modes in the session's gear-shift ladder
    Cap,          \* Cap[m]: capacity of a frame of ladder mode m, in units
    TxCap,        \* tx_cap: capacity of the outbound queue, in units
    Listening,    \* listening: answer connect requests
    PingAck,      \* enable_ping_ack
    AutoBreak,    \* auto_break
    IdleTimed,    \* idle_timeout > 0
    DiscTries,    \* DISCs sent before a disconnect is forced; 5 in the code
    FecRepeats,   \* fec_repeats: extra sends of each FEC frame
    FecTypes,     \* frame types a host may broadcast with (FECMODE)
    Replies,      \* possible outcomes of ardop_negotiate_bandwidth
    Commands      \* the host commands this station's host issues

NoType == -1
DataTypes == 0..(2 * Modes - 1)

ASSUME ModesAssumption == Modes \in Nat \ {0}
ASSUME CapAssumption == Cap \in [0..(Modes - 1) -> Nat \ {0}]
ASSUME TxCapAssumption == TxCap \in Nat
ASSUME FlagsAssumption ==
    /\ Listening \in BOOLEAN /\ PingAck \in BOOLEAN
    /\ AutoBreak \in BOOLEAN /\ IdleTimed \in BOOLEAN
ASSUME DiscTriesAssumption == DiscTries \in Nat \ {0}
ASSUME FecAssumption ==
    FecRepeats \in Nat /\ FecTypes \subseteq DataTypes \cup {NoType}
ASSUME RepliesAssumption == Replies \subseteq {"CONACK", "CONREJ"}

VARIABLES
    lk,    \* the ardop_link struct
    air,   \* the frame the modulator is transmitting (tx_active), or Silence
    fresh, \* that transmission began in the audio block still being served
    told,  \* the last session status pushed to the host (NOTIFY_HOST)
    rx     \* payload the last step handed to the host (DELIVER_DATA)

vars == <<lk, air, fresh, told, rx>>

-----------------------------------------------------------------------------
(* Frames *)

ControlKinds == {"ACK", "NAK", "BREAK", "IDLE", "DISC", "END", "CONREJ"}
CallKinds == {"CONREQ", "ID", "PING"}
Kinds == ControlKinds \cup CallKinds
             \cup {"CONACK", "PINGACK", "DATA", "JUNK", "SILENCE"}

Frame(k) == [k |-> k, ft |-> NoType, d |-> <<>>]
DataFrame(ft, d) == [k |-> "DATA", ft |-> ft, d |-> d]
Silence == Frame("SILENCE")

Frames == [k : Kinds, ft : DataTypes \cup {NoType}, d : Seq(Data)]

-----------------------------------------------------------------------------
(* The link struct *)

States == {"DISC", "ISS_CON_REQ", "ISS_CON_ACK", "ISS", "IRS_CON_ACK",
           "IRS_DATA", "IDLE", "IRS_TO_ISS", "IRS_FROM_ISS", "FEC_SEND"}

\* The states connected_teardown() serves: a session both hosts know of.
ConnectedStates == {"ISS", "IDLE", "IRS_DATA", "IRS_TO_ISS", "IRS_FROM_ISS"}

LinkStruct ==
    [mode : {"ARQ", "FEC", "RXO"},
     state : States,
     pending : BOOLEAN,
     last_data_to_host : DataTypes \cup {NoType},
     last_acked_type : DataTypes \cup {NoType},
     break_pending : BOOLEAN,
     tx : Seq(Data),                 \* tx_data[0..tx_len)
     mode_ptr : 0..(Modes - 1),
     last_data_sent : DataTypes,
     last_data_acked : DataTypes,
     outstanding : Nat,              \* outstanding_len
     fec_frame_type : DataTypes \cup {NoType},
     fec_reps_sent : 0..FecRepeats,
     fec_have_last : BOOLEAN,
     last_fec : Seq(Data),           \* the payload behind last_fec_crc
     final_id : BOOLEAN,             \* the five deadlines, armed or 0
     pending_deadline : BOOLEAN,
     stall : BOOLEAN,
     idle : BOOLEAN,
     repeat : BOOLEAN,
     repeat_type : Kinds,            \* repeat_frame_type
     disc_repeat_count : 0..DiscTries,
     out : Frames]                   \* out_frame

ardop_link_init ==
    [mode |-> "ARQ", state |-> "DISC", pending |-> FALSE,
     last_data_to_host |-> NoType, last_acked_type |-> NoType,
     break_pending |-> FALSE, tx |-> <<>>, mode_ptr |-> 0,
     last_data_sent |-> 0, last_data_acked |-> 0, outstanding |-> 0,
     fec_frame_type |-> 0, fec_reps_sent |-> 0, fec_have_last |-> FALSE,
     last_fec |-> <<>>, final_id |-> FALSE, pending_deadline |-> FALSE,
     stall |-> FALSE, idle |-> FALSE, repeat |-> FALSE,
     repeat_type |-> "SILENCE", disc_repeat_count |-> 0, out |-> Silence]

Init ==
    /\ lk = ardop_link_init
    /\ air = Silence
    /\ fresh = FALSE
    /\ told = "NONE"
    /\ rx = <<>>

-----------------------------------------------------------------------------
(* The helpers of link.c *)

\* send_control: build a two-byte control frame in out_frame.
send_control(l, k) == [l EXCEPT !.out = Frame(k)]

\* Mutant: the repeat timer is not armed.
arm_repeat_never(l, k) == [l EXCEPT !.repeat_type = k]

arm_repeat(l, k) == [l EXCEPT !.repeat = TRUE, !.repeat_type = k]

arm_stall(l) == [l EXCEPT !.stall = TRUE]

arm_idle(l) == [l EXCEPT !.idle = @ \/ IdleTimed]

reset_to_disc(l) ==
    [l EXCEPT !.state = "DISC", !.pending = FALSE, !.repeat = FALSE,
              !.pending_deadline = FALSE, !.stall = FALSE, !.idle = FALSE]

tx_dequeue(l, count) ==
    [l EXCEPT !.tx = IF count < Len(@) THEN SubSeq(@, count + 1, Len(@))
                                       ELSE <<>>]

\* Where gearshift() may leave the mode pointer: one rung down or up, up only
\* when the remaining data does not fit the current mode.
gearshift(l) ==
    {m \in 0..(Modes - 1) :
        \/ m = l.mode_ptr
        \/ m = l.mode_ptr - 1
        \/ m = l.mode_ptr + 1 /\ Len(l.tx) > Cap[l.mode_ptr]}

\* The parity of the next data frame differs from the last one acknowledged.
NextType(l) == 2 * l.mode_ptr + (1 - (l.last_data_acked % 2))

FirstUnits(s, n) == IF n < Len(s) THEN SubSeq(s, 1, n) ELSE s

\* Mutant: the capacity of the frame in flight is recorded, not its length.
iss_send_next_full_length(l) ==
    IF l.tx = <<>>
    THEN arm_repeat([send_control(l, "IDLE") EXCEPT !.state = "IDLE"], "IDLE")
    ELSE arm_repeat([l EXCEPT !.last_data_sent = NextType(l),
                              !.outstanding = Cap[l.mode_ptr],
                              !.state = "ISS",
                              !.out = DataFrame(NextType(l),
                                          FirstUnits(l.tx, Cap[l.mode_ptr]))],
                    "DATA")

iss_send_next(l) ==
    IF l.tx = <<>>
    THEN arm_repeat([send_control(l, "IDLE") EXCEPT !.state = "IDLE"], "IDLE")
    ELSE LET take == FirstUnits(l.tx, Cap[l.mode_ptr])
         IN  arm_repeat([l EXCEPT !.last_data_sent = NextType(l),
                                  !.outstanding = Len(take),
                                  !.state = "ISS",
                                  !.out = DataFrame(NextType(l), take)],
                        "DATA")

iss_begin_sending(l) == [l EXCEPT !.last_data_acked = 1, !.mode_ptr = 0]

\* Mutant: a BREAK is acknowledged, the role is kept.
iss_yield_in_name_only(l) ==
    send_control([l EXCEPT !.outstanding = 0,
                           !.last_data_to_host = NoType,
                           !.state = "IDLE"], "ACK")

iss_yield_on_break(l) ==
    send_control([l EXCEPT !.outstanding = 0,
                           !.last_data_to_host = NoType,
                           !.repeat = FALSE,
                           !.state = "IRS_FROM_ISS"], "ACK")

\* Mutant: BREAK is sent once and not repeated.
send_break_once(l) ==
    [send_control(l, "BREAK") EXCEPT !.state = "IRS_TO_ISS",
                                     !.break_pending = FALSE]

send_break(l) ==
    arm_repeat([send_control(l, "BREAK") EXCEPT !.state = "IRS_TO_ISS",
                                                !.break_pending = FALSE],
               "BREAK")

fec_send_next(l) ==
    IF l.tx = <<>> \/ l.fec_frame_type = NoType
    THEN reset_to_disc(l)
    ELSE LET take == FirstUnits(l.tx, Cap[l.fec_frame_type \div 2])
         IN  [tx_dequeue(l, Len(take)) EXCEPT
                  !.fec_reps_sent = 0,
                  !.repeat_type = "DATA",
                  !.out = DataFrame(l.fec_frame_type, take)]

\* What a resend of out_frame under repeat_frame_type puts on the air: the
\* type byte comes from out_frame, the modulation from repeat_frame_type, so
\* a payload survives only when both have the same shape (ardop_mod_begin).
Resent(l) ==
    IF \/ l.out.k \in ControlKinds
       \/ l.out.k = l.repeat_type
       \/ {l.out.k, l.repeat_type} \subseteq CallKinds
    THEN l.out ELSE Frame("JUNK")

-----------------------------------------------------------------------------
(* What a step does besides changing the struct: start_tx() replaces what   *)
(* the modulator holds by out_frame, whether or not it was transmitting.    *)

Send(l) == lk' = l /\ air' = l.out
Keep(l) == lk' = l /\ UNCHANGED air

\* serve_rx feeds a block to the demodulator and then services the timers,
\* once, even if a frame of that block has just started a transmission.
Serving == air = Silence \/ fresh
Served == fresh' = FALSE

Quiet == UNCHANGED told /\ rx' = <<>>
Notify(m) == told' = m /\ rx' = <<>>
Deliver(d) == UNCHANGED told /\ rx' = d

-----------------------------------------------------------------------------
(* Demodulator events (ARDOP_IN_RX).                                        *)

\* The prologue of ardop_link_step: any decoded frame of a session proves the
\* link alive.
Heard == IF lk.mode = "ARQ" /\ lk.state # "DISC" THEN arm_stall(lk) ELSE lk

\* The dispatch of ardop_link_step: ARQ mode, one of the states S.
InArq(S) == lk.mode = "ARQ" /\ lk.state \in S

\* step_disc_rx, a DISC of the previous session: our END was missed.
RxLateDisc(f) ==
    /\ InArq({"DISC"}) /\ f.k = "DISC"
    /\ Send([send_control(lk, "END") EXCEPT !.final_id = TRUE])
    /\ Quiet

\* step_disc_conreq, incompatible bandwidth.  A request for another station
\* changes nothing, one to a station that does not listen neither.
RxConreqReject(f) ==
    /\ InArq({"DISC"}) /\ f.k = "CONREQ" /\ Listening
    /\ "CONREJ" \in Replies
    /\ Send(send_control(lk, "CONREJ"))
    /\ Quiet

\* step_disc_conreq, accepted.
RxConreqAccept(f) ==
    /\ InArq({"DISC"}) /\ f.k = "CONREQ" /\ Listening
    /\ "CONACK" \in Replies
    /\ Send([lk EXCEPT !.pending = TRUE, !.state = "IRS_CON_ACK",
                       !.pending_deadline = TRUE, !.out = Frame("CONACK")])
    /\ Quiet

\* step_disc_ping
RxPing(f) ==
    /\ InArq({"DISC"}) /\ f.k = "PING" /\ Listening /\ PingAck
    /\ Send([lk EXCEPT !.final_id = TRUE, !.out = Frame("PINGACK")])
    /\ Quiet

\* step_iss_conreq_rx: the called station answered.
RxConackAtCaller(f) ==
    /\ InArq({"ISS_CON_REQ"}) /\ f.k = "CONACK"
    /\ Send(arm_repeat([Heard EXCEPT !.pending = FALSE,
                                     !.state = "ISS_CON_ACK",
                                     !.out = Frame("CONACK")], "CONACK"))
    /\ Quiet

\* step_iss_conreq_rx: the called station refused.
RxConrej(f) ==
    /\ InArq({"ISS_CON_REQ"}) /\ f.k = "CONREJ"
    /\ Keep(reset_to_disc(Heard))
    /\ Notify("REJECTED")

\* step_irs_conack_rx: the caller's ConAck completes the session.
RxConackAtTarget(f) ==
    /\ InArq({"IRS_CON_ACK"}) /\ f.k = "CONACK"
    /\ Send(send_control(arm_idle(arm_stall(
                [lk EXCEPT !.pending = FALSE, !.pending_deadline = FALSE,
                           !.state = "IRS_DATA"])), "ACK"))
    /\ Notify("CONNECTED")

\* step_iss_conack_rx: the target's DataACK completes the session.
RxHandshakeAck(f) ==
    /\ InArq({"ISS_CON_ACK"}) /\ f.k = "ACK"
    /\ Send(iss_send_next(arm_idle(arm_stall(
                iss_begin_sending([lk EXCEPT !.pending = FALSE])))))
    /\ Notify("CONNECTED")

\* connected_teardown: the peer disconnects.
RxDisc(f) ==
    /\ InArq(ConnectedStates) /\ f.k = "DISC"
    /\ Send(reset_to_disc([send_control(Heard, "END") EXCEPT !.final_id = TRUE]))
    /\ Notify("DISCONNECTED")

\* Mutant: an END is accepted and the host is not told.
RxEnd_untold(f) ==
    /\ InArq(ConnectedStates) /\ f.k = "END"
    /\ Keep(reset_to_disc(Heard))
    /\ Quiet

\* connected_teardown: the peer answers our DISC.
RxEnd(f) ==
    /\ InArq(ConnectedStates) /\ f.k = "END"
    /\ Keep(reset_to_disc(Heard))
    /\ Notify("DISCONNECTED")

\* step_iss_data_rx and step_idle_rx, a BREAK.
RxBreak(f) ==
    /\ InArq({"ISS", "IDLE"}) /\ f.k = "BREAK"
    /\ Send(iss_yield_on_break(Heard))
    /\ Quiet

\* step_iss_data_rx, a DataACK.
RxDataAck(f) ==
    /\ InArq({"ISS"}) /\ f.k = "ACK"
    /\ LET l == [tx_dequeue(Heard, Heard.outstanding) EXCEPT
                     !.last_data_acked = lk.last_data_sent,
                     !.outstanding = 0]
       IN  \E m \in gearshift(l) :
               Send(iss_send_next([arm_idle(l) EXCEPT !.mode_ptr = m]))
    /\ Quiet

\* step_iss_data_rx, a DataNAK: resend at once only if the mode changes.
RxDataNak(f) ==
    /\ InArq({"ISS"}) /\ f.k = "NAK"
    /\ \E m \in gearshift(lk) :
           IF m = lk.mode_ptr THEN Keep(Heard)
           ELSE Send(iss_send_next([Heard EXCEPT !.mode_ptr = m]))
    /\ Quiet

\* step_idle_rx, a DataACK of an IDLE: resume if the host has queued data.
RxIdleAck(f) ==
    /\ InArq({"IDLE"}) /\ f.k = "ACK" /\ lk.tx # <<>>
    /\ Send(iss_send_next(Heard))
    /\ Quiet

\* Mutant: the automatic break is forgotten.
RxIdle_no_auto_break(f) ==
    /\ InArq({"IRS_DATA", "IRS_FROM_ISS"}) /\ f.k = "IDLE"
    /\ IF lk.state = "IRS_DATA" /\ lk.tx # <<>> /\ lk.break_pending
       THEN Send(send_break(Heard))
       ELSE Send(send_control(Heard, "ACK"))
    /\ Quiet

\* step_irs_data_rx, an IDLE of the sender.
RxIdle(f) ==
    /\ InArq({"IRS_DATA", "IRS_FROM_ISS"}) /\ f.k = "IDLE"
    /\ IF /\ lk.state = "IRS_DATA" /\ lk.tx # <<>>
          /\ lk.break_pending \/ AutoBreak
       THEN Send(send_break(Heard))
       ELSE Send(send_control(Heard, "ACK"))
    /\ Quiet

\* step_irs_data_rx, a good data frame: BREAK on it, or deliver and ACK it.
BreaksOn(f) ==
    lk.state = "IRS_DATA" /\ lk.break_pending /\ f.ft # lk.last_acked_type

\* Mutant: a resend is delivered again.
RxData_no_dedup(f) ==
    /\ InArq({"IRS_DATA", "IRS_FROM_ISS"}) /\ f.k = "DATA"
    /\ IF BreaksOn(f)
       THEN Send(send_break(arm_idle(Heard))) /\ Quiet
       ELSE /\ Send([send_control(arm_idle(Heard), "ACK") EXCEPT
                         !.last_data_to_host = f.ft,
                         !.last_acked_type = f.ft,
                         !.state = "IRS_DATA"])
            /\ Deliver(f.d)

RxData(f) ==
    /\ InArq({"IRS_DATA", "IRS_FROM_ISS"}) /\ f.k = "DATA"
    /\ IF BreaksOn(f)
       THEN Send(send_break(arm_idle(Heard))) /\ Quiet
       ELSE /\ Send([send_control(arm_idle(Heard), "ACK") EXCEPT
                         !.last_data_to_host = f.ft,
                         !.last_acked_type = f.ft,
                         !.state = "IRS_DATA"])
            /\ IF f.ft # lk.last_data_to_host THEN Deliver(f.d) ELSE Quiet

\* Mutant: a failed decode is always ACKed.
RxBadData_acked(f) ==
    /\ InArq({"IRS_DATA", "IRS_FROM_ISS"}) /\ f.k = "DATA"
    /\ Send([send_control(lk, "ACK") EXCEPT !.state = "IRS_DATA"])
    /\ Quiet

\* step_irs_data_rx, a failed decode (ARDOP_EV_FRAME_BAD) of a data frame:
\* re-ACK a type already ACKed, NAK any other.
RxBadData(f) ==
    /\ InArq({"IRS_DATA", "IRS_FROM_ISS"}) /\ f.k = "DATA"
    /\ IF f.ft = lk.last_acked_type
       THEN Send(send_control(lk, "ACK"))
       ELSE Send([send_control(lk, "NAK") EXCEPT !.state = "IRS_DATA"])
    /\ Quiet

\* Mutant: the acknowledged BREAK is ignored.
RxBreakAck_ignored(f) ==
    /\ InArq({"IRS_TO_ISS"}) /\ f.k = "ACK"
    /\ Keep(Heard)
    /\ Quiet

\* step_irs_to_iss_rx: our BREAK is acknowledged; we are the sender now.
RxBreakAck(f) ==
    /\ InArq({"IRS_TO_ISS"}) /\ f.k = "ACK"
    /\ Send(iss_send_next([iss_begin_sending(Heard) EXCEPT
                               !.last_data_to_host = NoType]))
    /\ Quiet

\* step_fec_rx: deliver every good data frame but a repeat of the last one.
RxFec(f) ==
    /\ lk.mode = "FEC" /\ lk.state # "FEC_SEND" /\ f.k = "DATA"
    /\ ~(lk.fec_have_last /\ f.ft = lk.last_data_to_host /\ f.d = lk.last_fec)
    /\ Keep([lk EXCEPT !.last_data_to_host = f.ft, !.last_fec = f.d,
                       !.fec_have_last = TRUE])
    /\ Deliver(f.d)

\* step_rxo_rx: hand over the content of whatever is decoded.
RxRxo(f) ==
    /\ lk.mode = "RXO" /\ f.k = "DATA"
    /\ Keep(lk)
    /\ Deliver(f.d)

\* Every other frame is ignored by the state it meets, but counts as heard.
Handled(f) ==
    \/ InArq({"DISC"}) /\ f.k = "DISC"
    \/ InArq({"DISC"}) /\ Listening /\ f.k = "CONREQ" /\ Replies # {}
    \/ InArq({"DISC"}) /\ Listening /\ f.k = "PING" /\ PingAck
    \/ InArq({"ISS_CON_REQ"}) /\ f.k \in {"CONACK", "CONREJ"}
    \/ InArq({"IRS_CON_ACK"}) /\ f.k = "CONACK"
    \/ InArq({"ISS_CON_ACK", "ISS", "IRS_TO_ISS"}) /\ f.k = "ACK"
    \/ InArq(ConnectedStates) /\ f.k \in {"DISC", "END"}
    \/ InArq({"ISS", "IDLE"}) /\ f.k = "BREAK"
    \/ InArq({"ISS"}) /\ f.k = "NAK"
    \/ InArq({"IDLE"}) /\ f.k = "ACK" /\ lk.tx # <<>>
    \/ InArq({"IRS_DATA", "IRS_FROM_ISS"}) /\ f.k \in {"IDLE", "DATA"}
    \/ lk.mode = "FEC" /\ lk.state # "FEC_SEND" /\ f.k = "DATA"
       /\ ~(lk.fec_have_last /\ f.ft = lk.last_data_to_host
                             /\ f.d = lk.last_fec)
    \/ lk.mode = "RXO" /\ f.k = "DATA"

RxIgnored(f) ==
    /\ ~Handled(f)
    /\ Keep(Heard)
    /\ Quiet

\* A decoded frame reaches the machine.
Rx(f) ==
    /\ Serving
    /\ f.k # "JUNK"
    /\ \/ RxLateDisc(f) \/ RxConreqReject(f) \/ RxConreqAccept(f)
       \/ RxPing(f) \/ RxConackAtCaller(f) \/ RxConrej(f)
       \/ RxConackAtTarget(f) \/ RxHandshakeAck(f) \/ RxDisc(f) \/ RxEnd(f)
       \/ RxBreak(f) \/ RxDataAck(f) \/ RxDataNak(f) \/ RxIdleAck(f)
       \/ RxIdle(f) \/ RxData(f) \/ RxBreakAck(f) \/ RxFec(f) \/ RxRxo(f)
       \/ RxIgnored(f)
    /\ fresh' = (air' # Silence)

\* A frame whose type was read but whose payload failed to decode.
RxBad(f) == Serving /\ RxBadData(f) /\ fresh' = (air' # Silence)

-----------------------------------------------------------------------------
(* Timers (ARDOP_IN_NONE, step_timer): the first one due is served.         *)

PendingTimeout ==
    /\ Serving /\ lk.pending_deadline
    /\ Keep(reset_to_disc(lk))
    /\ Notify("DISCONNECTED") /\ Served

StallTimeout ==
    /\ Serving /\ lk.stall
    /\ Keep(reset_to_disc(lk))
    /\ Notify("DISCONNECTED") /\ Served

\* step_host_disconnect: also the idle timer's way out of a session.
step_host_disconnect(l) ==
    arm_repeat([send_control(l, "DISC") EXCEPT !.disc_repeat_count = 1],
               "DISC")

IdleTimeout ==
    /\ Serving /\ lk.idle
    /\ LET l == [lk EXCEPT !.idle = FALSE]
       IN  IF l.state = "DISC" THEN Keep(l) ELSE Send(step_host_disconnect(l))
    /\ Quiet /\ Served

FinalId ==
    /\ Serving /\ lk.final_id
    /\ Send([lk EXCEPT !.final_id = FALSE, !.out = Frame("ID")])
    /\ Quiet /\ Served

Disconnecting(l) == l.repeat_type = "DISC" /\ l.disc_repeat_count > 0

\* Mutant: the count of DISCs is not checked.
Repeat_forever ==
    /\ Serving /\ lk.repeat
    /\ lk' = [lk EXCEPT !.disc_repeat_count =
                            IF Disconnecting(lk) THEN @ + 1 ELSE @]
    /\ air' = Resent(lk)
    /\ Quiet /\ Served

\* The repeat timer: resend out_frame, a DISC at most DiscTries times.
Repeat ==
    /\ Serving /\ lk.repeat
    /\ ~(Disconnecting(lk) /\ lk.disc_repeat_count = DiscTries)
    /\ lk' = [lk EXCEPT !.disc_repeat_count =
                            IF Disconnecting(lk) THEN @ + 1 ELSE @]
    /\ air' = Resent(lk)
    /\ Quiet /\ Served

RepeatGivesUp ==
    /\ Serving /\ lk.repeat
    /\ Disconnecting(lk) /\ lk.disc_repeat_count = DiscTries
    /\ Keep(reset_to_disc([lk EXCEPT !.disc_repeat_count = 0]))
    /\ Notify("DISCONNECTED") /\ Served

Timer == \/ PendingTimeout \/ StallTimeout \/ IdleTimeout \/ FinalId
         \/ Repeat \/ RepeatGivesUp

-----------------------------------------------------------------------------
(* The end of a transmission (ARDOP_IN_TX_DONE).  A repeat timer that is     *)
(* armed is armed anew, which the Boolean does not show.                    *)

TxDone ==
    /\ air # Silence /\ lk.state # "FEC_SEND"
    /\ air' = Silence
    /\ UNCHANGED lk
    /\ Quiet /\ Served

\* Mutant: the broadcast goes quiet after the last repeat of a frame.
FecTxDone_stops ==
    /\ air # Silence /\ lk.state = "FEC_SEND"
    /\ IF lk.fec_reps_sent < FecRepeats
       THEN /\ lk' = [lk EXCEPT !.fec_reps_sent = @ + 1]
            /\ air' = Resent(lk)
       ELSE air' = Silence /\ UNCHANGED lk
    /\ Quiet /\ Served

\* step_fec_tx_done: repeat the frame, then the next, then back to DISC.
FecTxDone ==
    /\ air # Silence /\ lk.state = "FEC_SEND"
    /\ IF lk.fec_reps_sent < FecRepeats
       THEN /\ lk' = [lk EXCEPT !.fec_reps_sent = @ + 1]
            /\ air' = Resent(lk)
       ELSE LET l == fec_send_next(lk)
            IN  /\ lk' = l
                /\ air' = IF l.state = "DISC" THEN Silence ELSE l.out
    /\ Quiet /\ Served

-----------------------------------------------------------------------------
(* Host commands (ARDOP_IN_HOST), applied between blocks, also while the     *)
(* station transmits.                                                       *)

Issues(c) == c \in Commands

HostConnect ==
    /\ Issues("CONNECT") /\ lk.state = "DISC"
    /\ Send(arm_repeat([lk EXCEPT !.pending = TRUE, !.state = "ISS_CON_REQ",
                                  !.out = Frame("CONREQ")], "CONREQ"))
    /\ Quiet /\ Served

HostSendData(d) ==
    /\ Issues("SEND_DATA")
    /\ IF Len(lk.tx) < TxCap
       THEN Keep(arm_idle([lk EXCEPT !.tx = FirstUnits(@ \o d, TxCap)]))
       ELSE Keep(lk)
    /\ Quiet /\ Served

HostDisconnect ==
    /\ Issues("DISCONNECT") /\ lk.state # "DISC"
    /\ Send(step_host_disconnect(lk))
    /\ Quiet /\ Served

HostAbort ==
    /\ Issues("ABORT")
    /\ Keep(reset_to_disc([lk EXCEPT !.tx = <<>>, !.disc_repeat_count = 0]))
    /\ Notify("ABORT") /\ Served

HostBreak ==
    /\ Issues("BREAK") /\ lk.state = "IRS_DATA"
    /\ Keep([lk EXCEPT !.break_pending = TRUE])
    /\ Quiet /\ Served

HostSetMode(m) ==
    /\ Issues("SET_MODE") /\ lk.state = "DISC"
    /\ Keep([lk EXCEPT !.mode = m])
    /\ Quiet /\ Served

HostSendId ==
    /\ Issues("SEND_ID") /\ lk.state = "DISC"
    /\ Send([lk EXCEPT !.out = Frame("ID")])
    /\ Quiet /\ Served

\* step_host_fec_send: the mode changes in every state, the broadcast starts
\* only in DISC.
HostFecSend(ft) ==
    /\ Issues("FEC_SEND")
    /\ LET l == [lk EXCEPT !.fec_frame_type = ft, !.mode = "FEC"]
           b == fec_send_next([l EXCEPT !.state = "FEC_SEND"])
       IN  IF lk.state # "DISC" \/ b.state = "DISC"
           THEN Keep(IF lk.state # "DISC" THEN l ELSE b)
           ELSE Send(b)
    /\ Quiet /\ Served

\* PURGEBUFFER and BUFFER 0 of the text protocol (shell/host.c) empty the
\* queue behind the machine's back.
HostPurge ==
    /\ Issues("PURGEBUFFER")
    /\ Keep([lk EXCEPT !.tx = <<>>])
    /\ Quiet /\ Served

Host ==
    \/ HostConnect \/ HostDisconnect \/ HostAbort \/ HostBreak \/ HostSendId
    \/ HostPurge
    \/ \E d \in Data : HostSendData(<<d>>)
    \/ \E m \in {"ARQ", "FEC", "RXO"} : HostSetMode(m)
    \/ \E ft \in FecTypes : HostFecSend(ft)

-----------------------------------------------------------------------------
(* One station on an arbitrary channel: any frame may be heard at any time. *)

Payloads == UNION {[1..n -> Data] : n \in {Cap[m] : m \in DOMAIN Cap}}
Channel == {Frame(k) : k \in Kinds \ {"DATA", "SILENCE", "JUNK"}}
               \cup {DataFrame(ft, d) : ft \in DataTypes, d \in Payloads}

Next == \/ \E f \in Channel : Rx(f) \/ RxBad(f)
        \/ Timer \/ TxDone \/ FecTxDone \/ Host

Spec == Init /\ [][Next]_vars
-----------------------------------------------------------------------------
(* Properties *)

TypeOK ==
    /\ lk \in LinkStruct
    /\ air \in Frames
    /\ fresh \in BOOLEAN
    /\ told \in {"NONE", "CONNECTED", "DISCONNECTED", "REJECTED", "ABORT"}
    /\ rx \in Seq(Data)

\* A disconnected station owes the channel nothing: whatever path led back to
\* DISC (teardown, timeout, rejection, abort, end of a broadcast), no resend,
\* no pending connection and no session deadline survives it (reset_to_disc).
DiscIsQuiet ==
    lk.state = "DISC" => /\ ~lk.repeat /\ ~lk.pending
                         /\ ~lk.pending_deadline /\ ~lk.stall

\* The receiving side of a session never resends on a timer
\* except a DISC of its own: a repeat timer left over from the sender's role
\* would jam the station the link was yielded to (iss_yield_on_break).
ReceiverNeverRepeats ==
    lk.state \in {"IRS_CON_ACK", "IRS_DATA", "IRS_FROM_ISS"}
        /\ lk.repeat => lk.repeat_type = "DISC"

\* A station that waits for an answer has its repeat timer armed, in every
\* sender state: a lost answer can never leave it waiting in silence.
SenderKeepsTrying ==
    lk.state \in {"ISS_CON_REQ", "ISS_CON_ACK", "ISS", "IDLE", "IRS_TO_ISS"}
        => lk.repeat

\* Every half-open or open session has a deadline that ends it when the other
\* station disappears: the 10 s pending timeout, or ARQTIMEOUT of silence.
SessionsCanEnd ==
    /\ lk.state = "IRS_CON_ACK" => lk.pending_deadline
    /\ lk.state \in ConnectedStates \cup {"ISS_CON_ACK"} => lk.stall

\* In every state exactly those deadlines are armed that belong to it.
DeadlinesFit ==
    DiscIsQuiet /\ ReceiverNeverRepeats /\ SenderKeepsTrying /\ SessionsCanEnd

\* The host believes in a session exactly while there is one: the last status
\* it was told is CONNECTED iff the machine is in a connected state.
HostKnowsSession ==
    told = "CONNECTED" <=> lk.state \in ConnectedStates

\* A broadcaster is always transmitting: FEC_SEND is only ever left by the end
\* of a transmission, so a silent broadcaster would be stuck and deaf.
BroadcasterTransmits == lk.state = "FEC_SEND" => air # Silence

\* What a DataACK will remove from the queue is what was sent: while a data
\* frame is outstanding, its payload is the head of the queue and
\* outstanding_len is its length.
InFlightIsQueueHead ==
    lk.state = "ISS" =>
        /\ lk.outstanding \in 1..Len(lk.tx)
        /\ lk.out.k = "DATA" =>
               /\ lk.out.ft = lk.last_data_sent
               /\ lk.out.d = SubSeq(lk.tx, 1, lk.outstanding)
=============================================================================
