----------------------------- MODULE LinkProofs -----------------------------
(***************************************************************************)
(* Proofs about Link, for every ladder, queue capacity, set of commands    *)
(* and every sequence of frames: type correctness; the session invariant,  *)
(* from which the properties of the timers, of the host's view and of the  *)
(* broadcaster follow; and what a DataACK removes from the queue.          *)
(***************************************************************************)
EXTENDS Link, TLAPS

-----------------------------------------------------------------------------
(* Types *)

\* A frame built from its kind alone is a frame.
LEMMA FrameType ==
    ASSUME NEW k \in Kinds
    PROVE  Frame(k) \in Frames
BY DEF Frame, Frames

\* The first n units of a queue: a prefix of it, of at most n units, and
\* empty only if the queue or n is.
LEMMA HeadType ==
    ASSUME NEW S, NEW s \in Seq(S), NEW n \in Nat
    PROVE  /\ FirstUnits(s, n) \in Seq(S)
           /\ Len(FirstUnits(s, n)) <= Len(s)
           /\ Len(FirstUnits(s, n)) <= n
           /\ FirstUnits(s, n) = SubSeq(s, 1, Len(FirstUnits(s, n)))
           /\ s # <<>> /\ n > 0 => Len(FirstUnits(s, n)) > 0
BY DEF FirstUnits

\* The type of the next data frame (iss_send_next) is one of the ladder.
LEMMA NextTypeType ==
    ASSUME NEW l \in LinkStruct
    PROVE  NextType(l) \in DataTypes
<1>1. l.mode_ptr \in 0..(Modes - 1) /\ l.last_data_acked \in Int
  BY ModesAssumption DEF LinkStruct, DataTypes
<1>2. l.last_data_acked % 2 \in {0, 1}
  BY <1>1
<1> QED BY <1>1, <1>2, ModesAssumption DEF NextType, DataTypes

\* send_control keeps the struct well formed.
LEMMA ControlType ==
    ASSUME NEW l \in LinkStruct, NEW k \in ControlKinds
    PROVE  send_control(l, k) \in LinkStruct
BY FrameType DEF send_control, LinkStruct, Kinds

\* So do the three functions that arm a deadline.
LEMMA TimerTypes ==
    ASSUME NEW l \in LinkStruct
    PROVE  /\ arm_stall(l) \in LinkStruct
           /\ arm_idle(l) \in LinkStruct
           /\ \A k \in Kinds : arm_repeat(l, k) \in LinkStruct
BY ZenonT(60), FlagsAssumption DEF arm_stall, arm_idle, arm_repeat, LinkStruct

\* So does reset_to_disc.
LEMMA ResetType ==
    ASSUME NEW l \in LinkStruct
    PROVE  reset_to_disc(l) \in LinkStruct
BY DEF reset_to_disc, LinkStruct, States

\* So does tx_dequeue.
LEMMA DequeueType ==
    ASSUME NEW l \in LinkStruct, NEW n \in Nat
    PROVE  tx_dequeue(l, n) \in LinkStruct
<1>1. l.tx \in Seq(Data)
  BY DEF LinkStruct
<1>2. n < Len(l.tx) => SubSeq(l.tx, n + 1, Len(l.tx)) \in Seq(Data)
  BY <1>1
<1> DEFINE rest == IF n < Len(l.tx) THEN SubSeq(l.tx, n + 1, Len(l.tx))
                                    ELSE <<>>
<1>3. rest \in Seq(Data)
  BY <1>2
<1>4. tx_dequeue(l, n) = [l EXCEPT !.tx = rest]
  BY DEF tx_dequeue
<1> HIDE DEF rest
<1> QED BY <1>3, <1>4 DEF LinkStruct

\* So does iss_send_next, with or without data to send.
LEMMA SendNextType ==
    ASSUME NEW l \in LinkStruct
    PROVE  iss_send_next(l) \in LinkStruct
<1> DEFINE take == FirstUnits(l.tx, Cap[l.mode_ptr])
<1>1. take \in Seq(Data) /\ Len(take) \in Nat
  BY HeadType, CapAssumption, ModesAssumption DEF LinkStruct
<1>2. DataFrame(NextType(l), take) \in Frames
  BY <1>1, NextTypeType DEF DataFrame, Frames, Kinds
<1>3. CASE l.tx = <<>>
  BY ZenonT(60), <1>3, FrameType
     DEF iss_send_next, arm_repeat, send_control, LinkStruct, States, Kinds,
         ControlKinds
<1>4. CASE l.tx # <<>>
  <2> HIDE DEF take
  <2>1. [l EXCEPT !.last_data_sent = NextType(l), !.outstanding = Len(take),
                  !.state = "ISS", !.out = DataFrame(NextType(l), take)]
            \in LinkStruct
    BY <1>1, <1>2, NextTypeType DEF LinkStruct, States
  <2> QED BY <1>4, <2>1, TimerTypes DEF iss_send_next, take, Kinds
<1> QED BY <1>3, <1>4

\* So do the functions that change the roles or start a disconnect.
LEMMA RoleTypes ==
    ASSUME NEW l \in LinkStruct
    PROVE  /\ iss_begin_sending(l) \in LinkStruct
           /\ iss_yield_on_break(l) \in LinkStruct
           /\ send_break(l) \in LinkStruct
           /\ step_host_disconnect(l) \in LinkStruct
<1>1. iss_begin_sending(l) \in LinkStruct
  <2>1. 1 \in DataTypes /\ 0 \in 0..(Modes - 1)
    BY ModesAssumption DEF DataTypes
  <2> QED BY <2>1 DEF iss_begin_sending, LinkStruct
<1>2. iss_yield_on_break(l) \in LinkStruct
  BY FrameType DEF iss_yield_on_break, send_control, LinkStruct, States, Kinds,
                   ControlKinds
<1>3. send_break(l) \in LinkStruct
  BY ZenonT(60), FrameType DEF send_break, arm_repeat, send_control, LinkStruct, States,
                   Kinds, ControlKinds
<1>4. step_host_disconnect(l) \in LinkStruct
  <2>1. 1 \in 0..DiscTries
    BY DiscTriesAssumption
  <2> QED BY <2>1, FrameType
          DEF step_host_disconnect, arm_repeat, send_control, LinkStruct,
              Kinds, ControlKinds
<1> QED BY <1>1, <1>2, <1>3, <1>4

\* So does fec_send_next.
LEMMA FecType ==
    ASSUME NEW l \in LinkStruct
    PROVE  fec_send_next(l) \in LinkStruct
<1> DEFINE take == FirstUnits(l.tx, Cap[l.fec_frame_type \div 2])
<1>1. CASE l.tx = <<>> \/ l.fec_frame_type = NoType
  BY <1>1, ResetType DEF fec_send_next
<1>2. CASE ~(l.tx = <<>> \/ l.fec_frame_type = NoType)
  <2>1. l.fec_frame_type \in DataTypes
    BY <1>2 DEF LinkStruct
  <2>2. l.fec_frame_type \div 2 \in 0..(Modes - 1)
    BY <2>1, ModesAssumption DEF DataTypes
  <2>3. take \in Seq(Data) /\ Len(take) \in Nat
    BY <2>2, HeadType, CapAssumption DEF LinkStruct
  <2>4. DataFrame(l.fec_frame_type, take) \in Frames
    BY <2>1, <2>3 DEF DataFrame, Frames, Kinds
  <2> HIDE DEF take
  <2>5. tx_dequeue(l, Len(take)) \in LinkStruct
    BY <2>3, DequeueType
  <2>6. [tx_dequeue(l, Len(take)) EXCEPT
            !.fec_reps_sent = 0, !.repeat_type = "DATA",
            !.out = DataFrame(l.fec_frame_type, take)] \in LinkStruct
    <3>1. 0 \in 0..FecRepeats /\ "DATA" \in Kinds
      BY FecAssumption DEF Kinds
    <3> QED BY <2>4, <2>5, <3>1 DEF LinkStruct
  <2> QED BY <1>2, <2>6 DEF fec_send_next, take
<1> QED BY <1>1, <1>2

\* What the repeat timer puts on the air is a frame.
LEMMA ResentType ==
    ASSUME NEW l \in LinkStruct
    PROVE  Resent(l) \in Frames
BY FrameType DEF Resent, LinkStruct, Kinds

\* The single-field updates of the handlers keep the struct well formed.
LEMMA FieldTypes ==
    ASSUME NEW l \in LinkStruct
    PROVE  /\ [l EXCEPT !.final_id = TRUE] \in LinkStruct
           /\ [l EXCEPT !.last_data_to_host = NoType] \in LinkStruct
           /\ \A m \in 0..(Modes - 1) : [l EXCEPT !.mode_ptr = m] \in LinkStruct
           /\ \A ft \in DataTypes \cup {NoType} :
                  [l EXCEPT !.last_data_to_host = ft, !.last_acked_type = ft,
                            !.state = "IRS_DATA"] \in LinkStruct
           /\ [l EXCEPT !.state = "IRS_DATA"] \in LinkStruct
BY ZenonT(60) DEF LinkStruct, States

\* So does the prologue of ardop_link_step.
LEMMA HeardType ==
    ASSUME lk \in LinkStruct
    PROVE  Heard \in LinkStruct
BY TimerTypes DEF Heard

\* Whatever the channel may bring is a frame.
LEMMA ChannelType == Channel \subseteq Frames
<1>1. \A k \in Kinds : Frame(k) \in Frames
  BY FrameType
<1>2. ASSUME NEW ft \in DataTypes, NEW d \in Payloads
      PROVE  DataFrame(ft, d) \in Frames
  <2>1. PICK m \in DOMAIN Cap : d \in [1..Cap[m] -> Data]
    BY DEF Payloads
  <2>2. Cap[m] \in Nat
    BY <2>1, CapAssumption
  <2>3. d \in Seq(Data)
    BY <2>1, <2>2
  <2> QED BY <2>3 DEF DataFrame, Frames, Kinds
<1> QED BY <1>1, <1>2 DEF Channel

\* A step that replaces the struct, sending out_frame or not.
LEMMA SendTypes ==
    ASSUME NEW l \in LinkStruct, Send(l) \/ (air \in Frames /\ Keep(l))
    PROVE  lk' \in LinkStruct /\ air' \in Frames
BY DEF Send, Keep, LinkStruct

Statuses == {"NONE", "CONNECTED", "DISCONNECTED", "REJECTED", "ABORT"}

\* A step that notifies the host, delivers payload to it, or neither.
LEMMA HostTypes ==
    ASSUME TypeOK,
           \/ Quiet
           \/ \E m \in Statuses : Notify(m)
           \/ \E d \in Seq(Data) : Deliver(d)
    PROVE  told' \in Statuses /\ rx' \in Seq(Data)
<1>1. told \in Statuses
  BY DEF TypeOK, Statuses
<1>2. CASE Quiet
  BY <1>1, <1>2 DEF Quiet
<1>3. CASE \E m \in Statuses : Notify(m)
  BY <1>3 DEF Notify
<1>4. CASE \E d \in Seq(Data) : Deliver(d)
  BY <1>1, <1>4 DEF Deliver
<1> QED BY <1>2, <1>3, <1>4

\* TypeOK but for the type of fresh.
Typed == /\ lk \in LinkStruct /\ air \in Frames
         /\ told \in Statuses /\ rx \in Seq(Data)

\* Every handler of a decoded frame preserves the types.
LEMMA RxTypes ==
    ASSUME TypeOK, NEW f \in Frames, Rx(f)
    PROVE  Typed'
<1> USE DEF Statuses
<1>0. /\ lk \in LinkStruct /\ Heard \in LinkStruct /\ air \in Frames
      /\ f.ft \in DataTypes \cup {NoType} /\ f.d \in Seq(Data)
  BY HeardType DEF TypeOK, Frames
<1>1. CASE RxLateDisc(f)
  <2>1. [send_control(lk, "END") EXCEPT !.final_id = TRUE] \in LinkStruct
    BY <1>0, ControlType, FieldTypes DEF ControlKinds
  <2> QED BY <1>1, <2>1, SendTypes, HostTypes DEF RxLateDisc, Typed
<1>2. CASE RxConreqReject(f)
  BY <1>0, <1>2, ControlType, SendTypes, HostTypes
     DEF RxConreqReject, Typed, ControlKinds
<1>3. CASE RxConreqAccept(f)
  <2>1. [lk EXCEPT !.pending = TRUE, !.state = "IRS_CON_ACK",
                   !.pending_deadline = TRUE, !.out = Frame("CONACK")]
            \in LinkStruct
    BY <1>0, FrameType DEF Kinds, States, LinkStruct
  <2> QED BY <1>3, <2>1, SendTypes, HostTypes DEF RxConreqAccept, Typed
<1>4. CASE RxPing(f)
  <2>1. [lk EXCEPT !.final_id = TRUE, !.out = Frame("PINGACK")] \in LinkStruct
    BY <1>0, FrameType DEF Kinds, LinkStruct
  <2> QED BY <1>4, <2>1, SendTypes, HostTypes DEF RxPing, Typed
<1>5. CASE RxConackAtCaller(f)
  <2>1. [Heard EXCEPT !.pending = FALSE, !.state = "ISS_CON_ACK",
                      !.out = Frame("CONACK")] \in LinkStruct
    <3> DEFINE h == Heard
    <3>1. h \in LinkStruct
      BY <1>0
    <3> HIDE DEF h
    <3>2. [h EXCEPT !.pending = FALSE, !.state = "ISS_CON_ACK",
                    !.out = Frame("CONACK")] \in LinkStruct
      BY <3>1, FrameType DEF Kinds, States, LinkStruct
    <3> QED BY <3>2 DEF h
  <2> QED BY <1>5, <2>1, TimerTypes, SendTypes, HostTypes
          DEF RxConackAtCaller, Typed, Kinds
<1>6. CASE RxConrej(f)
  BY <1>0, <1>6, ResetType, SendTypes, HostTypes DEF RxConrej, Typed
<1>7. CASE RxConackAtTarget(f)
  <2>1. [lk EXCEPT !.pending = FALSE, !.pending_deadline = FALSE,
                   !.state = "IRS_DATA"] \in LinkStruct
    BY <1>0 DEF States, LinkStruct
  <2> QED BY <1>7, <2>1, TimerTypes, ControlType, SendTypes, HostTypes
          DEF RxConackAtTarget, Typed, ControlKinds
<1>8. CASE RxHandshakeAck(f)
  <2>1. [lk EXCEPT !.pending = FALSE] \in LinkStruct
    BY <1>0 DEF LinkStruct
  <2> QED BY <1>8, <2>1, TimerTypes, RoleTypes, SendNextType, SendTypes,
             HostTypes
          DEF RxHandshakeAck, Typed
<1>9. CASE RxDisc(f)
  <2>1. [send_control(Heard, "END") EXCEPT !.final_id = TRUE] \in LinkStruct
    BY <1>0, ControlType, FieldTypes DEF ControlKinds
  <2> QED BY <1>9, <2>1, ResetType, SendTypes, HostTypes DEF RxDisc, Typed
<1>10. CASE RxEnd(f)
  BY <1>0, <1>10, ResetType, SendTypes, HostTypes DEF RxEnd, Typed
<1>11. CASE RxBreak(f)
  BY <1>0, <1>11, RoleTypes, SendTypes, HostTypes DEF RxBreak, Typed
<1>12. CASE RxDataAck(f)
  <2> DEFINE l == [tx_dequeue(Heard, Heard.outstanding) EXCEPT
                      !.last_data_acked = lk.last_data_sent, !.outstanding = 0]
  <2>1. Heard.outstanding \in Nat /\ lk.last_data_sent \in DataTypes
    BY <1>0 DEF LinkStruct
  <2>2. tx_dequeue(Heard, Heard.outstanding) \in LinkStruct
    BY <1>0, <2>1, DequeueType
  <2>3. l \in LinkStruct
    BY <2>1, <2>2 DEF LinkStruct
  <2> HIDE DEF l
  <2>4. PICK m \in 0..(Modes - 1) :
            Send(iss_send_next([arm_idle(l) EXCEPT !.mode_ptr = m])) /\ Quiet
    BY <1>12 DEF RxDataAck, gearshift, l
  <2>5. [arm_idle(l) EXCEPT !.mode_ptr = m] \in LinkStruct
    BY <2>3, TimerTypes, FieldTypes
  <2> QED BY <2>4, <2>5, SendNextType, SendTypes, HostTypes DEF Typed
<1>13. CASE RxDataNak(f)
  <2>1. PICK m \in 0..(Modes - 1) :
            \/ Keep(Heard)
            \/ Send(iss_send_next([Heard EXCEPT !.mode_ptr = m]))
    BY <1>13 DEF RxDataNak, gearshift
  <2>2. [Heard EXCEPT !.mode_ptr = m] \in LinkStruct
    BY <1>0 DEF LinkStruct
  <2> QED BY <1>0, <1>13, <2>1, <2>2, SendNextType, SendTypes, HostTypes
          DEF RxDataNak, Typed
<1>14. CASE RxIdleAck(f)
  BY <1>0, <1>14, SendNextType, SendTypes, HostTypes DEF RxIdleAck, Typed
<1>15. CASE RxIdle(f)
  BY <1>0, <1>15, RoleTypes, ControlType, SendTypes, HostTypes
     DEF RxIdle, Typed, ControlKinds
<1>16. CASE RxData(f)
  <2>1. arm_idle(Heard) \in LinkStruct
    BY <1>0, TimerTypes
  <2>2. [send_control(arm_idle(Heard), "ACK") EXCEPT
            !.last_data_to_host = f.ft, !.last_acked_type = f.ft,
            !.state = "IRS_DATA"] \in LinkStruct
    BY <1>0, <2>1, ControlType, FieldTypes DEF ControlKinds
  <2>3. lk' \in LinkStruct /\ air' \in Frames
    BY <1>16, <2>1, <2>2, RoleTypes, SendTypes DEF RxData
  <2>4. Quiet \/ Deliver(f.d)
    BY <1>16 DEF RxData
  <2> QED BY <1>0, <2>3, <2>4, HostTypes DEF Typed
<1>17. CASE RxBreakAck(f)
  <2>1. [iss_begin_sending(Heard) EXCEPT !.last_data_to_host = NoType]
            \in LinkStruct
    BY <1>0, RoleTypes, FieldTypes
  <2> QED BY <1>17, <2>1, SendNextType, SendTypes, HostTypes
          DEF RxBreakAck, Typed
<1>18. CASE RxFec(f)
  <2>1. [lk EXCEPT !.last_data_to_host = f.ft, !.last_fec = f.d,
                   !.fec_have_last = TRUE] \in LinkStruct
    BY <1>0 DEF LinkStruct
  <2> QED BY <1>0, <1>18, <2>1, SendTypes, HostTypes DEF RxFec, Typed
<1>19. CASE RxRxo(f)
  BY <1>0, <1>19, SendTypes, HostTypes DEF RxRxo, Typed
<1>20. CASE RxIgnored(f)
  BY <1>0, <1>20, SendTypes, HostTypes DEF RxIgnored, Typed
<1> QED BY <1>1, <1>2, <1>3, <1>4, <1>5, <1>6, <1>7, <1>8, <1>9, <1>10, <1>11,
           <1>12, <1>13, <1>14, <1>15, <1>16, <1>17, <1>18, <1>19, <1>20
        DEF Rx

\* So does the handler of a failed decode.
LEMMA RxBadTypes ==
    ASSUME TypeOK, NEW f \in Frames, RxBad(f)
    PROVE  Typed'
<1>1. lk \in LinkStruct /\ air \in Frames
  BY DEF TypeOK
<1>2. send_control(lk, "ACK") \in LinkStruct /\ send_control(lk, "NAK") \in LinkStruct
  BY <1>1, ControlType DEF ControlKinds
<1>3. [send_control(lk, "NAK") EXCEPT !.state = "IRS_DATA"] \in LinkStruct
  BY <1>2, FieldTypes
<1> QED BY <1>2, <1>3, SendTypes, HostTypes
        DEF RxBad, RxBadData, Typed, Statuses

\* So does every branch of step_timer.
LEMMA TimerStepTypes ==
    ASSUME TypeOK, Timer
    PROVE  Typed'
<1> USE DEF Statuses
<1>0. lk \in LinkStruct /\ air \in Frames
  BY DEF TypeOK
<1>1. CASE PendingTimeout
  BY <1>0, <1>1, ResetType, SendTypes, HostTypes DEF PendingTimeout, Typed
<1>2. CASE StallTimeout
  BY <1>0, <1>2, ResetType, SendTypes, HostTypes DEF StallTimeout, Typed
<1>3. CASE IdleTimeout
  <2> DEFINE l == [lk EXCEPT !.idle = FALSE]
  <2>1. l \in LinkStruct
    BY <1>0 DEF LinkStruct
  <2> HIDE DEF l
  <2>2. Quiet /\ (Keep(l) \/ Send(step_host_disconnect(l)))
    BY <1>3 DEF IdleTimeout, l
  <2> QED BY <1>0, <2>1, <2>2, RoleTypes, SendTypes, HostTypes DEF Typed
<1>4. CASE FinalId
  <2>1. [lk EXCEPT !.final_id = FALSE, !.out = Frame("ID")] \in LinkStruct
    BY <1>0, FrameType DEF LinkStruct, Kinds, CallKinds
  <2> QED BY <1>4, <2>1, SendTypes, HostTypes DEF FinalId, Typed
<1>5. CASE Repeat
  <2> DEFINE n == IF Disconnecting(lk) THEN lk.disc_repeat_count + 1
                                       ELSE lk.disc_repeat_count
  <2>1. n \in 0..DiscTries
    BY <1>0, <1>5, DiscTriesAssumption DEF Repeat, LinkStruct
  <2>2. lk' = [lk EXCEPT !.disc_repeat_count = n] /\ air' = Resent(lk) /\ Quiet
    BY <1>5 DEF Repeat
  <2> HIDE DEF n
  <2>3. lk' \in LinkStruct /\ air' \in Frames
    BY <1>0, <2>1, <2>2, ResentType DEF LinkStruct
  <2> QED BY <2>2, <2>3, HostTypes DEF Typed
<1>6. CASE RepeatGivesUp
  <2>1. 0 \in 0..DiscTries
    BY DiscTriesAssumption
  <2>2. [lk EXCEPT !.disc_repeat_count = 0] \in LinkStruct
    BY <1>0, <2>1 DEF LinkStruct
  <2> QED BY <1>0, <1>6, <2>2, ResetType, SendTypes, HostTypes
          DEF RepeatGivesUp, Typed
<1> QED BY <1>1, <1>2, <1>3, <1>4, <1>5, <1>6 DEF Timer

\* So does the end of a transmission.
LEMMA TxDoneTypes ==
    ASSUME TypeOK, TxDone \/ FecTxDone
    PROVE  Typed'
<1> USE DEF Statuses
<1>0. lk \in LinkStruct /\ air \in Frames /\ Silence \in Frames
  BY FrameType DEF TypeOK, Silence, Kinds
<1>1. CASE TxDone
  BY <1>0, <1>1, HostTypes DEF TxDone, Typed
<1>2. CASE FecTxDone /\ lk.fec_reps_sent < FecRepeats
  <2>1. lk.fec_reps_sent + 1 \in 0..FecRepeats
    BY <1>0, <1>2, FecAssumption DEF LinkStruct
  <2>2. [lk EXCEPT !.fec_reps_sent = lk.fec_reps_sent + 1] \in LinkStruct
    BY <1>0, <2>1 DEF LinkStruct
  <2> QED BY <1>0, <1>2, <2>2, ResentType, HostTypes DEF FecTxDone, Typed
<1>3. CASE FecTxDone /\ ~(lk.fec_reps_sent < FecRepeats)
  <2> DEFINE l == fec_send_next(lk)
  <2>1. l \in LinkStruct /\ l.out \in Frames
    BY <1>0, FecType DEF LinkStruct
  <2>2. lk' = l /\ (air' = Silence \/ air' = l.out) /\ Quiet
    BY <1>3 DEF FecTxDone
  <2> HIDE DEF l
  <2> QED BY <1>0, <2>1, <2>2, HostTypes DEF Typed
<1> QED BY <1>1, <1>2, <1>3

\* So does every host command.
LEMMA HostStepTypes ==
    ASSUME TypeOK, Host
    PROVE  Typed'
<1> USE DEF Statuses
<1>0. lk \in LinkStruct /\ air \in Frames
  BY DEF TypeOK
<1>1. CASE HostConnect
  <2>1. [lk EXCEPT !.pending = TRUE, !.state = "ISS_CON_REQ",
                   !.out = Frame("CONREQ")] \in LinkStruct
    BY <1>0, FrameType DEF LinkStruct, States, Kinds, CallKinds
  <2> QED BY <1>1, <2>1, TimerTypes, SendTypes, HostTypes
          DEF HostConnect, Typed, Kinds, CallKinds
<1>2. CASE HostDisconnect
  BY <1>0, <1>2, RoleTypes, SendTypes, HostTypes DEF HostDisconnect, Typed
<1>3. CASE HostAbort
  <2>1. 0 \in 0..DiscTries /\ <<>> \in Seq(Data)
    BY DiscTriesAssumption
  <2>2. [lk EXCEPT !.tx = <<>>, !.disc_repeat_count = 0] \in LinkStruct
    BY <1>0, <2>1 DEF LinkStruct
  <2> QED BY <1>0, <1>3, <2>2, ResetType, SendTypes, HostTypes
          DEF HostAbort, Typed
<1>4. CASE HostBreak
  <2>1. [lk EXCEPT !.break_pending = TRUE] \in LinkStruct
    BY <1>0 DEF LinkStruct
  <2> QED BY <1>0, <1>4, <2>1, SendTypes, HostTypes DEF HostBreak, Typed
<1>5. CASE HostSendId
  <2>1. [lk EXCEPT !.out = Frame("ID")] \in LinkStruct
    BY <1>0, FrameType DEF LinkStruct, Kinds, CallKinds
  <2> QED BY <1>5, <2>1, SendTypes, HostTypes DEF HostSendId, Typed
<1>6. CASE HostPurge
  <2>1. <<>> \in Seq(Data)
    OBVIOUS
  <2>2. [lk EXCEPT !.tx = <<>>] \in LinkStruct
    BY <1>0, <2>1 DEF LinkStruct
  <2> QED BY <1>0, <1>6, <2>2, SendTypes, HostTypes DEF HostPurge, Typed
<1>7. ASSUME NEW d \in Data, HostSendData(<<d>>)
      PROVE  Typed'
  <2>1. FirstUnits(lk.tx \o <<d>>, TxCap) \in Seq(Data)
    <3>1. lk.tx \in Seq(Data)
      BY <1>0 DEF LinkStruct
    <3>2. lk.tx \o <<d>> \in Seq(Data)
      BY <3>1
    <3> QED BY <3>2, HeadType, TxCapAssumption
  <2>2. [lk EXCEPT !.tx = FirstUnits(lk.tx \o <<d>>, TxCap)] \in LinkStruct
    BY <1>0, <2>1 DEF LinkStruct
  <2> QED BY <1>0, <1>7, <2>2, TimerTypes, SendTypes, HostTypes
          DEF HostSendData, Typed
<1>8. ASSUME NEW m \in {"ARQ", "FEC", "RXO"}, HostSetMode(m)
      PROVE  Typed'
  <2>1. [lk EXCEPT !.mode = m] \in LinkStruct
    BY <1>0 DEF LinkStruct
  <2> QED BY <1>0, <1>8, <2>1, SendTypes, HostTypes DEF HostSetMode, Typed
<1>9. ASSUME NEW ft \in FecTypes, HostFecSend(ft)
      PROVE  Typed'
  <2> DEFINE l == [lk EXCEPT !.fec_frame_type = ft, !.mode = "FEC"]
             b == fec_send_next([l EXCEPT !.state = "FEC_SEND"])
  <2>1. ft \in DataTypes \cup {NoType}
    BY FecAssumption
  <2>2. l \in LinkStruct
    BY <1>0, <2>1 DEF LinkStruct
  <2>3. [l EXCEPT !.state = "FEC_SEND"] \in LinkStruct
    <3> HIDE DEF l
    <3> QED BY <2>2 DEF LinkStruct, States
  <2>4. b \in LinkStruct
    BY <2>3, FecType
  <2>5. Quiet /\ (Keep(l) \/ Keep(b) \/ Send(b))
    BY <1>9 DEF HostFecSend
  <2> HIDE DEF l, b
  <2> QED BY <1>0, <2>2, <2>4, <2>5, SendTypes, HostTypes DEF Typed
<1> QED BY <1>1, <1>2, <1>3, <1>4, <1>5, <1>6, <1>7, <1>8, <1>9 DEF Host

\* A transmission is fresh or it is not, after every step.
LEMMA FreshType ==
    ASSUME Next
    PROVE  fresh' \in BOOLEAN
<1>1. CASE \E f \in Channel : Rx(f) \/ RxBad(f)
  BY <1>1 DEF Rx, RxBad
<1>2. CASE Timer \/ TxDone \/ FecTxDone
  BY <1>2
  DEF Timer, PendingTimeout, StallTimeout, IdleTimeout, FinalId, Repeat,
      RepeatGivesUp, TxDone, FecTxDone, Served
<1>3. CASE Host
  BY <1>3 DEF Host, HostConnect, HostDisconnect, HostAbort, HostBreak,
              HostSendId, HostPurge, HostSendData, HostSetMode, HostFecSend,
              Served
<1> QED BY <1>1, <1>2, <1>3 DEF Next

\* ardop_link_init leaves a well-formed struct.
LEMMA InitTypes == Init => TypeOK
<1>1. ardop_link_init \in LinkStruct
  <2>1. /\ 0 \in 0..(Modes - 1) /\ 0 \in DataTypes /\ 0 \in 0..FecRepeats
        /\ 0 \in 0..DiscTries
    BY ModesAssumption, FecAssumption, DiscTriesAssumption DEF DataTypes
  <2>2. Silence \in Frames /\ "SILENCE" \in Kinds
    BY FrameType DEF Silence, Kinds
  <2> HIDE DEF Silence
  <2> QED BY <2>1, <2>2 DEF ardop_link_init, LinkStruct, States
<1>2. Silence \in Frames
  BY FrameType DEF Silence, Kinds
<1>3. ASSUME Init PROVE fresh \in BOOLEAN
  BY <1>3 DEF Init
<1>4. ASSUME Init
      PROVE  /\ lk \in LinkStruct /\ air \in Frames
             /\ told \in {"NONE", "CONNECTED", "DISCONNECTED", "REJECTED",
                          "ABORT"}
             /\ rx \in Seq(Data)
  BY <1>1, <1>2, <1>4 DEF Init
<1> QED BY <1>3, <1>4 DEF TypeOK

\* Type correctness is inductive by itself.
LEMMA StepTypes == TypeOK /\ [Next]_vars => TypeOK'
<1> SUFFICES ASSUME TypeOK, [Next]_vars PROVE TypeOK'
  OBVIOUS
<1>1. CASE Next
  <2>1. Typed'
    <3>1. CASE \E f \in Channel : Rx(f) \/ RxBad(f)
      BY <3>1, ChannelType, RxTypes, RxBadTypes
    <3>2. CASE Timer
      BY <3>2, TimerStepTypes
    <3>3. CASE TxDone \/ FecTxDone
      BY <3>3, TxDoneTypes
    <3>4. CASE Host
      BY <3>4, HostStepTypes
    <3> QED BY <1>1, <3>1, <3>2, <3>3, <3>4 DEF Next
  <2> QED BY <1>1, <2>1, FreshType DEF Typed, TypeOK, Statuses
<1>2. CASE UNCHANGED vars
  BY <1>2 DEF vars, TypeOK
<1> QED BY <1>1, <1>2

\* The link machine never leaves its types: in particular the ladder index
\* stays in the ladder, the count of DISCs (step_timer) never exceeds DiscTries
\* and the count of FEC repeats (step_fec_tx_done) never exceeds FecRepeats.
THEOREM TypeCorrect == Spec => []TypeOK
BY InitTypes, StepTypes, PTL DEF Spec

-----------------------------------------------------------------------------
(* The session invariant.  None of the properties it proves is inductive    *)
(* alone: that a called station starts without a repeat timer needs         *)
(* DiscIsQuiet, that a broadcaster still transmits after a repeat needs to  *)
(* know that out_frame holds a frame.                                       *)

Receiving == {"IRS_CON_ACK", "IRS_DATA", "IRS_FROM_ISS"}
Sending == {"ISS_CON_REQ", "ISS_CON_ACK", "ISS", "IDLE", "IRS_TO_ISS"}

\* What holds of the struct between any two steps.
Sound(l) ==
    /\ l.state = "DISC" => /\ ~l.repeat /\ ~l.pending
                           /\ ~l.pending_deadline /\ ~l.stall
    /\ l.state \in Receiving /\ l.repeat => l.repeat_type = "DISC"
    /\ l.state \in Sending => l.repeat
    /\ l.state = "IRS_CON_ACK" => l.pending_deadline
    /\ l.state \in ConnectedStates \cup {"ISS_CON_ACK"} => l.stall
    /\ l.state = "FEC_SEND" => l.out.k # "SILENCE"

SessionInv ==
    /\ TypeOK
    /\ Sound(lk)
    /\ HostKnowsSession
    /\ BroadcasterTransmits
    /\ fresh => lk.state # "FEC_SEND"

\* reset_to_disc establishes the invariant from any struct.
LEMMA SoundReset ==
    ASSUME NEW l \in LinkStruct
    PROVE  Sound(reset_to_disc(l)) /\ reset_to_disc(l).state = "DISC"
BY DEF Sound, reset_to_disc, LinkStruct, Receiving, Sending, ConnectedStates

\* iss_send_next establishes it in a session whose silence deadline is armed.
LEMMA SoundSendNext ==
    ASSUME NEW l \in LinkStruct, l.stall
    PROVE  Sound(iss_send_next(l)) /\ iss_send_next(l).state \in {"ISS", "IDLE"}
BY DEF Sound, iss_send_next, arm_repeat, send_control, LinkStruct, Receiving,
       Sending, ConnectedStates

\* So do both sides of a turnover, iss_yield_on_break and send_break.
LEMMA SoundTurnover ==
    ASSUME NEW l \in LinkStruct, l.stall
    PROVE  /\ Sound(iss_yield_on_break(l))
           /\ iss_yield_on_break(l).state = "IRS_FROM_ISS"
           /\ Sound(send_break(l)) /\ send_break(l).state = "IRS_TO_ISS"
BY DEF Sound, iss_yield_on_break, send_break, arm_repeat, send_control,
       LinkStruct, Receiving, Sending, ConnectedStates

\* step_host_disconnect keeps it, in whatever state the session is.
LEMMA SoundDisconnect ==
    ASSUME NEW l \in LinkStruct, Sound(l), l.state # "DISC"
    PROVE  /\ Sound(step_host_disconnect(l))
           /\ step_host_disconnect(l).state = l.state
           /\ step_host_disconnect(l).out # Silence
BY DEF Sound, step_host_disconnect, arm_repeat, send_control, Frame, Silence,
       LinkStruct, Receiving, Sending, ConnectedStates

\* A reply keeps it.
LEMMA SoundControl ==
    ASSUME NEW l \in LinkStruct, Sound(l), NEW k \in ControlKinds
    PROVE  Sound(send_control(l, k)) /\ send_control(l, k).state = l.state
BY DEF Sound, send_control, Frame, ControlKinds, LinkStruct

\* Settling into IRS_DATA on a frame (step_irs_data_rx) keeps it.
LEMMA SoundSettle ==
    ASSUME NEW l \in LinkStruct, Sound(l), l.state \in {"IRS_DATA", "IRS_FROM_ISS"}
    PROVE  /\ Sound([l EXCEPT !.state = "IRS_DATA"])
           /\ \A ft : Sound([l EXCEPT !.last_data_to_host = ft,
                                      !.last_acked_type = ft,
                                      !.state = "IRS_DATA"])
BY DEF Sound, LinkStruct, Receiving, Sending, ConnectedStates

\* Arming the idle deadline keeps it, arming the silence deadline too outside
\* DISC.
LEMMA SoundArmed ==
    ASSUME NEW l \in LinkStruct
    PROVE  /\ arm_idle(l).state = l.state /\ arm_idle(l).stall = l.stall
           /\ Sound(l) => Sound(arm_idle(l))
           /\ arm_stall(l).state = l.state /\ arm_stall(l).stall
           /\ l.state # "DISC" /\ Sound(l) => Sound(arm_stall(l))
BY DEF Sound, arm_idle, arm_stall, LinkStruct

\* Hearing a frame keeps it and, in a session, arms the silence deadline.
LEMMA SoundHeard ==
    ASSUME lk \in LinkStruct, Sound(lk)
    PROVE  /\ Sound(Heard) /\ Heard.state = lk.state
           /\ lk.mode = "ARQ" /\ lk.state # "DISC" => Heard.stall
BY SoundArmed DEF Heard

\* Every handler of a decoded frame preserves the session invariant.
LEMMA RxKeepsSession ==
    ASSUME SessionInv, TypeOK', NEW f \in Frames, Rx(f)
    PROVE  SessionInv'
<1> USE DEF InArq
<1>0. /\ lk \in LinkStruct /\ Heard \in LinkStruct
      /\ Sound(lk) /\ Sound(Heard) /\ Heard.state = lk.state
      /\ lk.mode = "ARQ" /\ lk.state # "DISC" => Heard.stall
      /\ told = "CONNECTED" <=> lk.state \in ConnectedStates
      /\ lk.state # "FEC_SEND"
  BY HeardType, SoundHeard
  DEF SessionInv, TypeOK, Rx, Serving, HostKnowsSession, BroadcasterTransmits
<1> SUFFICES /\ Sound(lk)' /\ lk'.state # "FEC_SEND"
             /\ told' = "CONNECTED" <=> lk'.state \in ConnectedStates
  BY DEF SessionInv, HostKnowsSession, BroadcasterTransmits
<1>1. CASE RxLateDisc(f)
  BY <1>0, <1>1
  DEF RxLateDisc, Send, Quiet, send_control, LinkStruct, Sound,
      ConnectedStates
<1>2. CASE RxConreqReject(f)
  BY <1>0, <1>2, SoundControl DEF RxConreqReject, Send, Quiet, ControlKinds
<1>3. CASE RxConreqAccept(f)
  BY <1>0, <1>3 DEF RxConreqAccept, Send, Quiet, LinkStruct, Sound,
    Receiving, Sending, ConnectedStates
<1>4. CASE RxPing(f)
  BY <1>0, <1>4 DEF RxPing, Send, Quiet, LinkStruct, Sound, ConnectedStates
<1>5. CASE RxConackAtCaller(f)
  <2>1. Heard.stall
    BY <1>0, <1>5 DEF RxConackAtCaller
  <2> QED BY <1>0, <1>5, <2>1
          DEF RxConackAtCaller, Send, Quiet, LinkStruct, arm_repeat, Sound,
              Receiving, Sending, ConnectedStates
<1>6. CASE RxConrej(f)
  BY <1>0, <1>6, SoundReset DEF RxConrej, Keep, Notify, ConnectedStates
<1>7. CASE RxConackAtTarget(f)
  BY <1>0, <1>7
  DEF RxConackAtTarget, Send, Notify, LinkStruct, arm_stall, arm_idle,
      send_control, Sound, Receiving, Sending, ConnectedStates
<1>8. CASE RxHandshakeAck(f)
  <2> DEFINE l == iss_begin_sending([lk EXCEPT !.pending = FALSE])
  <2>7. [lk EXCEPT !.pending = FALSE] \in LinkStruct
    BY <1>0 DEF LinkStruct
  <2>1. l \in LinkStruct
    BY <2>7, RoleTypes
  <2> HIDE DEF l
  <2>2. arm_idle(arm_stall(l)) \in LinkStruct /\ arm_idle(arm_stall(l)).stall
    BY <2>1, TimerTypes, SoundArmed
  <2> QED BY <1>8, <2>2, SoundSendNext
          DEF RxHandshakeAck, Send, Notify, ConnectedStates, l
<1>9. CASE RxDisc(f)
  <2>1. [send_control(Heard, "END") EXCEPT !.final_id = TRUE] \in LinkStruct
    BY <1>0, ControlType, FieldTypes DEF ControlKinds
  <2> QED BY <1>9, <2>1, SoundReset DEF RxDisc, Send, Notify, ConnectedStates
<1>10. CASE RxEnd(f)
  BY <1>0, <1>10, SoundReset DEF RxEnd, Keep, Notify, ConnectedStates
<1>11. CASE RxBreak(f)
  BY <1>0, <1>11, SoundTurnover DEF RxBreak, Send, Quiet, ConnectedStates
<1>12. CASE RxDataAck(f)
  <2> DEFINE l == [tx_dequeue(Heard, Heard.outstanding) EXCEPT
                      !.last_data_acked = lk.last_data_sent, !.outstanding = 0]
  <2>1. Heard.outstanding \in Nat /\ lk.last_data_sent \in DataTypes
    BY <1>0 DEF LinkStruct
  <2>2. tx_dequeue(Heard, Heard.outstanding) \in LinkStruct
    BY <1>0, <2>1, DequeueType
  <2>3. l \in LinkStruct
    BY <2>1, <2>2 DEF LinkStruct
  <2>7. tx_dequeue(Heard, Heard.outstanding).stall
    BY <1>0, <1>12 DEF RxDataAck, tx_dequeue, LinkStruct
  <2>8. l.stall
    BY <2>2, <2>7 DEF LinkStruct
  <2> HIDE DEF l
  <2>4. PICK m \in 0..(Modes - 1) :
            Send(iss_send_next([arm_idle(l) EXCEPT !.mode_ptr = m])) /\ Quiet
    BY <1>12 DEF RxDataAck, gearshift, l
  <2>5. [arm_idle(l) EXCEPT !.mode_ptr = m] \in LinkStruct
    BY <2>3, TimerTypes, FieldTypes
  <2>6. [arm_idle(l) EXCEPT !.mode_ptr = m].stall
    BY <2>3, <2>8 DEF arm_idle, LinkStruct
  <2> QED BY <1>0, <1>12, <2>4, <2>5, <2>6, SoundSendNext
          DEF RxDataAck, Send, Quiet, ConnectedStates
<1>13. CASE RxDataNak(f)
  <2>1. PICK m \in 0..(Modes - 1) :
            \/ Keep(Heard)
            \/ Send(iss_send_next([Heard EXCEPT !.mode_ptr = m]))
    BY <1>13 DEF RxDataNak, gearshift
  <2>2. [Heard EXCEPT !.mode_ptr = m] \in LinkStruct
    BY <1>0, FieldTypes
  <2>3. [Heard EXCEPT !.mode_ptr = m].stall
    BY <1>0, <1>13 DEF RxDataNak, LinkStruct
  <2> QED BY <1>0, <1>13, <2>1, <2>2, <2>3, SoundSendNext
          DEF RxDataNak, Send, Keep, Quiet, ConnectedStates
<1>14. CASE RxIdleAck(f)
  BY <1>0, <1>14, SoundSendNext DEF RxIdleAck, Send, Quiet, ConnectedStates
<1>15. CASE RxIdle(f)
  BY <1>0, <1>15, SoundTurnover, SoundControl
     DEF RxIdle, Send, Quiet, ControlKinds, ConnectedStates
<1>16. CASE RxData(f)
  <2> DEFINE h == arm_idle(Heard)
  <2>1. h \in LinkStruct /\ Sound(h) /\ h.stall /\ h.state = lk.state
    BY <1>0, <1>16, TimerTypes, SoundArmed DEF RxData
  <2> HIDE DEF h
  <2>2. send_control(h, "ACK") \in LinkStruct /\ Sound(send_control(h, "ACK"))
        /\ send_control(h, "ACK").state = lk.state
    BY <2>1, ControlType, SoundControl DEF ControlKinds
  <2>3. Sound([send_control(h, "ACK") EXCEPT !.last_data_to_host = f.ft,
                   !.last_acked_type = f.ft, !.state = "IRS_DATA"])
    BY <2>2, <1>16, SoundSettle DEF RxData
  <2>4. [send_control(h, "ACK") EXCEPT !.last_data_to_host = f.ft,
                   !.last_acked_type = f.ft, !.state = "IRS_DATA"].state = "IRS_DATA"
    BY <2>2 DEF LinkStruct
  <2>5. told' = told
    BY <1>16 DEF RxData, Quiet, Deliver
  <2>6. \/ lk' = send_break(h)
        \/ lk' = [send_control(h, "ACK") EXCEPT !.last_data_to_host = f.ft,
                   !.last_acked_type = f.ft, !.state = "IRS_DATA"]
    BY <1>16 DEF RxData, Send, h
  <2> QED BY <1>0, <1>16, <2>1, <2>3, <2>4, <2>5, <2>6, SoundTurnover
          DEF RxData, ConnectedStates
<1>17. CASE RxBreakAck(f)
  <2> DEFINE l == [iss_begin_sending(Heard) EXCEPT !.last_data_to_host = NoType]
  <2>1. l \in LinkStruct
    BY <1>0, RoleTypes, FieldTypes
  <2>2. l.stall
    BY <1>0, <1>17 DEF RxBreakAck, iss_begin_sending, LinkStruct
  <2> HIDE DEF l
  <2> QED BY <1>0, <1>17, <2>1, <2>2, SoundSendNext
          DEF RxBreakAck, Send, Quiet, ConnectedStates, l
<1>18. CASE RxFec(f)
  BY <1>0, <1>18
  DEF RxFec, Keep, Deliver, LinkStruct, Sound, Receiving, Sending,
      ConnectedStates
<1>19. CASE RxRxo(f)
  BY <1>0, <1>19 DEF RxRxo, Keep, Deliver
<1>20. CASE RxIgnored(f)
  BY <1>0, <1>20 DEF RxIgnored, Keep, Quiet
<1> QED BY <1>1, <1>2, <1>3, <1>4, <1>5, <1>6, <1>7, <1>8, <1>9, <1>10, <1>11,
           <1>12, <1>13, <1>14, <1>15, <1>16, <1>17, <1>18, <1>19, <1>20
        DEF Rx

\* So does the handler of a failed decode.
LEMMA RxBadKeepsSession ==
    ASSUME SessionInv, TypeOK', NEW f \in Frames, RxBad(f)
    PROVE  SessionInv'
<1>1. /\ lk \in LinkStruct /\ Sound(lk)
      /\ lk.state \in {"IRS_DATA", "IRS_FROM_ISS"} /\ told = "CONNECTED"
  BY DEF SessionInv, TypeOK, HostKnowsSession, ConnectedStates, RxBad,
         RxBadData, InArq
<1> DEFINE ack == send_control(lk, "ACK")
           nak == send_control(lk, "NAK")
<1>2. /\ ack \in LinkStruct /\ Sound(ack) /\ ack.state = lk.state
      /\ nak \in LinkStruct /\ Sound(nak) /\ nak.state = lk.state
  BY <1>1, ControlType, SoundControl DEF ControlKinds
<1>3. (lk' = ack \/ lk' = [nak EXCEPT !.state = "IRS_DATA"]) /\ told' = told
  BY DEF RxBad, RxBadData, Send, Quiet
<1> HIDE DEF ack, nak
<1>4. /\ Sound([nak EXCEPT !.state = "IRS_DATA"])
      /\ [nak EXCEPT !.state = "IRS_DATA"].state = "IRS_DATA"
  BY <1>1, <1>2, SoundSettle DEF LinkStruct
<1> QED BY <1>1, <1>2, <1>3, <1>4
        DEF SessionInv, HostKnowsSession, BroadcasterTransmits, ConnectedStates

\* So does every branch of step_timer.
LEMMA TimerKeepsSession ==
    ASSUME SessionInv, TypeOK', Timer
    PROVE  SessionInv'
<1>0. /\ lk \in LinkStruct /\ Sound(lk) /\ lk.state # "FEC_SEND"
      /\ told = "CONNECTED" <=> lk.state \in ConnectedStates
  BY DEF SessionInv, TypeOK, HostKnowsSession, BroadcasterTransmits, Timer,
         Serving, PendingTimeout, StallTimeout, IdleTimeout, FinalId, Repeat,
         RepeatGivesUp
<1> SUFFICES /\ Sound(lk)' /\ lk'.state # "FEC_SEND"
             /\ told' = "CONNECTED" <=> lk'.state \in ConnectedStates
  BY DEF SessionInv, HostKnowsSession, BroadcasterTransmits
<1>1. CASE PendingTimeout
  BY <1>0, <1>1, SoundReset DEF PendingTimeout, Keep, Notify, ConnectedStates
<1>2. CASE StallTimeout
  BY <1>0, <1>2, SoundReset DEF StallTimeout, Keep, Notify, ConnectedStates
<1>3. CASE IdleTimeout
  <2> DEFINE l == [lk EXCEPT !.idle = FALSE]
  <2>1. l \in LinkStruct /\ Sound(l) /\ l.state = lk.state
    <3>1. l \in LinkStruct
      BY <1>0 DEF LinkStruct
    <3>2. Sound(l) /\ l.state = lk.state
      BY <1>0 DEF LinkStruct, Sound
    <3> QED BY <3>1, <3>2
  <2>2. /\ told' = told
        /\ lk' = IF l.state = "DISC" THEN l ELSE step_host_disconnect(l)
    BY <1>3 DEF IdleTimeout, Keep, Send, Quiet
  <2> HIDE DEF l
  <2> QED BY <1>0, <2>1, <2>2, SoundDisconnect
<1>4. CASE FinalId
  BY <1>0, <1>4 DEF FinalId, Send, Quiet, Sound, LinkStruct
<1>5. CASE Repeat
  BY <1>0, <1>5 DEF Repeat, Quiet, Sound, LinkStruct
<1>6. CASE RepeatGivesUp
  <2>1. 0 \in 0..DiscTries
    BY DiscTriesAssumption
  <2>2. [lk EXCEPT !.disc_repeat_count = 0] \in LinkStruct
    BY <1>0, <2>1 DEF LinkStruct
  <2> QED BY <1>6, <2>2, SoundReset
          DEF RepeatGivesUp, Keep, Notify, ConnectedStates
<1> QED BY <1>1, <1>2, <1>3, <1>4, <1>5, <1>6 DEF Timer

\* fec_send_next leaves a frame to send, or DISC.
LEMMA SoundBroadcast ==
    ASSUME NEW l \in LinkStruct, l.state = "FEC_SEND"
    PROVE  LET b == fec_send_next(l)
           IN  /\ Sound(b) /\ b.state \in {"FEC_SEND", "DISC"}
               /\ b.state = "FEC_SEND" => b.out # Silence
<1>1. CASE l.tx = <<>> \/ l.fec_frame_type = NoType
  BY <1>1, SoundReset DEF fec_send_next
<1>2. CASE ~(l.tx = <<>> \/ l.fec_frame_type = NoType)
  <2>1. PICK n, d : fec_send_next(l) =
            [tx_dequeue(l, n) EXCEPT !.fec_reps_sent = 0,
                                     !.repeat_type = "DATA",
                                     !.out = DataFrame(l.fec_frame_type, d)]
    BY <1>2 DEF fec_send_next
  <2>2. fec_send_next(l).state = "FEC_SEND" /\ fec_send_next(l).out.k = "DATA"
    BY <2>1 DEF tx_dequeue, LinkStruct, DataFrame
  <2>3. Silence.k = "SILENCE"
    BY DEF Silence, Frame
  <2> QED BY <2>2, <2>3 DEF Sound, Receiving, Sending, ConnectedStates
<1> QED BY <1>1, <1>2

\* The end of a transmission preserves the session invariant.
LEMMA TxDoneKeepsSession ==
    ASSUME SessionInv, TypeOK', TxDone \/ FecTxDone
    PROVE  SessionInv'
<1>0. /\ lk \in LinkStruct /\ Sound(lk)
      /\ told = "CONNECTED" <=> lk.state \in ConnectedStates
  BY DEF SessionInv, TypeOK, HostKnowsSession
<1>1. CASE TxDone
  BY <1>0, <1>1 DEF TxDone, Quiet, SessionInv, HostKnowsSession,
                    BroadcasterTransmits
<1>2. CASE FecTxDone /\ lk.fec_reps_sent < FecRepeats
  <2>1. lk.state = "FEC_SEND" /\ lk.out.k # "SILENCE" /\ lk.out \in Frames
    BY <1>0, <1>2 DEF FecTxDone, Sound, LinkStruct
  <2>2. Resent(lk) # Silence
    BY <2>1 DEF Resent, Frame, Silence
  <2>3. Sound(lk)' /\ lk'.state = "FEC_SEND"
    BY <1>0, <1>2, <2>1 DEF FecTxDone, Sound, LinkStruct, Receiving, Sending,
                       ConnectedStates
  <2> QED BY <1>0, <1>2, <2>1, <2>2, <2>3
          DEF FecTxDone, Served, Quiet, SessionInv, HostKnowsSession,
              BroadcasterTransmits, ConnectedStates
<1>3. CASE FecTxDone /\ ~(lk.fec_reps_sent < FecRepeats)
  <2> DEFINE l == fec_send_next(lk)
  <2>1. /\ Sound(l) /\ l.state \in {"FEC_SEND", "DISC"}
        /\ l.state = "FEC_SEND" => l.out # Silence
    BY <1>0, <1>3, SoundBroadcast DEF FecTxDone
  <2>2. /\ lk' = l /\ told' = told
        /\ air' = IF l.state = "DISC" THEN Silence ELSE l.out
    BY <1>3 DEF FecTxDone, Quiet
  <2> HIDE DEF l
  <2> QED BY <1>0, <1>3, <2>1, <2>2
          DEF FecTxDone, Served, SessionInv, HostKnowsSession,
              BroadcasterTransmits, ConnectedStates
<1> QED BY <1>1, <1>2, <1>3

\* So does every host command.
LEMMA HostKeepsSession ==
    ASSUME SessionInv, TypeOK', Host
    PROVE  SessionInv'
<1>0. /\ lk \in LinkStruct /\ Sound(lk)
      /\ told = "CONNECTED" <=> lk.state \in ConnectedStates
      /\ lk.state = "FEC_SEND" => air # Silence
  BY DEF SessionInv, TypeOK, HostKnowsSession, BroadcasterTransmits
<1>a. fresh' = FALSE
  BY DEF Host, HostConnect, HostDisconnect, HostAbort, HostBreak, HostSendId,
         HostPurge, HostSendData, HostSetMode, HostFecSend, Served
<1> SUFFICES /\ Sound(lk)'
             /\ lk'.state = "FEC_SEND" => air' # Silence
             /\ told' = "CONNECTED" <=> lk'.state \in ConnectedStates
  BY <1>a DEF SessionInv, HostKnowsSession, BroadcasterTransmits
<1>1. CASE HostConnect
  BY <1>0, <1>1 DEF HostConnect, Send, Quiet, arm_repeat, LinkStruct, Sound,
                    Receiving, Sending, ConnectedStates
<1>2. CASE HostDisconnect
  BY <1>0, <1>2, SoundDisconnect DEF HostDisconnect, Send, Quiet
<1>3. CASE HostAbort
  <2>1. 0 \in 0..DiscTries /\ <<>> \in Seq(Data)
    BY DiscTriesAssumption
  <2>2. [lk EXCEPT !.tx = <<>>, !.disc_repeat_count = 0] \in LinkStruct
    BY <1>0, <2>1 DEF LinkStruct
  <2> QED BY <1>3, <2>2, SoundReset
          DEF HostAbort, Keep, Notify, ConnectedStates
<1>4. CASE HostBreak
  BY <1>0, <1>4 DEF HostBreak, Keep, Quiet, LinkStruct, Sound
<1>5. CASE HostSendId
  BY <1>0, <1>5 DEF HostSendId, Send, Quiet, LinkStruct, Sound
<1>6. CASE HostPurge
  BY <1>0, <1>6 DEF HostPurge, Keep, Quiet, LinkStruct, Sound
<1>7. ASSUME NEW d \in Data, HostSendData(<<d>>)
      PROVE  /\ Sound(lk)'
             /\ lk'.state = "FEC_SEND" => air' # Silence
             /\ told' = "CONNECTED" <=> lk'.state \in ConnectedStates
  <2> DEFINE l == [lk EXCEPT !.tx = FirstUnits(lk.tx \o <<d>>, TxCap)]
  <2>1. l \in LinkStruct
    <3>1. lk.tx \in Seq(Data)
      BY <1>0 DEF LinkStruct
    <3>2. lk.tx \o <<d>> \in Seq(Data)
      BY <3>1
    <3>3. FirstUnits(lk.tx \o <<d>>, TxCap) \in Seq(Data)
      BY <3>2, HeadType, TxCapAssumption
    <3> QED BY <1>0, <3>3 DEF LinkStruct
  <2>2. Sound(l) /\ l.state = lk.state
    BY <1>0 DEF LinkStruct, Sound
  <2>3. (lk' = arm_idle(l) \/ lk' = lk) /\ air' = air /\ told' = told
    BY <1>7 DEF HostSendData, Keep, Quiet
  <2> HIDE DEF l
  <2> QED BY <1>0, <2>1, <2>2, <2>3, SoundArmed
<1>8. ASSUME NEW m \in {"ARQ", "FEC", "RXO"}, HostSetMode(m)
      PROVE  /\ Sound(lk)'
             /\ lk'.state = "FEC_SEND" => air' # Silence
             /\ told' = "CONNECTED" <=> lk'.state \in ConnectedStates
  BY <1>0, <1>8 DEF HostSetMode, Keep, Quiet, LinkStruct, Sound
<1>9. ASSUME NEW ft \in FecTypes, HostFecSend(ft)
      PROVE  /\ Sound(lk)'
             /\ lk'.state = "FEC_SEND" => air' # Silence
             /\ told' = "CONNECTED" <=> lk'.state \in ConnectedStates
  <2> DEFINE l == [lk EXCEPT !.fec_frame_type = ft, !.mode = "FEC"]
             r == [l EXCEPT !.state = "FEC_SEND"]
             b == fec_send_next(r)
  <2>1. ft \in DataTypes \cup {NoType}
    BY FecAssumption
  <2>2. l \in LinkStruct /\ Sound(l) /\ l.state = lk.state
    <3>1. l \in LinkStruct
      BY <1>0, <2>1 DEF LinkStruct
    <3>2. Sound(l) /\ l.state = lk.state
      BY <1>0 DEF LinkStruct, Sound
    <3> QED BY <3>1, <3>2
  <2>3. r \in LinkStruct /\ r.state = "FEC_SEND"
    <3> HIDE DEF l
    <3> QED BY <2>2 DEF LinkStruct, States
  <2>4. /\ Sound(b) /\ b.state \in {"FEC_SEND", "DISC"}
        /\ b.state = "FEC_SEND" => b.out # Silence
    <3> HIDE DEF r
    <3> QED BY <2>3, SoundBroadcast
  <2>5. /\ told' = told
        /\ \/ lk' = l /\ lk.state # "DISC" /\ air' = air
           \/ lk' = b /\ lk.state = "DISC" /\ b.state = "DISC"
           \/ lk' = b /\ lk.state = "DISC" /\ air' = b.out
    BY <1>9 DEF HostFecSend, Keep, Send, Quiet
  <2> HIDE DEF l, r, b
  <2> QED BY <1>0, <2>2, <2>4, <2>5 DEF ConnectedStates
<1> QED BY <1>1, <1>2, <1>3, <1>4, <1>5, <1>6, <1>7, <1>8, <1>9 DEF Host

\* It holds after ardop_link_init.
LEMMA InitSession == Init => SessionInv
BY InitTypes DEF Init, SessionInv, Sound, HostKnowsSession,
    BroadcasterTransmits, ardop_link_init, Receiving, Sending, ConnectedStates

\* The session invariant is inductive.
LEMMA StepSession == SessionInv /\ [Next]_vars => SessionInv'
<1> SUFFICES ASSUME SessionInv, [Next]_vars PROVE SessionInv'
  OBVIOUS
<1>0. TypeOK'
  BY StepTypes DEF SessionInv
<1>1. CASE \E f \in Channel : Rx(f) \/ RxBad(f)
  BY <1>0, <1>1, ChannelType, RxKeepsSession, RxBadKeepsSession
<1>2. CASE Timer
  BY <1>0, <1>2, TimerKeepsSession
<1>3. CASE TxDone \/ FecTxDone
  BY <1>0, <1>3, TxDoneKeepsSession
<1>4. CASE Host
  BY <1>0, <1>4, HostKeepsSession
<1>5. CASE UNCHANGED vars
  BY <1>0, <1>5
  DEF vars, SessionInv, Sound, HostKnowsSession, BroadcasterTransmits
<1> QED BY <1>1, <1>2, <1>3, <1>4, <1>5 DEF Next

\* Whatever the channel brings, whatever the host asks and whichever timer is
\* due: a disconnected station owes the channel nothing (reset_to_disc), a
\* receiver resends nothing but its own DISC (iss_yield_on_break), a sender is
\* always going to resend (arm_repeat), and every session has a deadline that
\* ends it (arm_stall, pending_deadline).
THEOREM SessionCorrect == Spec => []DeadlinesFit
<1>1. SessionInv => DeadlinesFit
  BY DEF SessionInv, Sound, DeadlinesFit, DiscIsQuiet, ReceiverNeverRepeats,
         SenderKeepsTrying, SessionsCanEnd, Receiving, Sending
<1> QED BY InitSession, StepSession, <1>1, PTL DEF Spec

\* The host was last told CONNECTED exactly while the machine is in a
\* connected state: every path into and out of a session (handshake, teardown,
\* both timeouts, the fifth DISC, ABORT) notifies it.
THEOREM HostInformed == Spec => []HostKnowsSession
<1>1. SessionInv => HostKnowsSession
  BY DEF SessionInv
<1> QED BY InitSession, StepSession, <1>1, PTL DEF Spec

\* A station in FEC_SEND is transmitting, so the TX-done input that drives the
\* broadcast (step_fec_tx_done) is still to come.
THEOREM BroadcastNeverStuck == Spec => []BroadcasterTransmits
<1>1. SessionInv => BroadcasterTransmits
  BY DEF SessionInv
<1> QED BY InitSession, StepSession, <1>1, PTL DEF Spec

-----------------------------------------------------------------------------
(* The frame in flight *)

\* InFlightIsQueueHead, of any struct.
InFlight(l) ==
    l.state = "ISS" =>
        /\ l.outstanding \in 1..Len(l.tx)
        /\ l.out.k = "DATA" =>
               /\ l.out.ft = l.last_data_sent
               /\ l.out.d = SubSeq(l.tx, 1, l.outstanding)

\* iss_send_next records exactly what it sends.
LEMMA InFlightSendNext ==
    ASSUME NEW l \in LinkStruct
    PROVE  InFlight(iss_send_next(l))
<1> DEFINE take == FirstUnits(l.tx, Cap[l.mode_ptr])
           s == iss_send_next(l)
<1>1. l.tx \in Seq(Data) /\ Cap[l.mode_ptr] \in Nat \ {0}
  BY CapAssumption, ModesAssumption DEF LinkStruct
<1>2. CASE l.tx = <<>>
  BY <1>2 DEF iss_send_next, arm_repeat, send_control, LinkStruct, InFlight
<1>3. CASE l.tx # <<>>
  <2>1. /\ Len(take) \in 1..Len(l.tx)
        /\ take = SubSeq(l.tx, 1, Len(take))
    BY <1>1, <1>3, HeadType
  <2>2. /\ s.tx = l.tx /\ s.outstanding = Len(take)
        /\ s.last_data_sent = NextType(l)
        /\ s.out = DataFrame(NextType(l), take)
    <3> HIDE DEF take
    <3> QED BY <1>3 DEF iss_send_next, arm_repeat, LinkStruct, take
  <2>3. s.out.ft = NextType(l) /\ s.out.d = take
    BY <2>2 DEF DataFrame
  <2> HIDE DEF take, s
  <2>4. InFlight(s)
    BY <2>1, <2>2, <2>3 DEF InFlight
  <2> QED BY <2>4 DEF s
<1> QED BY <1>2, <1>3

\* A step that leaves the queue and the count alone, and out_frame too unless
\* it puts something else than data there, keeps the frame in flight.
LEMMA InFlightKept ==
    ASSUME NEW l, NEW m, InFlight(l),
           m.state = "ISS" => l.state = "ISS",
           m.tx = l.tx, m.outstanding = l.outstanding,
           m.last_data_sent = l.last_data_sent,
           m.out = l.out \/ m.out.k # "DATA"
    PROVE  InFlight(m)
BY DEF InFlight

\* Every step but PURGEBUFFER keeps it.
LEMMA InFlightStep ==
    ASSUME "PURGEBUFFER" \notin Commands, TypeOK, InFlight(lk), Next
    PROVE  InFlight(lk')
<1>0. lk \in LinkStruct /\ Heard \in LinkStruct
  BY HeardType DEF TypeOK
<1>h. /\ Heard.state = lk.state /\ Heard.tx = lk.tx
      /\ Heard.outstanding = lk.outstanding
      /\ Heard.last_data_sent = lk.last_data_sent /\ Heard.out = lk.out
  BY <1>0 DEF Heard, arm_stall, LinkStruct
<1>1. ASSUME NEW f \in Channel, Rx(f)
      PROVE  InFlight(lk')
  <2>1. CASE RxDataAck(f)
    <3> DEFINE l == [tx_dequeue(Heard, Heard.outstanding) EXCEPT
                        !.last_data_acked = lk.last_data_sent,
                        !.outstanding = 0]
    <3>1. Heard.outstanding \in Nat /\ lk.last_data_sent \in DataTypes
      BY <1>0 DEF LinkStruct
    <3>2. tx_dequeue(Heard, Heard.outstanding) \in LinkStruct
      BY <1>0, <3>1, DequeueType
    <3>3. l \in LinkStruct
      BY <3>1, <3>2 DEF LinkStruct
    <3> HIDE DEF l
    <3>4. PICK m \in 0..(Modes - 1) :
              lk' = iss_send_next([arm_idle(l) EXCEPT !.mode_ptr = m])
      BY <2>1 DEF RxDataAck, gearshift, l, Send
    <3> QED BY <3>3, <3>4, TimerTypes, FieldTypes, InFlightSendNext
  <2>2. CASE RxDataNak(f)
    <3>1. PICK m \in 0..(Modes - 1) :
              \/ lk' = Heard
              \/ lk' = iss_send_next([Heard EXCEPT !.mode_ptr = m])
      BY <2>2 DEF RxDataNak, gearshift, Keep, Send
    <3> QED BY <1>0, <1>h, <3>1, FieldTypes, InFlightSendNext, InFlightKept
  <2>3. CASE RxIdleAck(f)
    BY <1>0, <2>3, InFlightSendNext DEF RxIdleAck, Send
  <2>4. CASE RxBreakAck(f)
    <3>1. [iss_begin_sending(Heard) EXCEPT !.last_data_to_host = NoType]
              \in LinkStruct
      BY <1>0, RoleTypes, FieldTypes
    <3> QED BY <2>4, <3>1, InFlightSendNext DEF RxBreakAck, Send
  <2>5. CASE RxHandshakeAck(f)
    <3>1. [lk EXCEPT !.pending = FALSE] \in LinkStruct
      BY <1>0 DEF LinkStruct
    <3> QED BY <2>5, <3>1, TimerTypes, RoleTypes, InFlightSendNext
            DEF RxHandshakeAck, Send
  <2>6. CASE RxFec(f) \/ RxRxo(f) \/ RxIgnored(f)
    <3>1. CASE RxFec(f)
      <4>1. /\ lk'.state = lk.state /\ lk'.tx = lk.tx
            /\ lk'.outstanding = lk.outstanding
            /\ lk'.last_data_sent = lk.last_data_sent /\ lk'.out = lk.out
        BY <1>0, <3>1 DEF RxFec, Keep, LinkStruct
      <4> QED BY <4>1, InFlightKept
    <3>2. CASE RxRxo(f) \/ RxIgnored(f)
      BY <1>0, <1>h, <3>2, InFlightKept DEF RxRxo, RxIgnored, Keep
    <3> QED BY <2>6, <3>1, <3>2
  <2>7. CASE \/ RxLateDisc(f) \/ RxConreqReject(f) \/ RxConreqAccept(f)
             \/ RxPing(f) \/ RxConackAtCaller(f) \/ RxConackAtTarget(f)
             \/ RxIdle(f) \/ RxBreak(f)
    <3>1. CASE RxLateDisc(f) \/ RxConreqReject(f) \/ RxPing(f) \/ RxConreqAccept(f)
      <4>1. lk'.state \in {"DISC", "IRS_CON_ACK"}
        BY <1>0, <3>1
        DEF RxLateDisc, RxConreqReject, RxPing, RxConreqAccept, InArq, Send,
            send_control, LinkStruct
      <4> QED BY <4>1 DEF InFlight
    <3>2. CASE RxConackAtCaller(f) \/ RxConackAtTarget(f)
      <4>1. lk'.state \in {"ISS_CON_ACK", "IRS_DATA"}
        BY <1>0, <3>2 DEF RxConackAtCaller, RxConackAtTarget, Send, arm_repeat,
                   arm_idle, arm_stall, send_control, LinkStruct
      <4> QED BY <4>1 DEF InFlight
    <3>3. CASE RxIdle(f) \/ RxBreak(f)
      <4>1. lk'.state # "ISS"
        BY <1>0, <1>h, <3>3
        DEF RxIdle, RxBreak, InArq, Send, send_break, arm_repeat,
            send_control, iss_yield_on_break, LinkStruct
      <4> QED BY <4>1 DEF InFlight
    <3> QED BY <2>7, <3>1, <3>2, <3>3
  <2>8. CASE RxConrej(f) \/ RxDisc(f) \/ RxEnd(f)
    <3>1. [send_control(Heard, "END") EXCEPT !.final_id = TRUE] \in LinkStruct
      BY <1>0, ControlType, FieldTypes DEF ControlKinds
    <3>2. lk'.state = "DISC"
      BY <1>0, <2>8, <3>1, SoundReset DEF RxConrej, RxDisc, RxEnd, Keep, Send
    <3> QED BY <3>2 DEF InFlight
  <2>9. CASE RxData(f)
    <3> DEFINE h == arm_idle(Heard)
    <3>1. h \in LinkStruct
      BY <1>0, TimerTypes
    <3>2. \/ lk' = send_break(h)
          \/ lk' = [send_control(h, "ACK") EXCEPT !.last_data_to_host = f.ft,
                     !.last_acked_type = f.ft, !.state = "IRS_DATA"]
      BY <2>9 DEF RxData, Send
    <3> HIDE DEF h
    <3>3. lk'.state # "ISS"
      BY <3>1, <3>2 DEF send_break, arm_repeat, send_control, LinkStruct
    <3> QED BY <3>3 DEF InFlight
  <2> QED BY <1>1, <2>1, <2>2, <2>3, <2>4, <2>5, <2>6, <2>7, <2>8, <2>9 DEF Rx
<1>2. ASSUME NEW f \in Channel, RxBad(f)
      PROVE  InFlight(lk')
  <2>1. lk'.state # "ISS"
    BY <1>0, <1>2 DEF RxBad, RxBadData, InArq, Send, send_control, LinkStruct
  <2> QED BY <2>1 DEF InFlight
<1>3. CASE PendingTimeout \/ StallTimeout \/ RepeatGivesUp \/ HostAbort
  <2>1. PICK l : lk' = reset_to_disc(l) /\ l \in LinkStruct
    <3>1. 0 \in 0..DiscTries /\ <<>> \in Seq(Data)
      BY DiscTriesAssumption
    <3>2. /\ [lk EXCEPT !.disc_repeat_count = 0] \in LinkStruct
          /\ [lk EXCEPT !.tx = <<>>, !.disc_repeat_count = 0] \in LinkStruct
      BY <1>0, <3>1 DEF LinkStruct
    <3> QED BY <1>0, <1>3, <3>2
            DEF PendingTimeout, StallTimeout, RepeatGivesUp, HostAbort, Keep
  <2> QED BY <2>1, SoundReset DEF InFlight
<1>4. CASE IdleTimeout \/ FinalId \/ HostDisconnect
  <2> DEFINE Same(l) == /\ l.state = lk.state /\ l.tx = lk.tx
                        /\ l.outstanding = lk.outstanding
                        /\ l.last_data_sent = lk.last_data_sent
                        /\ l.out = lk.out \/ l.out.k # "DATA"
  <2>1. CASE IdleTimeout
    <3> DEFINE i == [lk EXCEPT !.idle = FALSE]
    <3>1. lk' = i \/ lk' = step_host_disconnect(i)
      BY <2>1 DEF IdleTimeout, Keep, Send
    <3>2. Same(i) /\ Same(step_host_disconnect(i))
      BY <1>0 DEF step_host_disconnect, arm_repeat, send_control, Frame,
                  LinkStruct
    <3>3. Same(lk')
      BY <3>1, <3>2
    <3> QED BY <3>3, InFlightKept
  <2>2. CASE FinalId \/ HostDisconnect
    <3>1. /\ Same([lk EXCEPT !.final_id = FALSE, !.out = Frame("ID")])
          /\ Same(step_host_disconnect(lk))
      BY <1>0 DEF step_host_disconnect, arm_repeat, send_control, Frame,
                  LinkStruct
    <3>2. Same(lk')
      BY <2>2, <3>1 DEF FinalId, HostDisconnect, Send
    <3> QED BY <3>2, InFlightKept
  <2> QED BY <1>4, <2>1, <2>2
<1>5. CASE Repeat \/ TxDone \/ HostBreak
  <2>1. /\ lk'.state = lk.state /\ lk'.tx = lk.tx
        /\ lk'.outstanding = lk.outstanding
        /\ lk'.last_data_sent = lk.last_data_sent /\ lk'.out = lk.out
    BY <1>0, <1>5 DEF Repeat, TxDone, HostBreak, Keep, LinkStruct
  <2> QED BY <2>1, InFlightKept
<1>6. CASE FecTxDone
  <2>1. lk.state = "FEC_SEND" /\ (lk' = fec_send_next(lk) \/ lk'.state = lk.state)
    BY <1>0, <1>6 DEF FecTxDone, LinkStruct
  <2>2. lk'.state # "ISS"
    BY <1>0, <2>1, SoundBroadcast
  <2> QED BY <2>2 DEF InFlight
<1>7. CASE HostConnect \/ HostSendId \/ \E m \in {"ARQ", "FEC", "RXO"} : HostSetMode(m)
  <2>1. lk'.state # "ISS"
    BY <1>0, <1>7
    DEF HostConnect, HostSendId, HostSetMode, Send, Keep, arm_repeat,
        LinkStruct
  <2> QED BY <2>1 DEF InFlight
<1>8. ASSUME NEW d \in Data, HostSendData(<<d>>)
      PROVE  InFlight(lk')
  <2>1. lk.tx \in Seq(Data)
    BY <1>0 DEF LinkStruct
  <2>2. CASE Len(lk.tx) < TxCap
    <3>1. FirstUnits(lk.tx \o <<d>>, TxCap) = lk.tx \o <<d>>
      BY <2>1, <2>2, TxCapAssumption DEF FirstUnits
    <3>2. /\ lk'.state = lk.state /\ lk'.tx = lk.tx \o <<d>>
          /\ lk'.outstanding = lk.outstanding
          /\ lk'.last_data_sent = lk.last_data_sent /\ lk'.out = lk.out
      BY ZenonT(60), <1>0, <1>8, <2>2, <3>1 DEF HostSendData, Keep, arm_idle, LinkStruct
    <3>3. ASSUME lk.outstanding \in 1..Len(lk.tx)
          PROVE  /\ lk.outstanding \in 1..Len(lk.tx \o <<d>>)
                 /\ SubSeq(lk.tx \o <<d>>, 1, lk.outstanding)
                        = SubSeq(lk.tx, 1, lk.outstanding)
      BY <2>1, <3>3
    <3> QED BY <3>2, <3>3 DEF InFlight
  <2>3. CASE ~(Len(lk.tx) < TxCap)
    BY <1>8, <2>3 DEF HostSendData, Keep
  <2> QED BY <2>2, <2>3
<1>9. ASSUME NEW ft \in FecTypes, HostFecSend(ft)
      PROVE  InFlight(lk')
  <2> DEFINE l == [lk EXCEPT !.fec_frame_type = ft, !.mode = "FEC"]
             r == [l EXCEPT !.state = "FEC_SEND"]
  <2>1. ft \in DataTypes \cup {NoType}
    BY FecAssumption
  <2>2. l \in LinkStruct
    BY <1>0, <2>1 DEF LinkStruct
  <2>3. InFlight(l)
    <3>1. /\ l.state = lk.state /\ l.tx = lk.tx
          /\ l.outstanding = lk.outstanding
          /\ l.last_data_sent = lk.last_data_sent /\ l.out = lk.out
      BY <1>0 DEF LinkStruct
    <3> QED BY <3>1, InFlightKept
  <2>4. r \in LinkStruct /\ r.state = "FEC_SEND"
    <3> HIDE DEF l
    <3> QED BY <2>2 DEF LinkStruct, States
  <2>5. lk' = l \/ lk' = fec_send_next(r)
    BY <1>9 DEF HostFecSend, Keep, Send
  <2> HIDE DEF l, r
  <2>6. fec_send_next(r).state # "ISS"
    BY <2>4, SoundBroadcast
  <2> QED BY <2>3, <2>5, <2>6 DEF InFlight
<1>10. ~HostPurge
  BY DEF HostPurge, Issues
<1> QED BY <1>1, <1>2, <1>3, <1>4, <1>5, <1>6, <1>7, <1>8, <1>9, <1>10
        DEF Next, Timer, Host

\* If the host never empties the queue behind the machine (PURGEBUFFER, BUFFER
\* 0 of shell/host.c), the bytes a DataACK will drop (step_iss_data_rx) are
\* always those of the frame in flight, whatever is queued meanwhile and
\* however often the mode changes.
THEOREM InFlightCorrect ==
    ASSUME "PURGEBUFFER" \notin Commands
    PROVE  Spec => []InFlightIsQueueHead
<1>1. Init => InFlight(lk)
  BY DEF Init, ardop_link_init, InFlight
<1>2. TypeOK /\ InFlight(lk) /\ [Next]_vars => InFlight(lk)'
  <2> SUFFICES ASSUME TypeOK, InFlight(lk), [Next]_vars PROVE InFlight(lk')
    OBVIOUS
  <2>1. CASE Next
    BY <2>1, InFlightStep
  <2>2. CASE UNCHANGED vars
    BY <2>2 DEF vars
  <2> QED BY <2>1, <2>2
<1>3. InFlight(lk) => InFlightIsQueueHead
  BY DEF InFlight, InFlightIsQueueHead
<1> QED BY <1>1, <1>2, <1>3, TypeCorrect, PTL DEF Spec
=============================================================================
