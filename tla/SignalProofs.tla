---------------------------- MODULE SignalProofs ----------------------------
(***************************************************************************)
(* Proofs about what turns signals into decisions: GearShift, for every    *)
(* ladder, threshold table and sequence of answers; Busy, whose report     *)
(* changes only on evidence, for every hold time, every clock that is      *)
(* longer, and every number of confirmations; Demod, whose buffers hold,   *)
(* for every sequence of blocks and whatever is found in them; Capture,    *)
(* whose files can be read whenever the process ends, for every size of a  *)
(* record, of a block and of stdio's buffer.                               *)
(***************************************************************************)
EXTENDS GearShift, Busy, Demod, Capture, Induction, SequenceTheorems, TLAPS

-----------------------------------------------------------------------------
(* GearShift. *)

GearStruct ==
    [mode_ptr : Ladder, avg_quality : Nat, ack_ctr : 0..AckLimit,
     nak_ctr : 0..NakLimit, has_worked : SUBSET Ladder,
     been_tried : SUBSET Ladder]

\* The counters of the code never exceed the runs of answers they stand for,
\* and above the bottom rung one NAK is remembered only on a mode that has
\* worked: one that has not is left at once.  Without the second part an ACK
\* after a NAK could shift down, since gearshift() looks at nak_ctr on an ACK
\* too and step_iss_data_rx() clears it only afterwards.
CounterInv ==
    /\ ack_ctr <= acks
    /\ nak_ctr <= naks
    /\ mode_ptr > 0 => nak_ctr < NakLimit
    /\ mode_ptr > 0 /\ nak_ctr > 0 => mode_ptr \in has_worked

GearInv == TypeOK /\ CounterInv

-----------------------------------------------------------------------------
(* What gearshift() and apply_shift() compute *)

\* The average of two qualities is a quality.
LEMMA AverageType ==
    ASSUME NEW a \in Nat, NEW q \in Nat
    PROVE  ardop_quality_avg(a, q) \in Nat
BY DEF ardop_quality_avg

\* A shift down needs a rung below, a shift up a rung above, and either needs
\* its counter.
LEMMA ShiftMeaning ==
    ASSUME NEW g \in GearStruct, NEW r \in Nat
    PROVE  LET s == shift_up_dn(g, r) IN
           /\ s \in {-1, 0, 1}
           /\ s = -1 <=> ShiftsDown(g)
           /\ s = 1 => g.mode_ptr < Modes - 1 /\ ShiftsUp(Credited(g), r)
<1>1. Credited(g) \in GearStruct /\ Credited(g).mode_ptr = g.mode_ptr
  BY DEF Credited, GearStruct
<1> QED BY <1>1, LadderAssumption DEF shift_up_dn, ShiftsUp

\* Counters() clears three fields.
LEMMA CountersType ==
    ASSUME NEW g \in GearStruct
    PROVE  /\ Counters(g) \in GearStruct
           /\ Counters(g).mode_ptr = g.mode_ptr
           /\ Counters(g).ack_ctr = 0 /\ Counters(g).nak_ctr = 0
           /\ Counters(g).has_worked = g.has_worked
<1>1. 0 \in 0..AckLimit /\ 0 \in 0..NakLimit
  BY DEF AckLimit, NakLimit
<1>2. Counters(g) \in GearStruct
  BY <1>1 DEF Counters, GearStruct
<1>3. /\ Counters(g).mode_ptr = g.mode_ptr
      /\ Counters(g).ack_ctr = 0 /\ Counters(g).nak_ctr = 0
      /\ Counters(g).has_worked = g.has_worked
  BY DEF Counters, GearStruct
<1> QED BY <1>2, <1>3

\* The fields after gearshift() and apply_shift().
LEMMA ShiftedFields ==
    ASSUME NEW g \in GearStruct, NEW r \in Nat
    PROVE  LET s == shift_up_dn(g, r)
               h == gearshift(g, r)
           IN  /\ h \in GearStruct
               /\ h.mode_ptr = g.mode_ptr
               /\ h.ack_ctr \in {0, g.ack_ctr} /\ h.nak_ctr \in {0, g.nak_ctr}
               /\ g.has_worked \subseteq h.has_worked
               /\ s = 0 => h = Credited(g)
<1> DEFINE c == Credited(g)
<1> HIDE DEF c
<1>1. /\ c \in GearStruct /\ c.mode_ptr = g.mode_ptr
      /\ c.ack_ctr = g.ack_ctr /\ c.nak_ctr = g.nak_ctr
      /\ g.has_worked \subseteq c.has_worked
  BY DEF Credited, GearStruct, c
<1>2. /\ Counters(c) \in GearStruct /\ Counters(c).mode_ptr = g.mode_ptr
      /\ Counters(c).ack_ctr = 0 /\ Counters(c).nak_ctr = 0
      /\ Counters(c).has_worked = c.has_worked
  BY <1>1, CountersType
<1>3. shift_up_dn(g, r) = 1 => g.mode_ptr + 1 \in Ladder
  BY ShiftMeaning, LadderAssumption DEF GearStruct, Ladder
<1>4. CASE shift_up_dn(g, r) = -1
  BY <1>1, <1>2, <1>4 DEF gearshift, c
<1>5. CASE shift_up_dn(g, r) = 1
  <2> DEFINE u == [Counters(c) EXCEPT !.been_tried = @ \cup {g.mode_ptr + 1}]
  <2>1. gearshift(g, r) = u
    BY <1>5 DEF gearshift, c
  <2>2. /\ u \in GearStruct /\ u.mode_ptr = g.mode_ptr
        /\ u.ack_ctr = 0 /\ u.nak_ctr = 0 /\ u.has_worked = c.has_worked
    BY <1>2, <1>3, <1>5 DEF GearStruct
  <2> QED BY <1>1, <1>5, <2>1, <2>2
<1>6. CASE shift_up_dn(g, r) = 0
  BY <1>1, <1>6 DEF gearshift, c
<1> QED BY <1>4, <1>5, <1>6, ShiftMeaning

\* apply_shift() moves by the shift, and the pointer stays on the ladder
\* although its clamp is one too high.
LEMMA AppliedFields ==
    ASSUME NEW g \in GearStruct, NEW s \in {-1, 0, 1},
           s = -1 => g.mode_ptr > 0,
           s = 1 => g.mode_ptr < Modes - 1
    PROVE  /\ apply_shift(g, s) = [g EXCEPT !.mode_ptr = g.mode_ptr + s]
           /\ apply_shift(g, s) \in GearStruct
           /\ apply_shift(g, s).mode_ptr = g.mode_ptr + s
<1>1. g.mode_ptr \in 0..(Modes - 1) /\ Modes \in Nat
  BY LadderAssumption DEF GearStruct, Ladder
<1>2. g.mode_ptr + s \in Ladder
  BY <1>1 DEF Ladder
<1>3. (CASE s < 0 -> IF g.mode_ptr > 0 THEN g.mode_ptr - 1 ELSE g.mode_ptr
         [] s > 0 -> Bounded(g.mode_ptr + 1, Modes)
         [] OTHER -> g.mode_ptr) = g.mode_ptr + s
  <2>1. CASE s = -1 BY <1>1, <2>1
  <2>2. CASE s = 0 BY <1>1, <2>2
  <2>3. CASE s = 1 BY <1>1, <2>3 DEF Bounded
  <2> QED BY <2>1, <2>2, <2>3
<1>4. apply_shift(g, s) = [g EXCEPT !.mode_ptr = g.mode_ptr + s]
  BY <1>3 DEF apply_shift, GearStruct
<1> QED BY <1>2, <1>4 DEF GearStruct

-----------------------------------------------------------------------------
(* One answer *)

\* The fields as one struct.
LEMMA GearType ==
    ASSUME TypeOK
    PROVE  Gear \in GearStruct
BY DEF TypeOK, Gear, GearStruct

\* What a DataACK does to every field and to the counters.
LEMMA AckStep ==
    ASSUME GearInv, NEW q \in Qualities, DataAck(q)
    PROVE  /\ GearInv'
           /\ mode_ptr' \in {mode_ptr, mode_ptr + 1}
           /\ mode_ptr' = mode_ptr + 1 =>
                /\ tx' > Cap[mode_ptr]
                /\ mode_ptr' \in been_tried /\ mode_ptr' \notin has_worked =>
                       acks' = AckLimit
<1> DEFINE g == [Gear EXCEPT !.ack_ctr = Bounded(@ + 1, AckLimit),
                             !.avg_quality = ardop_quality_avg(@, q)]
           left == tx - outstanding
           s == shift_up_dn(g, left)
           k == [gearshift(g, left) EXCEPT !.nak_ctr = 0]
           h == apply_shift(k, s)
<1>1. /\ tx \in Nat /\ outstanding \in 0..tx /\ left \in Nat
      /\ mode_ptr \in Ladder /\ q \in Nat
      /\ ack_ctr \in 0..5 /\ acks \in 0..5 /\ nak_ctr \in 0..2
      /\ has_worked \subseteq Ladder
  BY QualityAssumption DEF GearInv, TypeOK, AckLimit, NakLimit
<1>2. /\ Set(h) /\ tx' = left /\ outstanding' = Bounded(left, Cap[h.mode_ptr])
      /\ acks' = Bounded(acks + 1, AckLimit) /\ naks' = 0
      /\ heard' = [k |-> "ACK", q |-> q]
  BY DEF DataAck, SendNext
<1>3. /\ g \in GearStruct /\ g.mode_ptr = mode_ptr
      /\ g.nak_ctr = nak_ctr /\ g.has_worked = has_worked
      /\ g.been_tried = been_tried /\ g.ack_ctr = Bounded(ack_ctr + 1, AckLimit)
  <2>1. Bounded(ack_ctr + 1, AckLimit) \in 0..AckLimit
    BY <1>1 DEF Bounded, AckLimit
  <2>2. ardop_quality_avg(avg_quality, q) \in Nat
    BY <1>1, AverageType DEF GearInv, TypeOK
  <2> QED BY <2>1, <2>2, GearType DEF GearInv, Gear, GearStruct
<1> HIDE DEF g
<1>4. /\ s \in {-1, 0, 1}
      /\ s = -1 <=> ShiftsDown(g)
      /\ s = 1 => g.mode_ptr < Modes - 1 /\ ShiftsUp(Credited(g), left)
  BY <1>1, <1>3, ShiftMeaning
<1>5. s # -1
  BY <1>1, <1>3, <1>4
     DEF ShiftsDown, down_naks, GearInv, CounterInv, NakLimit
<1>6. /\ k \in GearStruct /\ k.mode_ptr = mode_ptr /\ k.nak_ctr = 0
      /\ k.ack_ctr \in {0, g.ack_ctr}
  <2>1. /\ gearshift(g, left) \in GearStruct
        /\ gearshift(g, left).mode_ptr = mode_ptr
        /\ gearshift(g, left).ack_ctr \in {0, g.ack_ctr}
    BY <1>1, <1>3, ShiftedFields
  <2>2. 0 \in 0..NakLimit
    BY DEF NakLimit
  <2> HIDE DEF left
  <2> QED BY <2>1, <2>2 DEF GearStruct
<1> HIDE DEF left, s, k
<1>7. /\ h = [k EXCEPT !.mode_ptr = k.mode_ptr + s]
      /\ h \in GearStruct /\ h.mode_ptr = mode_ptr + s
  BY <1>3, <1>4, <1>5, <1>6, AppliedFields
<1>8. h.nak_ctr = 0 /\ h.ack_ctr = k.ack_ctr
  BY <1>6, <1>7 DEF GearStruct
<1> HIDE DEF h
<1>9. TypeOK'
  <2>1. /\ h.mode_ptr \in Ladder /\ h.avg_quality \in Nat
        /\ h.ack_ctr \in 0..AckLimit /\ h.nak_ctr \in 0..NakLimit
        /\ h.has_worked \subseteq Ladder /\ h.been_tried \subseteq Ladder
    BY <1>7 DEF GearStruct
  <2>2. Bounded(left, Cap[h.mode_ptr]) \in 0..left
    BY <1>1, <2>1, TableAssumption DEF Bounded
  <2>3. Bounded(acks + 1, AckLimit) \in 0..AckLimit /\ 0 \in 0..NakLimit
    BY <1>1 DEF Bounded, AckLimit, NakLimit
  <2>4. heard' \in [k : {"NONE", "ACK", "NAK"}, q : Nat]
    BY <1>1, <1>2
  <2> QED BY <1>1, <1>2, <2>1, <2>2, <2>3, <2>4 DEF TypeOK, Set
<1>10. CounterInv'
  BY <1>1, <1>2, <1>3, <1>6, <1>8
     DEF GearInv, CounterInv, Set, Bounded, AckLimit, NakLimit
<1>11. mode_ptr' = mode_ptr + s
  BY <1>2, <1>7 DEF Set
<1>12. ASSUME s = 1
       PROVE  /\ left > Cap[mode_ptr]
              /\ mode_ptr + 1 \in been_tried /\ mode_ptr + 1 \notin has_worked =>
                     acks' = AckLimit
  <2>1. /\ Credited(g).mode_ptr = mode_ptr
        /\ Credited(g).been_tried = been_tried
        /\ Credited(g).ack_ctr = g.ack_ctr
        /\ Credited(g).has_worked \subseteq has_worked \cup {mode_ptr}
    BY <1>3 DEF Credited, GearStruct
  <2>2. ShiftsUp(Credited(g), left)
    BY <1>4, <1>12
  <2>3. mode_ptr + 1 # mode_ptr
    BY <1>1 DEF Ladder
  <2>4. /\ left > Cap[mode_ptr]
        /\ mode_ptr + 1 \in been_tried /\ mode_ptr + 1 \notin has_worked =>
               ~(g.ack_ctr < AckLimit)
    BY <2>1, <2>2, <2>3 DEF ShiftsUp
  <2>5. ~(g.ack_ctr < AckLimit) => acks' = AckLimit
    BY <1>1, <1>2, <1>3 DEF GearInv, CounterInv, Bounded, AckLimit
  <2> QED BY <2>4, <2>5
<1>13. s = 0 \/ s = 1
  BY <1>4, <1>5
<1> QED BY <1>1, <1>2, <1>9, <1>10, <1>11, <1>12, <1>13 DEF GearInv, Ladder

\* What a DataNAK does.
LEMMA NakStep ==
    ASSUME GearInv, NEW q \in Qualities, DataNak(q)
    PROVE  /\ GearInv'
           /\ mode_ptr' \in {mode_ptr - 1, mode_ptr, mode_ptr + 1}
           /\ mode_ptr' = mode_ptr - 1 =>
                (mode_ptr \in has_worked => naks' = NakLimit)
           /\ mode_ptr' = mode_ptr + 1 =>
                /\ tx' > Cap[mode_ptr]
                /\ mode_ptr' \in been_tried /\ mode_ptr' \notin has_worked =>
                       acks = AckLimit
           /\ heard'.k = "NAK"
<1> DEFINE g == [Gear EXCEPT !.nak_ctr = Bounded(@ + 1, NakLimit),
                             !.avg_quality = ardop_quality_avg(@, q)]
           s == shift_up_dn(g, tx)
           n == gearshift(g, tx)
           k == [n EXCEPT !.nak_ctr = IF s # 0 THEN 0 ELSE @, !.ack_ctr = 0]
           h == apply_shift(k, s)
<1>1. /\ tx \in Nat /\ outstanding \in 0..tx
      /\ mode_ptr \in Ladder /\ mode_ptr \in Nat /\ q \in Nat
      /\ ack_ctr \in 0..5 /\ acks \in 0..5 /\ nak_ctr \in 0..2 /\ naks \in 0..2
      /\ has_worked \subseteq Ladder
  BY QualityAssumption, LadderAssumption
     DEF GearInv, TypeOK, AckLimit, NakLimit, Ladder
<1>2. /\ Set(h) /\ tx' = tx
      /\ outstanding' = IF s # 0 THEN Bounded(tx, Cap[h.mode_ptr]) ELSE outstanding
      /\ acks' = 0 /\ naks' = Bounded(naks + 1, NakLimit)
      /\ heard' = [k |-> "NAK", q |-> q]
  BY DEF DataNak, SendNext
<1>3. /\ g \in GearStruct /\ g.mode_ptr = mode_ptr
      /\ g.nak_ctr = Bounded(nak_ctr + 1, NakLimit) /\ g.has_worked = has_worked
      /\ g.been_tried = been_tried /\ g.ack_ctr = ack_ctr
  <2>1. Bounded(nak_ctr + 1, NakLimit) \in 0..NakLimit
    BY <1>1 DEF Bounded, NakLimit
  <2>2. ardop_quality_avg(avg_quality, q) \in Nat
    BY <1>1, AverageType DEF GearInv, TypeOK
  <2> QED BY <2>1, <2>2, GearType DEF GearInv, Gear, GearStruct
<1> HIDE DEF g
<1>4. /\ s \in {-1, 0, 1}
      /\ s = -1 <=> ShiftsDown(g)
      /\ s = 1 => g.mode_ptr < Modes - 1 /\ ShiftsUp(Credited(g), tx)
  BY <1>1, <1>3, ShiftMeaning
<1>5. s = -1 => mode_ptr > 0
  BY <1>3, <1>4 DEF ShiftsDown
<1>6. /\ n \in GearStruct /\ n.mode_ptr = mode_ptr
      /\ s = 0 => n.nak_ctr = g.nak_ctr
      /\ has_worked \subseteq n.has_worked
  <2>1. /\ n \in GearStruct /\ n.mode_ptr = mode_ptr
        /\ s = 0 => n = Credited(g)
        /\ has_worked \subseteq n.has_worked
    BY <1>1, <1>3, ShiftedFields
  <2>2. Credited(g).nak_ctr = g.nak_ctr
    BY <1>3 DEF Credited, GearStruct
  <2> QED BY <2>1, <2>2
<1> HIDE DEF n, s
<1>7. /\ k \in GearStruct /\ k.mode_ptr = mode_ptr /\ k.ack_ctr = 0
      /\ k.nak_ctr = IF s # 0 THEN 0 ELSE g.nak_ctr
      /\ has_worked \subseteq k.has_worked
  <2>1. 0 \in 0..NakLimit /\ 0 \in 0..AckLimit
    BY DEF NakLimit, AckLimit
  <2>2. (IF s # 0 THEN 0 ELSE n.nak_ctr) \in 0..NakLimit
    BY <1>6, <2>1 DEF GearStruct
  <2> QED BY <1>6, <2>1, <2>2 DEF GearStruct
<1> HIDE DEF k
<1>8. /\ h = [k EXCEPT !.mode_ptr = k.mode_ptr + s]
      /\ h \in GearStruct /\ h.mode_ptr = mode_ptr + s
  BY <1>3, <1>4, <1>5, <1>7, AppliedFields
<1>9. h.nak_ctr = k.nak_ctr /\ h.ack_ctr = 0 /\ has_worked \subseteq h.has_worked
  BY <1>7, <1>8 DEF GearStruct
<1> HIDE DEF h
<1>10. TypeOK'
  <2>1. /\ h.mode_ptr \in Ladder /\ h.avg_quality \in Nat
        /\ h.ack_ctr \in 0..AckLimit /\ h.nak_ctr \in 0..NakLimit
        /\ h.has_worked \subseteq Ladder /\ h.been_tried \subseteq Ladder
    BY <1>8 DEF GearStruct
  <2>2. Bounded(tx, Cap[h.mode_ptr]) \in 0..tx
    <3>1. Cap[h.mode_ptr] \in Nat
      BY <2>1, TableAssumption
    <3> QED BY <1>1, <3>1 DEF Bounded
  <2>3. Bounded(naks + 1, NakLimit) \in 0..NakLimit /\ 0 \in 0..AckLimit
    BY <1>1 DEF Bounded, AckLimit, NakLimit
  <2>4. heard' \in [k : {"NONE", "ACK", "NAK"}, q : Nat]
    BY <1>1, <1>2
  <2> QED BY <1>1, <1>2, <2>1, <2>2, <2>3, <2>4 DEF TypeOK, Set
<1>11. mode_ptr' = mode_ptr + s
  BY <1>2, <1>8 DEF Set
<1>12. CounterInv'
  <2>1. ack_ctr' <= acks' /\ nak_ctr' <= naks'
    BY <1>1, <1>2, <1>3, <1>7, <1>9
       DEF GearInv, CounterInv, Set, Bounded, NakLimit
  <2>2. ASSUME mode_ptr' > 0, nak_ctr' > 0
        PROVE  nak_ctr' < NakLimit /\ mode_ptr' \in has_worked'
    <3>1. s = 0 /\ nak_ctr' = g.nak_ctr /\ mode_ptr' = mode_ptr
      BY <1>1, <1>2, <1>4, <1>7, <1>9, <1>11, <2>2 DEF Set
    <3>2. ~ShiftsDown(g)
      BY <1>4, <3>1
    <3>3. g.nak_ctr < 2 /\ mode_ptr \in has_worked
      BY <1>1, <1>3, <2>2, <3>1, <3>2 DEF ShiftsDown, down_naks, Bounded, NakLimit
    <3> QED BY <1>2, <1>9, <3>1, <3>3 DEF Set, NakLimit
  <2>3. nak_ctr' \in 0..NakLimit
    BY <1>10 DEF TypeOK
  <2> QED BY <2>1, <2>2, <2>3 DEF CounterInv, NakLimit
<1>13. ASSUME s = -1, mode_ptr \in has_worked
       PROVE  naks' = NakLimit
  <2>1. g.nak_ctr >= 2
    BY <1>3, <1>4, <1>13 DEF ShiftsDown, down_naks
  <2> QED BY <1>1, <1>2, <1>3, <2>1 DEF GearInv, CounterInv, Bounded, NakLimit
<1>14. ASSUME s = 1
       PROVE  /\ tx > Cap[mode_ptr]
              /\ mode_ptr + 1 \in been_tried /\ mode_ptr + 1 \notin has_worked =>
                     acks = AckLimit
  <2>1. /\ Credited(g).mode_ptr = mode_ptr
        /\ Credited(g).been_tried = been_tried
        /\ Credited(g).ack_ctr = ack_ctr
        /\ Credited(g).has_worked \subseteq has_worked \cup {mode_ptr}
    BY <1>3 DEF Credited, GearStruct
  <2>2. ShiftsUp(Credited(g), tx)
    BY <1>4, <1>14
  <2>3. mode_ptr + 1 # mode_ptr
    BY <1>1
  <2>4. /\ tx > Cap[mode_ptr]
        /\ mode_ptr + 1 \in been_tried /\ mode_ptr + 1 \notin has_worked =>
               ~(ack_ctr < AckLimit)
    BY <2>1, <2>2, <2>3 DEF ShiftsUp
  <2>5. ~(ack_ctr < AckLimit) => acks = AckLimit
    BY <1>1 DEF GearInv, CounterInv, AckLimit
  <2> QED BY <2>4, <2>5
<1> QED BY <1>1, <1>2, <1>4, <1>10, <1>11, <1>12, <1>13, <1>14 DEF GearInv

-----------------------------------------------------------------------------
(* The theorems *)

\* The other steps change neither counter, or clear both.
LEMMA OtherSteps ==
    ASSUME GearInv, IdleAck \/ HostSendData \/ BeginSending
    PROVE  GearInv' /\ (mode_ptr' = mode_ptr \/ (mode_ptr' = 0 /\ heard'.k = "NONE"))
<1>1. /\ tx \in Nat /\ outstanding \in 0..tx /\ mode_ptr \in Ladder
      /\ \A m \in Ladder, l \in Nat : Bounded(l, Cap[m]) \in 0..l
  <2>1. \A m \in Ladder : Cap[m] \in Nat
    BY TableAssumption
  <2> QED BY <2>1 DEF GearInv, TypeOK, Bounded
<1>2. CASE IdleAck
  <2>1. outstanding' \in 0..tx /\ tx' = tx
    BY <1>1, <1>2 DEF IdleAck, SendNext
  <2> QED BY <1>2, <2>1 DEF GearInv, TypeOK, CounterInv, IdleAck
<1>3. CASE HostSendData
  <2>1. outstanding' \in 0..tx' /\ tx' \in Nat
    BY <1>1, <1>3 DEF HostSendData
  <2> QED BY <1>3, <2>1 DEF GearInv, TypeOK, CounterInv, HostSendData
<1>4. CASE BeginSending
  <2>1. 0 \in Ladder
    BY LadderAssumption DEF Ladder
  <2>2. outstanding' \in 0..tx /\ tx' = tx
    BY <1>1, <1>4, <2>1 DEF BeginSending, SendNext
  <2>3. /\ mode_ptr' = 0 /\ avg_quality' = 0 /\ ack_ctr' = 0 /\ nak_ctr' = 0
        /\ has_worked' = {} /\ been_tried' = {} /\ acks' = 0 /\ naks' = 0
        /\ heard' = [k |-> "NONE", q |-> 0]
    BY <1>4 DEF BeginSending, Set, Start
  <2> QED BY <1>1, <2>1, <2>2, <2>3
          DEF GearInv, TypeOK, CounterInv, AckLimit, NakLimit
<1> QED BY <1>2, <1>3, <1>4

\* GearInv holds at the start of every session.
LEMMA InitGear == Init => GearInv
BY LadderAssumption
   DEF Init, GearInv, TypeOK, CounterInv, Ladder, AckLimit, NakLimit

\* GearInv is inductive.
LEMMA StepGear == GearInv /\ [Next]_vars => GearInv'
<1> SUFFICES ASSUME GearInv, [Next]_vars PROVE GearInv'
  OBVIOUS
<1>1. CASE Answer
  BY <1>1, AckStep, NakStep DEF Answer
<1>2. CASE IdleAck \/ HostSendData \/ BeginSending
  BY <1>2, OtherSteps
<1>3. CASE UNCHANGED vars
  BY <1>3 DEF GearInv, TypeOK, CounterInv, vars
<1> QED BY <1>1, <1>2, <1>3 DEF Next

\* mode_ptr always names a mode of the ladder, although apply_shift() clamps one
\* past it, and a frame never claims more bytes than the queue holds.
THEOREM GearTypes == Spec => []TypeOK
<1>1. Spec => []GearInv
  BY InitGear, StepGear, PTL DEF Spec
<1>2. GearInv => TypeOK
  BY DEF GearInv
<1> QED BY <1>1, <1>2, PTL

\* A shift down answers a NAK, and leaves a mode that has worked only after two
\* in a row.
THEOREM DownCorrect == Spec => DownOnlyOnNaks
<1>1. GearInv /\ [Next]_vars =>
        [mode_ptr' = mode_ptr - 1 /\ heard'.k # "NONE" =>
             /\ heard'.k = "NAK"
             /\ mode_ptr \in has_worked => naks' = NakLimit]_vars
  <2> SUFFICES ASSUME GearInv, Next, mode_ptr' = mode_ptr - 1, heard'.k # "NONE"
               PROVE  /\ heard'.k = "NAK"
                      /\ mode_ptr \in has_worked => naks' = NakLimit
    OBVIOUS
  <2>1. mode_ptr \in Int
    BY LadderAssumption DEF GearInv, TypeOK, Ladder
  <2>2. CASE \E q \in Qualities : DataAck(q)
    BY <2>1, <2>2, AckStep
  <2>3. CASE \E q \in Qualities : DataNak(q)
    BY <2>3, NakStep
  <2>4. CASE IdleAck \/ HostSendData \/ BeginSending
    BY <2>1, <2>4, OtherSteps
  <2> QED BY <2>2, <2>3, <2>4 DEF Next, Answer
<1>2. Spec => []GearInv
  BY InitGear, StepGear, PTL DEF Spec
<1> QED BY <1>1, <1>2, PTL DEF Spec, DownOnlyOnNaks

\* A mode that was tried and never worked is not retried before five ACKs in a
\* row.
THEOREM RetryCorrect == Spec => RetryAfterFive
<1>1. GearInv /\ [Next]_vars =>
        [mode_ptr' = mode_ptr + 1 /\ mode_ptr' \in been_tried
             /\ mode_ptr' \notin has_worked =>
           acks = AckLimit \/ acks' = AckLimit]_vars
  <2> SUFFICES ASSUME GearInv, Next, mode_ptr' = mode_ptr + 1,
                      mode_ptr' \in been_tried, mode_ptr' \notin has_worked
               PROVE  acks = AckLimit \/ acks' = AckLimit
    OBVIOUS
  <2>1. mode_ptr \in Nat
    BY LadderAssumption DEF GearInv, TypeOK, Ladder
  <2>2. CASE Answer
    BY <2>2, AckStep, NakStep DEF Answer
  <2>3. CASE IdleAck \/ HostSendData \/ BeginSending
    BY <2>1, <2>3, OtherSteps
  <2> QED BY <2>2, <2>3 DEF Next
<1>2. Spec => []GearInv
  BY InitGear, StepGear, PTL DEF Spec
<1> QED BY <1>1, <1>2, PTL DEF Spec, RetryAfterFive

\* The pointer moves one rung at a time, and up only if the data left does not
\* fit the current mode: what Link.tla takes gearshift() to be.
THEOREM RungCorrect == Spec => OneRung
<1>1. GearInv /\ [Next]_vars =>
        [\/ mode_ptr' \in {mode_ptr, mode_ptr - 1}
         \/ mode_ptr' = mode_ptr + 1 /\ tx' > Cap[mode_ptr]
         \/ heard'.k = "NONE" /\ mode_ptr' = 0]_vars
  BY AckStep, NakStep, OtherSteps DEF Next, Answer
<1>2. Spec => []GearInv
  BY InitGear, StepGear, PTL DEF Spec
<1> QED BY <1>1, <1>2, PTL DEF Spec, OneRung

-----------------------------------------------------------------------------
(* Busy. *)

BsyStruct ==
    [det : BsyDets, width : BsyWidths, range : BsyWidths \cup {0},
     on : 0..(BsyConfirm + 1), off : 0..BsyConfirm, since : 0..(BsyWord - 1),
     busy : BOOLEAN, idle : BOOLEAN, calm : BOOLEAN, heard : Seq(BOOLEAN),
     age : 0..(BsyHold + 2)]

\* The counters never exceed the runs of equal verdicts they stand for.
Counted(on, off, h) ==
    /\ Len(h) <= BsyConfirm
    /\ on <= Len(h) \/ Len(h) = BsyConfirm
    /\ off <= Len(h)
    /\ \A i \in 1..Len(h) : i > Len(h) - on => h[i] = TRUE
    /\ \A i \in 1..Len(h) : i > Len(h) - off => h[i] = FALSE

\* As long as the hold runs the clock shows the time since the last trip; it
\* has wrapped only when the hold has long been over.
Timed(b) == b.age <= BsyHold + 1 => b.since = b.age

BsyInv == bsy \in BsyStruct /\ Counted(bsy.on, bsy.off, bsy.heard) /\ Timed(bsy)

-----------------------------------------------------------------------------
(* One window *)

\* What feed_busy remembers of its verdicts.
Remembered(h, t) ==
    IF Len(Append(h, t)) > BsyConfirm THEN Tail(Append(h, t)) ELSE Append(h, t)

LEMMA RememberedIs ==
    ASSUME NEW h \in Seq(BOOLEAN), NEW t \in BOOLEAN, Len(h) <= BsyConfirm
    PROVE  /\ Remembered(h, t) \in Seq(BOOLEAN)
           /\ Len(Remembered(h, t)) = IF Len(h) < BsyConfirm THEN Len(h) + 1 ELSE BsyConfirm
           /\ \A i \in 1..Len(Remembered(h, t)) :
                Remembered(h, t)[i] =
                    IF i = Len(Remembered(h, t)) THEN t
                    ELSE h[i + Len(h) - Len(Remembered(h, t)) + 1]
<1> DEFINE a == Append(h, t)
<1>1. /\ a \in Seq(BOOLEAN) /\ Len(a) = Len(h) + 1 /\ Len(h) \in Nat
      /\ a[Len(h) + 1] = t /\ \A i \in 1..Len(h) : a[i] = h[i]
  BY AppendProperties, LenProperties
<1>2. CASE Len(h) < BsyConfirm
  <2>1. Remembered(h, t) = a
    BY <1>1, <1>2, BsyConfirmAssumption DEF Remembered
  <2> HIDE DEF a
  <2> QED BY <1>1, <1>2, <2>1, BsyConfirmAssumption
<1>3. CASE Len(h) = BsyConfirm
  <2>1. Remembered(h, t) = Tail(a)
    BY <1>1, <1>3, BsyConfirmAssumption DEF Remembered
  <2>2. a # <<>>
    BY <1>1
  <2>3. /\ Tail(a) \in Seq(BOOLEAN) /\ Len(Tail(a)) = Len(a) - 1
        /\ \A i \in 1..Len(Tail(a)) : Tail(a)[i] = a[i + 1]
    BY <1>1, <2>2, HeadTailProperties
  <2> HIDE DEF a
  <2> QED BY <1>1, <1>3, <2>1, <2>3, BsyConfirmAssumption
<1> QED BY <1>1, <1>2, <1>3, BsyConfirmAssumption

\* busy_on_count and busy_off_count after a window.
OnAfter(on, t) == IF t THEN (IF on > BsyConfirm THEN on ELSE on + 1) ELSE 0
OffAfter(off, t) == IF t THEN 0 ELSE IF off < BsyConfirm THEN off + 1 ELSE off

LEMMA CountsKept ==
    ASSUME NEW on \in 0..(BsyConfirm + 1), NEW off \in 0..BsyConfirm,
           NEW h \in Seq(BOOLEAN), NEW t \in BOOLEAN, Counted(on, off, h)
    PROVE  /\ OnAfter(on, t) \in 0..(BsyConfirm + 1)
           /\ OffAfter(off, t) \in 0..BsyConfirm
           /\ Remembered(h, t) \in Seq(BOOLEAN)
           /\ Counted(OnAfter(on, t), OffAfter(off, t), Remembered(h, t))
<1> DEFINE r == Remembered(h, t)
<1>1. Len(h) \in Nat /\ Len(h) <= BsyConfirm
  BY LenProperties DEF Counted
<1>2. /\ r \in Seq(BOOLEAN)
      /\ Len(r) = IF Len(h) < BsyConfirm THEN Len(h) + 1 ELSE BsyConfirm
      /\ \A i \in 1..Len(r) :
            r[i] = IF i = Len(r) THEN t ELSE h[i + Len(h) - Len(r) + 1]
  BY <1>1, RememberedIs
<1>b. r \in Seq(BOOLEAN)
  BY <1>2
<1>a. /\ Len(r) \in Nat /\ Len(r) <= BsyConfirm
      /\ Len(r) = Len(h) + 1 \/ (Len(r) = Len(h) /\ Len(h) = BsyConfirm)
  BY <1>1, <1>2, BsyConfirmAssumption
<1> HIDE DEF r
<1>3. OnAfter(on, t) \in 0..(BsyConfirm + 1) /\ OffAfter(off, t) \in 0..BsyConfirm
  BY BsyConfirmAssumption DEF OnAfter, OffAfter
<1>4. CASE t = TRUE
  <2>1. OnAfter(on, t) <= on + 1 /\ OffAfter(off, t) = 0
    BY <1>4 DEF OnAfter, OffAfter
  <2>2. OnAfter(on, t) <= Len(r) \/ Len(r) = BsyConfirm
    BY <1>1, <1>2, <2>1, <1>3, BsyConfirmAssumption DEF Counted
  <2>3. ASSUME NEW i \in 1..Len(r), i > Len(r) - OnAfter(on, t)
        PROVE  r[i] = TRUE
    <3>1. CASE i = Len(r)
      BY <1>2, <1>4, <3>1
    <3>2. CASE i # Len(r)
      <4> DEFINE j == i + Len(h) - Len(r) + 1
      <4>1. j \in 1..Len(h) /\ j > Len(h) - on
        BY <1>1, <1>a, <1>3, <2>1, <2>3, <3>2, BsyConfirmAssumption
      <4>2. h[j] = TRUE
        BY <4>1 DEF Counted
      <4> QED BY <1>2, <3>2, <4>2
    <3> QED BY <3>1, <3>2
  <2>4. /\ OffAfter(off, t) <= Len(r)
        /\ \A i \in 1..Len(r) : i > Len(r) - OffAfter(off, t) => r[i] = FALSE
    BY <1>a, <2>1
  <2>5. Counted(OnAfter(on, t), OffAfter(off, t), r)
    BY <1>a, <2>2, <2>3, <2>4, Zenon DEF Counted
  <2> QED BY <1>b, <1>3, <2>5, Zenon DEF r
<1>5. CASE t = FALSE
  <2>1. OnAfter(on, t) = 0 /\ OffAfter(off, t) <= off + 1
    BY <1>5, BsyConfirmAssumption DEF OnAfter, OffAfter
  <2>2. OffAfter(off, t) <= Len(r)
    BY <1>1, <1>2, <1>3, <2>1, BsyConfirmAssumption DEF Counted
  <2>3. ASSUME NEW i \in 1..Len(r), i > Len(r) - OffAfter(off, t)
        PROVE  r[i] = FALSE
    <3>1. CASE i = Len(r)
      BY <1>2, <1>5, <3>1
    <3>2. CASE i # Len(r)
      <4> DEFINE j == i + Len(h) - Len(r) + 1
      <4>1. j \in 1..Len(h) /\ j > Len(h) - off
        BY <1>1, <1>a, <1>3, <2>1, <2>3, <3>2, BsyConfirmAssumption
      <4>2. h[j] = FALSE
        BY <4>1 DEF Counted
      <4> QED BY <1>2, <3>2, <4>2
    <3> QED BY <3>1, <3>2
  <2>4. /\ OnAfter(on, t) <= Len(r)
        /\ \A i \in 1..Len(r) : i > Len(r) - OnAfter(on, t) => r[i] = TRUE
    BY <1>a, <2>1
  <2>5. Counted(OnAfter(on, t), OffAfter(off, t), r)
    BY <1>a, <2>2, <2>3, <2>4, Zenon DEF Counted
  <2> QED BY <1>b, <1>3, <2>5, Zenon DEF r
<1> QED BY <1>4, <1>5

\* The millisecond clock wraps at its width and nowhere else.
LEMMA ClockWraps ==
    ASSUME NEW n \in 0..(BsyWord - 1)
    PROVE  /\ (n + 1) % BsyWord \in 0..(BsyWord - 1)
           /\ n + 1 < BsyWord => (n + 1) % BsyWord = n + 1
BY BsyClockAssumption

LEMMA TickKept ==
    ASSUME NEW b \in BsyStruct, Timed(b)
    PROVE  /\ BsyTick(b) \in BsyStruct /\ Timed(BsyTick(b))
           /\ BsyTick(b).on = b.on /\ BsyTick(b).off = b.off
           /\ BsyTick(b).heard = b.heard /\ BsyTick(b).busy = b.busy
<1> DEFINE s == (b.since + 1) % BsyWord
           a == BsyLater(b.age)
<1>1. b.since \in 0..(BsyWord - 1) /\ b.age \in 0..(BsyHold + 2)
  BY DEF BsyStruct
<1>2. s \in 0..(BsyWord - 1) /\ (b.since + 1 < BsyWord => s = b.since + 1)
  BY <1>1, ClockWraps
<1>3. a \in 0..(BsyHold + 2) /\ (a <= BsyHold + 1 => a = b.age + 1)
  BY <1>1, BsyClockAssumption DEF BsyLater
<1>4. a <= BsyHold + 1 => s = a
  <2> SUFFICES ASSUME a <= BsyHold + 1 PROVE s = a
    OBVIOUS
  <2>1. a = b.age + 1 /\ b.age <= BsyHold /\ b.since = b.age
    BY <1>1, <1>3, BsyClockAssumption DEF Timed
  <2> HIDE DEF s, a
  <2> QED BY <1>1, <1>2, <2>1, BsyClockAssumption
<1> HIDE DEF s, a
<1>5. BsyTick(b) = [b EXCEPT !.since = s, !.age = a]
  BY DEF BsyTick, s, a
<1> QED BY <1>2, <1>3, <1>4, <1>5 DEF BsyStruct, Timed

LEMMA CountKept ==
    ASSUME NEW b \in BsyStruct, NEW t \in BOOLEAN, Timed(b),
           Counted(b.on, b.off, b.heard)
    PROVE  LET c == BsyCount(b, t) IN
           /\ c \in BsyStruct /\ Timed(c)
           /\ c.heard = b.heard /\ c.busy = b.busy
           /\ c.on = OnAfter(b.on, t) /\ c.off = OffAfter(b.off, t)
<1> DEFINE on == OnAfter(b.on, t)
           off == OffAfter(b.off, t)
           trip == t /\ on > BsyConfirm
           c == [b EXCEPT !.on = on, !.off = off,
                          !.since = IF trip THEN 0 ELSE @,
                          !.age = IF trip THEN 0 ELSE @]
<1>1. on \in 0..(BsyConfirm + 1) /\ off \in 0..BsyConfirm
  BY CountsKept DEF BsyStruct
<1>2. 0 \in 0..(BsyWord - 1) /\ 0 \in 0..(BsyHold + 2)
  BY BsyClockAssumption
<1>3. BsyCount(b, t) = c
  <2>1. CASE t = TRUE
    BY <2>1 DEF BsyCount, BsyStruct, OnAfter, OffAfter
  <2>2. CASE t = FALSE
    BY <2>2 DEF BsyCount, BsyStruct, OnAfter, OffAfter
  <2> QED BY <2>1, <2>2
<1> HIDE DEF on, off, trip
<1>4. c \in BsyStruct /\ Timed(c) /\ c.heard = b.heard /\ c.busy = b.busy
      /\ c.on = on /\ c.off = off
  <2>1. CASE trip
    BY <1>1, <1>2, <2>1 DEF BsyStruct, Timed
  <2>2. CASE ~trip
    BY <1>1, <2>2 DEF BsyStruct, Timed
  <2> QED BY <2>1, <2>2
<1> QED BY <1>3, <1>4 DEF on, off

\* The report, and what it rests on.
LEMMA ReportKept ==
    ASSUME NEW b \in BsyStruct, Timed(b)
    PROVE  LET r == BsyReport(b) IN
           /\ r \in BsyStruct /\ Timed(r)
           /\ r.heard = b.heard /\ r.on = b.on /\ r.off = b.off /\ r.age = b.age
           /\ (~b.busy /\ r.busy) => b.on >= BsyConfirm
           /\ (b.busy /\ ~r.busy) => b.off >= BsyConfirm /\ b.age > BsyHold
<1>1. (b.since > BsyHold) => b.age > BsyHold
  BY BsyClockAssumption DEF BsyStruct, Timed
<1>2. CASE ~b.busy /\ b.on >= BsyConfirm
  BY <1>2 DEF BsyReport, BsyStruct, Timed
<1>3. CASE b.busy /\ b.since > BsyHold /\ b.off >= BsyConfirm
  BY <1>1, <1>3 DEF BsyReport, BsyStruct, Timed
<1>4. CASE ~(~b.busy /\ b.on >= BsyConfirm)
           /\ ~(b.busy /\ b.since > BsyHold /\ b.off >= BsyConfirm)
  BY <1>4 DEF BsyReport
<1> QED BY <1>2, <1>3, <1>4

-----------------------------------------------------------------------------
(* The detector *)

\* What a change of the report has to show.
Evident ==
    bsy'.busy # bsy.busy =>
        /\ Len(bsy'.heard) = BsyConfirm
        /\ \A i \in 1..BsyConfirm : bsy'.heard[i] = bsy'.busy
        /\ ~bsy'.busy => bsy'.age > BsyHold

LEMMA WindowKeeps ==
    ASSUME BsyInv, NEW r, BsyWindow(r)
    PROVE  BsyInv' /\ Evident
<1> DEFINE t == BsyTrips(r)
           k == BsyTick(bsy)
           c == BsyCount(k, t)
           b == BsyReport(c)
           h == Remembered(bsy.heard, t)
<1>1. t \in BOOLEAN
  BY DEF BsyTrips
<1>2. bsy' = [b EXCEPT !.range = bsy.width, !.heard = h]
  BY DEF BsyWindow, Remembered
<1> HIDE DEF t
<1>3. /\ bsy \in BsyStruct /\ Timed(bsy) /\ Counted(bsy.on, bsy.off, bsy.heard)
      /\ bsy.width \in BsyWidths
  BY DEF BsyInv, BsyStruct
<1>4. /\ k \in BsyStruct /\ Timed(k) /\ k.on = bsy.on /\ k.off = bsy.off
      /\ k.heard = bsy.heard /\ k.busy = bsy.busy
  BY <1>3, TickKept
<1>5. /\ c \in BsyStruct /\ Timed(c) /\ c.busy = bsy.busy
      /\ c.on = OnAfter(bsy.on, t) /\ c.off = OffAfter(bsy.off, t)
  BY <1>1, <1>3, <1>4, CountKept
<1>6. /\ b \in BsyStruct /\ Timed(b)
      /\ b.on = c.on /\ b.off = c.off /\ b.age = c.age
      /\ (~c.busy /\ b.busy) => c.on >= BsyConfirm
      /\ (c.busy /\ ~b.busy) => c.off >= BsyConfirm /\ c.age > BsyHold
  BY <1>5, ReportKept
<1>7. h \in Seq(BOOLEAN) /\ Counted(b.on, b.off, h)
  BY <1>1, <1>3, <1>5, <1>6, CountsKept DEF BsyStruct
<1> HIDE DEF b, h
<1>8. bsy' \in BsyStruct /\ bsy'.on = b.on /\ bsy'.off = b.off /\ bsy'.age = b.age
      /\ bsy'.since = b.since /\ bsy'.heard = h /\ bsy'.busy = b.busy
  BY <1>2, <1>3, <1>6, <1>7 DEF BsyStruct
<1>9. BsyInv'
  BY <1>6, <1>7, <1>8 DEF BsyInv, Timed
<1>10. ASSUME b.busy # bsy.busy
       PROVE  /\ Len(h) = BsyConfirm
              /\ \A i \in 1..BsyConfirm : h[i] = b.busy
              /\ ~b.busy => b.age > BsyHold
  <2>1. /\ b.on \in Int /\ b.off \in 0..BsyConfirm /\ Len(h) \in Nat
        /\ b.busy \in BOOLEAN /\ bsy.busy \in BOOLEAN
    BY <1>3, <1>6, <1>7, LenProperties DEF BsyStruct
  <2>2. CASE b.busy = TRUE
    <3>1. b.on >= BsyConfirm
      BY <1>5, <1>6, <1>10, <2>1, <2>2
    <3>2. Len(h) = BsyConfirm
      BY <1>7, <2>1, <3>1, BsyConfirmAssumption DEF Counted
    <3>3. ASSUME NEW i \in 1..BsyConfirm PROVE h[i] = TRUE
      BY <1>7, <2>1, <3>1, <3>2, BsyConfirmAssumption DEF Counted
    <3> QED BY <2>2, <3>2, <3>3
  <2>3. CASE b.busy = FALSE
    <3>1. b.off = BsyConfirm /\ b.age > BsyHold
      BY <1>5, <1>6, <1>10, <2>1, <2>3, BsyConfirmAssumption
    <3>2. Len(h) = BsyConfirm
      BY <1>7, <2>1, <3>1, BsyConfirmAssumption DEF Counted
    <3>3. ASSUME NEW i \in 1..BsyConfirm PROVE h[i] = FALSE
      BY <1>7, <2>1, <3>1, <3>2, BsyConfirmAssumption DEF Counted
    <3> QED BY <2>3, <3>1, <3>2, <3>3
  <2> QED BY <2>1, <2>2, <2>3
<1> QED BY <1>8, <1>9, <1>10 DEF Evident

\* A session: only the clock moves.
LEMMA AwayKeeps ==
    ASSUME BsyInv, BsyAway
    PROVE  BsyInv' /\ bsy'.busy = bsy.busy
<1>1. bsy \in BsyStruct /\ Timed(bsy) /\ bsy' = BsyTick(bsy)
  BY DEF BsyInv, BsyAway
<1> QED BY <1>1, TickKept DEF BsyInv

\* The rest touches neither the counters nor the report.
LEMMA OthersKeep ==
    ASSUME BsyInv, BsyLeave \/ BsyBack \/ BsySet \/ BsyCalm
    PROVE  BsyInv' /\ bsy'.busy = bsy.busy
<1>1. bsy \in BsyStruct
  BY DEF BsyInv
<1>2. /\ bsy' \in BsyStruct /\ bsy'.on = bsy.on /\ bsy'.off = bsy.off
      /\ bsy'.heard = bsy.heard /\ bsy'.age = bsy.age
      /\ bsy'.since = bsy.since /\ bsy'.busy = bsy.busy
  BY <1>1 DEF BsyLeave, BsyBack, BsySet, BsyCalm, BsyStruct
<1> QED BY <1>2 DEF BsyInv, Timed

LEMMA BsyStart == BsyInit => BsyInv
<1> SUFFICES ASSUME BsyInit PROVE BsyInv
  OBVIOUS
<1>1. /\ <<>> \in Seq(BOOLEAN) /\ Len(<<>>) = 0
  BY EmptySeq
<1>2. bsy \in BsyStruct /\ bsy.on = 0 /\ bsy.off = 0 /\ bsy.heard = <<>>
      /\ bsy.age = BsyHold + 2
  BY <1>1, BsyClockAssumption, BsyConfirmAssumption DEF BsyInit, BsyStruct
<1> QED BY <1>1, <1>2, BsyClockAssumption, BsyConfirmAssumption
        DEF BsyInv, Counted, Timed

LEMMA BsyStep ==
    ASSUME BsyInv, [BsyNext]_bsy
    PROVE  BsyInv' /\ [Evident]_bsy
<1>1. CASE BsyQuiet
  BY <1>1, WindowKeeps DEF BsyQuiet
<1>2. CASE BsyAny
  BY <1>2, WindowKeeps DEF BsyAny
<1>3. CASE BsyAway
  BY <1>3, AwayKeeps DEF Evident
<1>4. CASE BsyLeave \/ BsyBack \/ BsySet \/ BsyCalm
  BY <1>4, OthersKeep DEF Evident
<1>5. CASE UNCHANGED bsy
  BY <1>5 DEF BsyInv
<1> QED BY <1>1, <1>2, <1>3, <1>4, <1>5 DEF BsyNext

\* The report is raised only after BsyConfirm busy windows in a row and taken
\* back only after as many quiet ones and a hold time without a confirmed
\* trip, although the clock wraps and runs on through sessions.
THEOREM ReportEvident == BsyInit /\ [][BsyNext]_bsy => BsyEvidence
<1>1. [Evident]_bsy =>
        [BsyRuns /\ bsy'.busy # bsy.busy =>
           /\ Len(bsy'.heard) = BsyConfirm
           /\ \A i \in 1..BsyConfirm : bsy'.heard[i] = bsy'.busy
           /\ ~bsy'.busy => bsy'.age > BsyHold]_bsy
  BY DEF Evident
<1>2. BsyInv /\ [BsyNext]_bsy => BsyInv' /\ [Evident]_bsy
  BY BsyStep
<1> QED BY BsyStart, <1>1, <1>2, PTL DEF BsyEvidence


-----------------------------------------------------------------------------
(* Demod: what the specs are, in samples. *)

DemRec ==
    [st : DemStates, prior : {"none", "low", "high"}, raw : Nat, held : Nat,
     len : Int, top : Nat, ptr : Int, mixed : Nat, since : Nat, f : DemAllSpecs,
     left : Int, symbols : Nat, chars : Nat, trained : BOOLEAN, leaders : Nat,
     frames : Nat, stale : BOOLEAN, budget : Nat]

\* What a field may be set to.
LEMMA DemSetState ==
    ASSUME NEW d \in DemRec
    PROVE  /\ \A v \in DemStates : [d EXCEPT !.st = v] \in DemRec
           /\ \A v \in {"none", "low", "high"} : [d EXCEPT !.prior = v] \in DemRec
           /\ \A v \in DemAllSpecs : [d EXCEPT !.f = v] \in DemRec
           /\ \A v \in BOOLEAN : /\ [d EXCEPT !.trained = v] \in DemRec
                                /\ [d EXCEPT !.stale = v] \in DemRec
BY DEF DemRec

LEMMA DemSetInt ==
    ASSUME NEW d \in DemRec
    PROVE  \A v \in Int : /\ [d EXCEPT !.len = v] \in DemRec
                         /\ [d EXCEPT !.ptr = v] \in DemRec
                         /\ [d EXCEPT !.left = v] \in DemRec
BY DEF DemRec

LEMMA DemSetNat ==
    ASSUME NEW d \in DemRec
    PROVE  \A v \in Nat : /\ [d EXCEPT !.raw = v] \in DemRec
                         /\ [d EXCEPT !.held = v] \in DemRec
                         /\ [d EXCEPT !.top = v] \in DemRec
                         /\ [d EXCEPT !.mixed = v] \in DemRec
                         /\ [d EXCEPT !.since = v] \in DemRec
                         /\ [d EXCEPT !.symbols = v] \in DemRec
                         /\ [d EXCEPT !.chars = v] \in DemRec
                         /\ [d EXCEPT !.leaders = v] \in DemRec
                         /\ [d EXCEPT !.frames = v] \in DemRec
                         /\ [d EXCEPT !.budget = v] \in DemRec
BY DEF DemRec

\* A character's numbers for one modulation and speed.
DemShape(f, need, used, first, bytes, symbols) ==
    /\ DemNeed(f) = need /\ DemUsed(f) = used /\ DemFirst(f) = first
    /\ DemBytes(f) = bytes /\ DemCharSymbols(f) = symbols

\* The six there are.
LEMMA DemShapes ==
    ASSUME NEW f \in DemAllSpecs
    PROVE  \/ f.mod = "4FSK" /\ \/ DemShape(f, 1080, 960, 0, 1, 0)
                                \/ DemShape(f, 540, 480, 0, 1, 0)
                                \/ DemShape(f, 90, 80, 0, 1, 0)
           \/ /\ f.mod = "4PSK" /\ DemShape(f, 720, 480, 1200, 1, 4)
              /\ DemLeft(f) \in {99, 27} /\ DemSamples(f) = 120
           \/ /\ f.mod = "8PSK" /\ DemShape(f, 1440, 960, 2400, 3, 8)
              /\ DemLeft(f) = 147 /\ DemSamples(f) = 120
           \/ /\ f.mod = "16QAM" /\ DemShape(f, 970, 240, 1090, 1, 2)
              /\ DemLeft(f) = 195 /\ DemSamples(f) = 120
<1>1. CASE f.mod = "4FSK"
  <2>1. f.baud \in {50, 100, 600}
    BY <1>1 DEF DemAllSpecs, DemSpecs
  <2>2. DemSamples(f) \in {240, 120, 20}
    BY <2>1 DEF DemSamples
  <2> QED BY <1>1, <2>2 DEF DemShape, DemNeed, DemUsed, DemFirst, DemBytes, DemCharSymbols
<1>2. CASE f.mod # "4FSK"
  <2>1. f \in DemSpecs.data /\ f.baud = 100
    BY <1>2 DEF DemAllSpecs, DemSpecs
  <2>2. DemSamples(f) = 120
    BY <2>1 DEF DemSamples
  <2>3. \/ f.mod = "4PSK" /\ f.data + f.rs \in {96, 24}
        \/ f.mod = "8PSK" /\ f.data + f.rs = 144
        \/ f.mod = "16QAM" /\ f.data + f.rs = 192
    BY <1>2, <2>1 DEF DemSpecs
  <2>4. DemLeft(f) = f.data + f.rs + 3
    BY <1>2, <2>1 DEF DemLeft, DemSix, DemBlockBytes, DemIsData
  <2> QED BY <2>2, <2>3, <2>4
          DEF DemShape, DemNeed, DemUsed, DemFirst, DemBytes, DemCharSymbols, DemMode
<1> QED BY <1>1, <1>2

\* A frame fits the buffers it is decoded into, and one with data has some.
LEMMA DemFrameFits ==
    ASSUME NEW f \in DemAllSpecs
    PROVE  /\ DemBlockBytes(f) + (IF f.mod = "8PSK" THEN 2 ELSE 0) <= DemCarrierBytes
           /\ DemBlocksOf(f) * (IF DemSix(f) THEN 200 ELSE f.data) <= DemPayload
           /\ DemLeft(f) \in Nat /\ (DemShort(f) \/ DemLeft(f) > 0)
<1>1. CASE DemIsData(f)
  BY <1>1 DEF DemAllSpecs, DemSpecs, DemIsData, DemBlockBytes, DemBlocksOf, DemSix, DemLeft,
              DemCarrierBytes, DemPayload
<1>2. CASE ~DemIsData(f)
  BY <1>2 DEF DemAllSpecs, DemSpecs, DemIsData, DemBlockBytes, DemBlocksOf, DemSix, DemLeft,
              DemCarrierBytes, DemPayload, DemShort
<1> QED BY <1>1, <1>2

-----------------------------------------------------------------------------
(* Demod: the inductive invariant. *)

\* A stage reads from the start of the buffer but for the symbol search, which
\* starts after the filter's delay, and the sync search that follows it.
DemPlaced(d) ==
    /\ d.ptr >= 0
    /\ d.st = "SYMBOL" => d.ptr = 30
    /\ d.st = "SYNC" => d.ptr <= d.len
    /\ d.st \in {"TYPE", "FRAME"} => d.ptr = 0

\* In a frame, the characters read account for the bytes and symbols it has.
DemBooked(d) ==
    /\ d.symbols <= DemSymbols
    /\ d.st = "FRAME" => /\ d.left > 0
                         /\ d.chars * DemBytes(d.f) + d.left = DemLeft(d.f)
                         /\ d.symbols = d.chars * DemCharSymbols(d.f)

\* What holds of a block from the mixer on.
DemSound(d) ==
    /\ d \in DemRec /\ ~d.stale /\ d.len >= 0
    /\ d.held <= DemRaw /\ d.mixed <= DemRaw /\ d.top <= DemMixed
    /\ DemPlaced(d) /\ DemBooked(d)

\* Each stage leaves less in the baseband than it would read.
DemTails(d) ==
    /\ d.st = "SYMBOL" => d.len <= 890
    /\ d.st = "SYNC" => d.len < 720 /\ d.ptr = 0
    /\ d.st = "TYPE" => d.len < DemTypeNeeds
    /\ d.st = "FRAME" => \/ d.len < DemNeed(d.f)
                         \/ ~d.trained /\ d.len < DemFirst(d.f)

DemHolds(d) == d.raw < (IF d.st = "LEADER" THEN 1200 ELSE 1024)

DemInv == DemSound(dem) /\ DemTails(dem) /\ DemHolds(dem)

-----------------------------------------------------------------------------
(* Demod: each stage keeps it. *)

\* A read of samples that are there changes nothing.
LEMMA DemUnread ==
    ASSUME NEW d \in DemRec, NEW n \in Int, n <= d.len, ~d.stale
    PROVE  DemRead(d, n) = d
<1>1. (d.stale \/ n > d.len) = FALSE /\ d.stale = FALSE
  BY DEF DemRec
<1>2. DemRead(d, n) = [d EXCEPT !.stale = FALSE]
  BY <1>1 DEF DemRead
<1> QED BY <1>1, <1>2 DEF DemRec

\* The symbol is found within the samples there are, or waited for.
LEMMA DemFramingKeeps ==
    ASSUME NEW d, DemSound(d), d.raw = 0, d.st = "SYMBOL", NEW p \in -1..359, NEW fine \in -2..2
    PROVE  LET r == DemSymbolFraming(d, p, fine)
           IN  /\ DemSound(r) /\ r.raw = 0
               /\ (r.st = "SYMBOL" /\ r.len <= 890) \/ r.st = "SYNC"
<1> DEFINE c == IF d.len < d.ptr + 720 THEN -1 ELSE p
           r == DemSymbolFraming(d, p, fine)
<1>1. d \in DemRec /\ d.len \in Nat /\ d.ptr = 30
  BY DEF DemSound, DemPlaced, DemRec
<1>2. CASE d.len - 30 <= 860
  <2>1. r = d /\ d.len <= 890
    BY <1>1, <1>2 DEF DemSymbolFraming, DemAvail
  <2> QED BY <2>1
<1>3. CASE ~(d.len - 30 <= 860)
  <2>1. c \in Int /\ -1 <= c /\ c <= 359 /\ fine \in Int /\ -2 <= fine /\ fine <= 2
    OBVIOUS
  <2>2. d.ptr + c + 2 + 120 <= d.len /\ ~d.stale
    BY <1>1, <1>3, <2>1 DEF DemSound
  <2> HIDE DEF c
  <2> DEFINE m == DemRead(d, d.ptr + c + 2 + 120)
             place == d.ptr + c + fine
  <2>3. m = d
    BY <1>1, <2>1, <2>2, DemUnread
  <2>4. r = [m EXCEPT !.ptr = m.ptr + c + fine, !.st = "SYNC"]
    BY <1>1, <1>3 DEF DemSymbolFraming, DemAvail, c
  <2> HIDE DEF r, m
  <2>4a. place \in Int /\ place = 30 + c + fine /\ r = [d EXCEPT !.ptr = place, !.st = "SYNC"]
    BY <1>1, <2>1, <2>3, <2>4
  <2> HIDE DEF place
  <2>4b. r \in DemRec
    <3>1. [d EXCEPT !.ptr = place] \in DemRec
      BY <1>1, <2>4a, DemSetInt
    <3>2. "SYNC" \in DemStates
      BY DEF DemStates
    <3> QED BY <2>4a, <3>1, <3>2, DemSetState
  <2>5. r \in DemRec /\ r.raw = 0 /\ r.st = "SYNC" /\ r.ptr = 30 + c + fine /\ r.len = d.len
        /\ r.held = d.held /\ r.mixed = d.mixed /\ r.top = d.top /\ r.symbols = d.symbols
        /\ ~r.stale
    BY <1>1, <2>1, <2>4a, <2>4b DEF DemRec, DemSound
  <2>6. r.ptr >= 0 /\ r.ptr <= r.len
    BY <1>1, <1>3, <2>1, <2>5
  <2> QED BY <2>5, <2>6 DEF DemSound, DemPlaced, DemBooked, r
<1> QED BY <1>1, <1>2, <1>3

\* Compaction keeps what is after the pointer.
LEMMA DemCompacted ==
    ASSUME NEW d \in DemRec, d.len >= 0, d.ptr >= 0
    PROVE  LET r == DemCompact(d)
           IN  /\ r \in DemRec /\ r.ptr = 0
               /\ r.len = (IF d.len < d.ptr THEN 0 ELSE d.len - d.ptr)
               /\ r.st = d.st /\ r.raw = d.raw /\ r.held = d.held /\ r.top = d.top
               /\ r.mixed = d.mixed /\ r.symbols = d.symbols /\ r.stale = d.stale
<1> DEFINE n == IF d.len < d.ptr THEN 0 ELSE d.len - d.ptr
<1>1. n \in Int /\ 0 \in Int
  BY DEF DemRec
<1>2. DemCompact(d) = [d EXCEPT !.len = n, !.ptr = 0]
  BY DEF DemCompact
<1> HIDE DEF n
<1>3. DemCompact(d) \in DemRec
  <2>1. [d EXCEPT !.len = n] \in DemRec
    BY <1>1, DemSetInt
  <2> QED BY <1>1, <1>2, <2>1, DemSetInt
<1> QED BY <1>2, <1>3 DEF DemRec, n

\* To give up is to listen again with empty buffers.
LEMMA DemGivenUp ==
    ASSUME NEW d \in DemRec, d.held <= DemRaw, d.mixed <= DemRaw, d.top <= DemMixed,
           d.symbols <= DemSymbols, ~d.stale
    PROVE  LET r == DemGiveUp(d)
           IN  DemSound(r) /\ r.st = "LEADER" /\ r.raw = d.raw
<1> DEFINE r == DemGiveUp(d)
<1>1. r \in DemRec
  <2>1. 0 \in Int /\ "LEADER" \in DemStates
    BY DEF DemStates
  <2>2. DemClear(d) \in DemRec
    <3>1. [d EXCEPT !.len = 0] \in DemRec
      BY <2>1, DemSetInt
    <3> QED BY <2>1, <3>1, DemSetInt DEF DemClear
  <2> QED BY <2>1, <2>2, DemSetState DEF DemGiveUp
<1>2. /\ r.st = "LEADER" /\ r.raw = d.raw /\ r.len = 0 /\ r.ptr = 0
      /\ r.held = d.held /\ r.mixed = d.mixed /\ r.top = d.top /\ r.symbols = d.symbols
      /\ r.stale = d.stale
  BY DEF DemGiveUp, DemClear, DemRec
<1> HIDE DEF r
<1>3. DemSound(r)
  BY <1>1, <1>2 DEF DemSound, DemPlaced, DemBooked
<1> QED BY <1>2, <1>3 DEF r

\* The sync search leaves fewer than three symbols, or one frame's rest.
LEMMA DemSyncKeeps ==
    ASSUME NEW d, DemSound(d), d.raw = 0, d.st = "SYNC", NEW k \in Nat
    PROVE  LET r == DemFrameSync(d, k)
           IN  /\ DemSound(r) /\ r.raw = 0 /\ r.st \in {"LEADER", "SYNC", "TYPE"}
               /\ r.st = "SYNC" => r.len < 720 /\ r.ptr = 0
<1> DEFINE n == DemAvail(d) \div 240
           moved == IF n < 3 THEN d
                    ELSE IF k \in 1..(n - 2)
                    THEN [d EXCEPT !.ptr = @ + 240 * (k + 2), !.st = "TYPE"]
                    ELSE [d EXCEPT !.ptr = @ + 240 * (n - 2)]
           kept == DemCompact(moved)
           r == DemFrameSync(d, k)
<1>1. d \in DemRec /\ d.len \in Nat /\ d.ptr \in Nat /\ d.ptr <= d.len
  BY DEF DemSound, DemPlaced, DemRec
<1>2. n \in Nat /\ 240 * n <= d.len - d.ptr /\ d.len - d.ptr < 240 * n + 240
  BY <1>1 DEF DemAvail
<1> HIDE DEF n
<1>3. /\ moved \in DemRec /\ moved.ptr \in Nat /\ moved.ptr <= d.len
      /\ moved.st \in {"SYNC", "TYPE"}
      /\ moved.st = "SYNC" => d.len - moved.ptr < 720
      /\ moved.raw = d.raw /\ moved.held = d.held /\ moved.top = d.top /\ moved.len = d.len
      /\ moved.mixed = d.mixed /\ moved.symbols = d.symbols /\ moved.stale = d.stale
  <2>1. CASE n < 3
    BY <1>1, <1>2, <2>1
  <2>2. CASE n >= 3 /\ k \in 1..(n - 2)
    <3> DEFINE to == d.ptr + 240 * (k + 2)
    <3>1. moved = [d EXCEPT !.ptr = to, !.st = "TYPE"]
      BY <1>2, <2>2
    <3>2. to \in Nat /\ to <= d.len /\ to \in Int /\ "TYPE" \in DemStates
      BY <1>1, <1>2, <2>2 DEF DemStates
    <3> HIDE DEF moved, to
    <3>3. moved \in DemRec
      <4>1. [d EXCEPT !.ptr = to] \in DemRec
        BY <1>1, <3>2, DemSetInt
      <4> QED BY <3>1, <3>2, <4>1, DemSetState
    <3> QED BY <1>1, <3>1, <3>2, <3>3 DEF DemRec
  <2>3. CASE n >= 3 /\ ~(k \in 1..(n - 2))
    <3>1. moved = [d EXCEPT !.ptr = @ + 240 * (n - 2)]
      BY <1>2, <2>3
    <3>2. d.ptr + 240 * (n - 2) \in Nat /\ d.ptr + 240 * (n - 2) <= d.len
          /\ d.len - (d.ptr + 240 * (n - 2)) < 720
      BY <1>1, <1>2, <2>3
    <3> HIDE DEF moved
    <3> QED BY <1>1, <3>1, <3>2 DEF DemRec
  <2> QED BY <1>2, <2>1, <2>2, <2>3
<1> HIDE DEF moved
<1>4. /\ kept \in DemRec /\ kept.ptr = 0 /\ kept.len = d.len - moved.ptr
      /\ kept.st = moved.st /\ kept.raw = d.raw /\ kept.held = d.held /\ kept.top = d.top
      /\ kept.mixed = d.mixed /\ kept.symbols = d.symbols /\ kept.stale = d.stale
  <2>1. moved.len = d.len /\ moved.len >= 0 /\ moved.ptr >= 0 /\ ~(moved.len < moved.ptr)
    BY <1>1, <1>3
  <2> QED BY <1>3, <2>1, DemCompacted
<1> HIDE DEF kept
<1>5. /\ kept.held <= DemRaw /\ kept.mixed <= DemRaw /\ kept.top <= DemMixed
      /\ kept.symbols <= DemSymbols /\ ~kept.stale /\ kept.raw = 0
  BY <1>4 DEF DemSound, DemBooked
<1>6. DemSound(kept)
  <2>1. kept.len >= 0
    BY <1>1, <1>3, <1>4
  <2>2. kept.st \in {"SYNC", "TYPE"}
    BY <1>3, <1>4
  <2> QED BY <1>4, <1>5, <2>1, <2>2 DEF DemSound, DemPlaced, DemBooked
<1>7. r = IF d.since > DemSyncLimit THEN DemGiveUp(kept) ELSE kept
  BY DEF DemFrameSync, kept, moved, n
<1>8. DemSound(DemGiveUp(kept)) /\ DemGiveUp(kept).st = "LEADER" /\ DemGiveUp(kept).raw = 0
  BY <1>4, <1>5, DemGivenUp
<1> HIDE DEF r
<1>9. DemSound(r) /\ r.raw = 0 /\ r.st \in {"LEADER", "SYNC", "TYPE"}
      /\ (r.st = "SYNC" => r.len < 720 /\ r.ptr = 0)
  BY <1>3, <1>4, <1>5, <1>6, <1>7, <1>8
<1> QED BY <1>9 DEF r

\* The report of a frame.
LEMMA DemReported ==
    ASSUME NEW d, DemSound(d), d.st = "LEADER"
    PROVE  LET r == [d EXCEPT !.frames = 1]
           IN  DemSound(r) /\ r.st = "LEADER" /\ r.raw = d.raw
<1> DEFINE r == [d EXCEPT !.frames = 1]
<1>1. d \in DemRec /\ 1 \in Nat
  BY DEF DemSound
<1>2. r \in DemRec
  BY <1>1, DemSetNat
<1>3. /\ r.st = "LEADER" /\ r.raw = d.raw /\ r.len = d.len /\ r.ptr = d.ptr
      /\ r.held = d.held /\ r.mixed = d.mixed /\ r.top = d.top /\ r.symbols = d.symbols
      /\ r.stale = d.stale
  BY <1>1 DEF DemRec
<1> HIDE DEF r
<1>4. DemSound(r)
  BY <1>2, <1>3 DEF DemSound, DemPlaced, DemBooked
<1> QED BY <1>3, <1>4 DEF r
\* The type is read when it is there with half a symbol more, which is also
\* what the training symbol of a PSK frame takes.
LEMMA DemTypeKeeps ==
    ASSUME NEW d, DemSound(d), d.raw = 0, d.st = "TYPE",
           NEW f \in DemAllSpecs, NEW poor \in BOOLEAN
    PROVE  LET r == DemFrameType(d, f, poor)
           IN  /\ DemSound(r) /\ r.raw = 0 /\ r.st \in {"LEADER", "TYPE", "FRAME"}
               /\ r.st = "TYPE" => r.len < DemTypeNeeds
<1> DEFINE r == DemFrameType(d, f, poor)
           past == [d EXCEPT !.ptr = 2400]
           rest == DemCompact(past)
<1>1. /\ d \in DemRec /\ d.len \in Nat /\ d.ptr = 0 /\ ~d.stale
      /\ d.held <= DemRaw /\ d.mixed <= DemRaw /\ d.top <= DemMixed
      /\ d.symbols <= DemSymbols
  BY DEF DemSound, DemPlaced, DemRec, DemBooked
<1>2. CASE d.len < 2520
  <2>1. r = d
    BY <1>1, <1>2 DEF DemFrameType, DemAvail, DemTypeNeeds
  <2> QED BY <1>2, <2>1 DEF DemTypeNeeds
<1>3. CASE ~(d.len < 2520)
  <2>1. DemRead(d, d.ptr + 2400) = d
    <3>1. d.ptr + 2400 \in Int /\ d.ptr + 2400 <= d.len
      BY <1>1, <1>3
    <3> QED BY <1>1, <3>1, DemUnread
  <2>2. past \in DemRec /\ [d EXCEPT !.ptr = @ + 2400] = past
    <3>1. d.ptr + 2400 = 2400 /\ 2400 \in Int
      BY <1>1
    <3>2. past \in DemRec
      BY <1>1 DEF DemRec
    <3> QED BY <3>1, <3>2
  <2>3. /\ past.ptr = 2400 /\ past.len = d.len /\ past.st = d.st /\ past.raw = d.raw
        /\ past.held = d.held /\ past.top = d.top /\ past.mixed = d.mixed
        /\ past.symbols = d.symbols /\ past.stale = d.stale
    BY <1>1 DEF DemRec
  <2> HIDE DEF past
  <2>4. /\ rest \in DemRec /\ rest.ptr = 0 /\ rest.len = d.len - 2400 /\ rest.raw = 0
        /\ rest.held = d.held /\ rest.top = d.top /\ rest.mixed = d.mixed
        /\ rest.symbols = d.symbols /\ rest.stale = d.stale
    <3>1. past.len >= 0 /\ past.ptr >= 0 /\ ~(past.len < past.ptr)
      BY <1>1, <1>3, <2>3
    <3> QED BY <2>2, <2>3, <3>1, DemCompacted
  <2> HIDE DEF rest
  <2>5. DemRead(rest, 120) = rest
    <3>1. 120 \in Int /\ 120 <= rest.len /\ ~rest.stale
      BY <1>1, <1>3, <2>4
    <3> QED BY <2>4, <3>1, DemUnread
  <2>6. CASE poor
    <3>1. r = DemGiveUp(d)
      BY <1>1, <1>3, <2>1, <2>6 DEF DemFrameType, DemAvail, DemTypeNeeds
    <3>2. DemSound(DemGiveUp(d)) /\ DemGiveUp(d).st = "LEADER" /\ DemGiveUp(d).raw = 0
      BY <1>1, DemGivenUp
    <3> QED BY <3>1, <3>2
  <2>7. CASE ~poor /\ DemShort(f)
    <3>1. r = [DemGiveUp(rest) EXCEPT !.frames = 1]
      BY <1>1, <1>3, <2>1, <2>2, <2>7 DEF DemFrameType, DemAvail, DemTypeNeeds, rest
    <3>2. /\ rest.held <= DemRaw /\ rest.mixed <= DemRaw /\ rest.top <= DemMixed
          /\ rest.symbols <= DemSymbols /\ ~rest.stale
      BY <1>1, <2>4
    <3>3. DemSound(DemGiveUp(rest)) /\ DemGiveUp(rest).st = "LEADER" /\ DemGiveUp(rest).raw = 0
      BY <2>4, <3>2, DemGivenUp
    <3>4. DemSound(r) /\ r.st = "LEADER" /\ r.raw = 0
      BY <3>1, <3>3, DemReported
    <3> QED BY <3>4
  <2>8. CASE ~poor /\ ~DemShort(f)
    <3>1. r = [rest EXCEPT !.st = "FRAME", !.f = f, !.left = DemLeft(f), !.symbols = 0,
                           !.chars = 0, !.trained = FALSE]
      <4> DEFINE read == DemRead(d, d.ptr + 2400)
                 left == DemCompact([read EXCEPT !.ptr = @ + 2400])
                 t == IF f.mod = "4FSK" THEN left ELSE DemRead(left, 120)
      <4>1. ~(DemAvail(d) < DemTypeNeeds)
        BY <1>1, <1>3 DEF DemAvail, DemTypeNeeds
      <4>2. r = [t EXCEPT !.st = "FRAME", !.f = f, !.left = DemLeft(f), !.symbols = 0,
                          !.chars = 0, !.trained = FALSE]
        BY <2>8, <4>1, SMTT(20) DEF DemFrameType
      <4>3. read = d
        BY <2>1
      <4> HIDE DEF read, r
      <4>4. left = rest
        BY <2>2, <4>3 DEF rest
      <4> HIDE DEF left
      <4>5. t = rest
        BY <2>5, <4>4
      <4> HIDE DEF t
      <4> QED BY <4>2, <4>5
    <3>2. DemLeft(f) \in Nat /\ DemLeft(f) > 0
      BY <2>8, DemFrameFits
    <3> HIDE DEF r
    <3>3. r \in DemRec
      <4> DEFINE a == [rest EXCEPT !.st = "FRAME"]
                 b == [a EXCEPT !.f = f]
                 c == [b EXCEPT !.left = DemLeft(f)]
                 e == [c EXCEPT !.symbols = 0]
                 g == [e EXCEPT !.chars = 0]
      <4>1. "FRAME" \in DemStates /\ DemLeft(f) \in Int /\ 0 \in Nat /\ FALSE \in BOOLEAN
        BY <3>2 DEF DemStates
      <4>2. a \in DemRec
        BY <2>4, <4>1 DEF DemRec
      <4> HIDE DEF a
      <4>3. b \in DemRec
        BY <4>2, DemSetState
      <4> HIDE DEF b
      <4>4. c \in DemRec
        BY <4>1, <4>3, DemSetInt
      <4> HIDE DEF c
      <4>5. e \in DemRec
        BY <4>1, <4>4, DemSetNat
      <4> HIDE DEF e
      <4>6. g \in DemRec
        BY <4>1, <4>5, DemSetNat
      <4> HIDE DEF g
      <4>7. [g EXCEPT !.trained = FALSE] \in DemRec
        BY <4>1, <4>6, DemSetState
      <4> QED BY <3>1, <4>7 DEF a, b, c, e, g
    <3>4. /\ r.st = "FRAME" /\ r.f = f /\ r.left = DemLeft(f) /\ r.symbols = 0 /\ r.chars = 0
          /\ r.ptr = 0 /\ r.len = d.len - 2400 /\ r.raw = 0 /\ r.held = d.held
          /\ r.top = d.top /\ r.mixed = d.mixed /\ r.stale = d.stale
      BY <2>4, <3>1 DEF DemRec
    <3>5. 0 * DemBytes(f) = 0 /\ 0 * DemCharSymbols(f) = 0 /\ 0 <= DemSymbols
      <4>1. DemBytes(f) \in Nat /\ DemCharSymbols(f) \in Nat
        BY DemShapes DEF DemShape
      <4> QED BY <4>1 DEF DemSymbols
    <3>6. DemBooked(r)
      BY <3>2, <3>4, <3>5 DEF DemBooked
    <3>7. DemPlaced(r) /\ r.len >= 0
      BY <1>1, <1>3, <3>4 DEF DemPlaced
    <3>8. r.held <= DemRaw /\ r.mixed <= DemRaw /\ r.top <= DemMixed /\ ~r.stale
      BY <1>1, <3>4
    <3>9. DemSound(r) /\ r.raw = 0 /\ r.st = "FRAME"
      BY <3>3, <3>4, <3>6, <3>7, <3>8 DEF DemSound
    <3> QED BY <3>9 DEF r
  <2> QED BY <2>6, <2>7, <2>8
<1> QED BY <1>2, <1>3

\* A block gives the characters it holds, but no more than are left: all that
\* come fit the symbols of a carrier, and no sample is read twice.
LEMMA DemCharacters ==
    ASSUME NEW f \in DemAllSpecs, NEW len \in Nat, NEW left \in Nat, NEW chars \in Nat,
           left > 0, chars * DemBytes(f) + left = DemLeft(f),
           NEW can \in Nat,
           \/ can = 0
           \/ /\ len >= DemNeed(f)
              /\ can = 1 + ((len - DemNeed(f)) \div DemUsed(f)),
           NEW k \in Nat, k <= can, k * DemBytes(f) < left + DemBytes(f),
           k = can \/ k * DemBytes(f) >= left
    PROVE  /\ k * DemUsed(f) \in Nat /\ k * DemUsed(f) <= len
           /\ k * DemBytes(f) \in Nat /\ k * DemCharSymbols(f) \in Nat
           /\ (chars + k) * DemBytes(f) + (left - k * DemBytes(f)) = DemLeft(f)
           /\ (chars + k) * DemCharSymbols(f)
                = chars * DemCharSymbols(f) + k * DemCharSymbols(f)
           /\ (chars + k) * DemCharSymbols(f) <= DemSymbols
           /\ left - k * DemBytes(f) > 0 => k = can
           /\ k = can /\ can # 0 => len - k * DemUsed(f) < DemNeed(f)
<1>1. CASE f.mod = "4FSK"
  <2>1. DemBytes(f) = 1 /\ DemCharSymbols(f) = 0
    BY <1>1, DemShapes DEF DemShape
  <2>2. \/ DemNeed(f) = 1080 /\ DemUsed(f) = 960
        \/ DemNeed(f) = 540 /\ DemUsed(f) = 480
        \/ DemNeed(f) = 90 /\ DemUsed(f) = 80
    BY <1>1, DemShapes DEF DemShape
  <2>3. /\ k * DemUsed(f) \in Nat /\ k * DemUsed(f) <= len
        /\ k = can /\ can # 0 => len - k * DemUsed(f) < DemNeed(f)
    <3>1. CASE DemNeed(f) = 1080 /\ DemUsed(f) = 960
      BY <3>1
    <3>2. CASE DemNeed(f) = 540 /\ DemUsed(f) = 480
      BY <3>2
    <3>3. CASE DemNeed(f) = 90 /\ DemUsed(f) = 80
      BY <3>3
    <3> QED BY <2>2, <3>1, <3>2, <3>3
  <2> QED BY <2>1, <2>3 DEF DemSymbols
<1>2. CASE f.mod = "4PSK"
  <2>1. /\ DemBytes(f) = 1 /\ DemCharSymbols(f) = 4 /\ DemNeed(f) = 720 /\ DemUsed(f) = 480
        /\ DemLeft(f) \in {99, 27}
    BY <1>2, DemShapes DEF DemShape
  <2> QED BY <2>1 DEF DemSymbols
<1>3. CASE f.mod = "8PSK"
  <2>1. /\ DemBytes(f) = 3 /\ DemCharSymbols(f) = 8 /\ DemNeed(f) = 1440 /\ DemUsed(f) = 960
        /\ DemLeft(f) = 147
    BY <1>3, DemShapes DEF DemShape
  <2> QED BY <2>1 DEF DemSymbols
<1>4. CASE f.mod = "16QAM"
  <2>1. /\ DemBytes(f) = 1 /\ DemCharSymbols(f) = 2 /\ DemNeed(f) = 970 /\ DemUsed(f) = 240
        /\ DemLeft(f) = 195
    BY <1>4, DemShapes DEF DemShape
  <2> QED BY <2>1 DEF DemSymbols
<1> QED BY <1>1, <1>2, <1>3, <1>4, DemShapes
\* The training symbol is read, and passed over, when the buffer holds it and a
\* good deal more.
LEMMA DemTrainKeeps ==
    ASSUME NEW d, DemSound(d), d.raw = 0, d.st = "FRAME"
    PROVE  LET t == DemTrain(d)
           IN  /\ DemSound(t) /\ t.raw = 0 /\ t.st = "FRAME" /\ t.f = d.f
               /\ t.f.mod = "4FSK" \/ t.trained \/ t.len < DemFirst(t.f)
<1> DEFINE t == DemTrain(d)
           n == d.len - DemSamples(d.f)
<1>1. d \in DemRec /\ d.len \in Nat /\ ~d.stale /\ d.f \in DemAllSpecs
  BY DEF DemSound, DemRec
<1>2. CASE d.trained \/ d.f.mod = "4FSK" \/ d.len < DemFirst(d.f)
  BY <1>2 DEF DemTrain
<1>3. CASE ~(d.trained \/ d.f.mod = "4FSK" \/ d.len < DemFirst(d.f))
  <2>1. DemFirst(d.f) \in {1200, 2400, 1090} /\ DemSamples(d.f) = 120
    BY <1>1, <1>3, DemShapes DEF DemShape
  <2>2. DemRead(d, 120) = d
    <3>1. 120 \in Int /\ 120 <= d.len
      BY <1>1, <1>3, <2>1
    <3> QED BY <1>1, <3>1, DemUnread
  <2>3. t = [d EXCEPT !.len = n, !.trained = TRUE]
    <3> DEFINE read == DemRead(d, 120)
    <3>1. t = [read EXCEPT !.len = @ - DemSamples(d.f), !.trained = TRUE]
      BY <1>3 DEF DemTrain
    <3> HIDE DEF t, read
    <3> QED BY <2>2, <3>1 DEF read
  <2>4. n \in Int /\ n >= 0
    BY <1>1, <1>3, <2>1
  <2> HIDE DEF t, n
  <2>5. t \in DemRec
    <3> DEFINE s == [d EXCEPT !.len = n]
    <3>1. s \in DemRec
      BY <1>1, <2>4 DEF DemRec
    <3>2. t = [s EXCEPT !.trained = TRUE]
      BY <2>3
    <3> HIDE DEF s
    <3> QED BY <3>1, <3>2 DEF DemRec
  <2>6. /\ t.len = n /\ t.trained /\ t.ptr = d.ptr /\ t.st = d.st /\ t.f = d.f /\ t.raw = 0
        /\ t.held = d.held /\ t.mixed = d.mixed /\ t.top = d.top /\ t.stale = d.stale
        /\ t.symbols = d.symbols /\ t.chars = d.chars /\ t.left = d.left
    BY <1>1, <2>3 DEF DemRec
  <2>7. DemSound(t)
    BY <2>4, <2>5, <2>6 DEF DemSound, DemPlaced, DemBooked
  <2> QED BY <2>6, <2>7 DEF t
<1> QED BY <1>2, <1>3

\* The characters of a block are read within what the buffer holds, the last
\* of a frame with all the symbols counted.
LEMMA DemStreamKeeps ==
    ASSUME NEW d, DemSound(d), d.raw = 0, d.st = "FRAME"
    PROVE  DemSound(DemStream(d)) /\ DemTails(DemStream(d)) /\ DemHolds(DemStream(d))
<1> DEFINE t == DemTrain(d)
           f == t.f
           ready == f.mod = "4FSK" \/ t.trained
           can == IF ~ready \/ t.len < DemNeed(f) THEN 0
                  ELSE 1 + ((t.len - DemNeed(f)) \div DemUsed(f))
           want == (t.left + DemBytes(f) - 1) \div DemBytes(f)
           k == IF can < want THEN can ELSE want
           s == [DemRead(t, k * DemUsed(f)) EXCEPT
                    !.len = @ - k * DemUsed(f), !.left = @ - k * DemBytes(f),
                    !.symbols = @ + k * DemCharSymbols(f), !.chars = @ + k]
           r == DemStream(d)
<1>1. r = IF s.left <= 0 THEN DemDeliver(s) ELSE s
  BY DEF DemStream
<1> HIDE DEF r
<1>2. /\ DemSound(t) /\ t.raw = 0 /\ t.st = "FRAME"
      /\ f.mod = "4FSK" \/ t.trained \/ t.len < DemFirst(f)
  BY DemTrainKeeps
<1> HIDE DEF t
<1>3. /\ t \in DemRec /\ t.len \in Nat /\ t.ptr = 0 /\ ~t.stale /\ f \in DemAllSpecs
      /\ t.left \in Nat /\ t.left > 0 /\ t.chars \in Nat /\ t.symbols \in Nat
      /\ t.chars * DemBytes(f) + t.left = DemLeft(f)
      /\ t.symbols = t.chars * DemCharSymbols(f)
      /\ t.held <= DemRaw /\ t.mixed <= DemRaw /\ t.top <= DemMixed
  BY <1>2 DEF DemSound, DemRec, DemPlaced, DemBooked
<1>4. can \in Nat /\ \/ can = 0
                     \/ /\ t.len >= DemNeed(f)
                        /\ can = 1 + ((t.len - DemNeed(f)) \div DemUsed(f))
  <2>1. DemNeed(f) \in Nat /\ DemUsed(f) \in {960, 480, 80, 240}
    BY <1>3, DemShapes DEF DemShape
  <2>2. CASE ~ready \/ t.len < DemNeed(f)
    BY <2>2
  <2>3. CASE ~(~ready \/ t.len < DemNeed(f))
    <3>1. can = 1 + ((t.len - DemNeed(f)) \div DemUsed(f)) /\ t.len >= DemNeed(f)
      BY <1>3, <2>1, <2>3
    <3>2. (t.len - DemNeed(f)) \div DemUsed(f) \in Nat
      BY <1>3, <2>1, <3>1
    <3> HIDE DEF can
    <3> QED BY <3>1, <3>2
  <2> QED BY <2>2, <2>3
<1>5. can = 0 => ~ready \/ t.len < DemNeed(f)
  <2>1. DemNeed(f) \in Nat /\ DemUsed(f) \in {960, 480, 80, 240}
    BY <1>3, DemShapes DEF DemShape
  <2> SUFFICES ASSUME ready, ~(t.len < DemNeed(f)) PROVE can # 0
    OBVIOUS
  <2>2. (t.len - DemNeed(f)) \div DemUsed(f) \in Nat
    BY <1>3, <2>1
  <2> QED BY <2>2
<1> HIDE DEF can
<1>6. /\ k \in Nat /\ k * DemUsed(f) \in Nat /\ k * DemUsed(f) <= t.len
      /\ k * DemBytes(f) \in Nat /\ k * DemCharSymbols(f) \in Nat
      /\ (t.chars + k) * DemBytes(f) + (t.left - k * DemBytes(f)) = DemLeft(f)
      /\ (t.chars + k) * DemCharSymbols(f)
           = t.chars * DemCharSymbols(f) + k * DemCharSymbols(f)
      /\ (t.chars + k) * DemCharSymbols(f) <= DemSymbols
      /\ t.left - k * DemBytes(f) > 0 => k = can
      /\ k = can /\ can # 0 => t.len - k * DemUsed(f) < DemNeed(f)
  <2>1. DemBytes(f) \in {1, 3}
    BY <1>3, DemShapes DEF DemShape
  <2>2. want \in Nat /\ want * DemBytes(f) < t.left + DemBytes(f)
        /\ want * DemBytes(f) >= t.left
    <3>1. CASE DemBytes(f) = 1
      BY <1>3, <3>1
    <3>2. CASE DemBytes(f) = 3
      BY <1>3, <3>2
    <3> QED BY <2>1, <3>1, <3>2
  <2> HIDE DEF want
  <2>3. k \in Nat /\ k <= can /\ (k = want \/ (k < want /\ k = can))
    BY <1>4, <2>2
  <2> HIDE DEF k
  <2>4. k * DemBytes(f) < t.left + DemBytes(f) /\ (k = can \/ k * DemBytes(f) >= t.left)
    BY <1>3, <2>1, <2>2, <2>3
  <2> HIDE DEF f
  <2> QED BY <1>3, <1>4, <2>3, <2>4, DemCharacters
<1> HIDE DEF k
<1> DEFINE used == k * DemUsed(f)
           bytes == k * DemBytes(f)
           syms == k * DemCharSymbols(f)
<1>7. s = [t EXCEPT !.len = t.len - used, !.left = t.left - bytes,
                    !.symbols = t.symbols + syms, !.chars = t.chars + k]
  <2> DEFINE read == DemRead(t, used)
  <2>1. read = t
    BY <1>3, <1>6, DemUnread
  <2>2. s = [read EXCEPT !.len = @ - used, !.left = @ - bytes,
                         !.symbols = @ + syms, !.chars = @ + k]
    OBVIOUS
  <2> HIDE DEF s, read, used, bytes, syms
  <2> QED BY <2>1, <2>2
<1>8. /\ used \in Nat /\ used <= t.len /\ bytes \in Nat /\ syms \in Nat /\ k \in Nat
      /\ (t.chars + k) * DemBytes(f) + (t.left - bytes) = DemLeft(f)
      /\ (t.chars + k) * DemCharSymbols(f) = t.symbols + syms
      /\ t.symbols + syms <= DemSymbols
      /\ t.left - bytes > 0 => k = can
      /\ k = can /\ can # 0 => t.len - used < DemNeed(f)
      /\ k = 0 => used = 0
  <2>1. DemUsed(f) \in Nat
    BY <1>3, DemShapes DEF DemShape
  <2> QED BY <1>3, <1>6, <2>1
<1> HIDE DEF s, used, bytes, syms
<1>9. s \in DemRec
  <2> DEFINE a == [t EXCEPT !.len = t.len - used]
             b == [a EXCEPT !.left = t.left - bytes]
             c == [b EXCEPT !.symbols = t.symbols + syms]
  <2>1. /\ t.len - used \in Int /\ t.left - bytes \in Int /\ t.symbols + syms \in Nat
        /\ t.chars + k \in Nat
    BY <1>3, <1>8
  <2>2. a \in DemRec
    BY <1>3, <2>1 DEF DemRec
  <2> HIDE DEF a
  <2>3. b \in DemRec
    BY <2>1, <2>2 DEF DemRec
  <2> HIDE DEF b
  <2>4. c \in DemRec
    BY <2>1, <2>3 DEF DemRec
  <2> HIDE DEF c
  <2>5. [c EXCEPT !.chars = t.chars + k] \in DemRec
    BY <2>1, <2>4 DEF DemRec
  <2> QED BY <1>7, <2>5 DEF a, b, c
<1>10. /\ s.len = t.len - used /\ s.left = t.left - bytes /\ s.symbols = t.symbols + syms
       /\ s.chars = t.chars + k /\ s.st = "FRAME" /\ s.f = f /\ s.trained = t.trained
       /\ s.ptr = 0 /\ s.raw = 0 /\ ~s.stale
       /\ s.held = t.held /\ s.mixed = t.mixed /\ s.top = t.top
  BY <1>2, <1>3, <1>7 DEF DemRec
<1>11. s.held <= DemRaw /\ s.mixed <= DemRaw /\ s.top <= DemMixed /\ s.symbols <= DemSymbols
  BY <1>3, <1>8, <1>10
<1>12. CASE s.left <= 0
  <2>1. r = [DemGiveUp(s) EXCEPT !.frames = 1]
    BY <1>1, <1>12 DEF DemDeliver
  <2>2. DemSound(DemGiveUp(s)) /\ DemGiveUp(s).st = "LEADER" /\ DemGiveUp(s).raw = 0
    BY <1>9, <1>10, <1>11, DemGivenUp
  <2>3. DemSound(r) /\ r.st = "LEADER" /\ r.raw = 0
    BY <2>1, <2>2, DemReported
  <2>4. DemTails(r) /\ DemHolds(r)
    BY <2>3 DEF DemTails, DemHolds
  <2> QED BY <2>3, <2>4 DEF r
<1>13. CASE ~(s.left <= 0)
  <2>1. r = s
    BY <1>1, <1>13
  <2>2. s.left > 0 /\ k = can
    BY <1>3, <1>8, <1>10, <1>13
  <2>3. s.len >= 0
    BY <1>3, <1>8, <1>10
  <2>4. DemBooked(s)
    BY <1>8, <1>10, <1>11, <2>2 DEF DemBooked
  <2>5. DemSound(s)
    BY <1>9, <1>10, <1>11, <2>3, <2>4 DEF DemSound, DemPlaced
  <2>6. s.len < DemNeed(f) \/ (~t.trained /\ s.len < DemFirst(f))
    <3>1. CASE can # 0
      BY <1>8, <1>10, <2>2, <3>1
    <3>2. CASE can = 0
      <4>1. s.len = t.len
        BY <1>3, <1>8, <1>10, <2>2, <3>2
      <4> QED BY <1>2, <1>5, <3>2, <4>1
    <3> QED BY <3>1, <3>2
  <2>7. DemTails(s) /\ DemHolds(s)
    BY <1>10, <2>6 DEF DemTails, DemHolds
  <2> QED BY <2>1, <2>5, <2>7 DEF r
<1> QED BY <1>12, <1>13

-----------------------------------------------------------------------------
(* Demod: a block. *)

\* What a block begins with.
LEMMA DemBlockKeeps ==
    ASSUME DemInv, NEW n \in DemBlocks
    PROVE  LET d == DemBlock(n)
           IN  /\ DemSound(d) /\ DemTails(d) /\ d.raw = 0 /\ d.st = dem.st
               /\ dem.raw + n \in Nat /\ dem.raw + n < DemRaw
               /\ d.st # "LEADER" => dem.raw + n < 2224
<1> DEFINE d == DemBlock(n)
           held == dem.raw + n
           on == dem.st = "FRAME"
           spec == IF on THEN dem.f ELSE DemNoFrame
           syms == IF on THEN dem.symbols ELSE 0
           age == IF dem.since > DemSyncLimit THEN dem.since ELSE dem.since + n
<1>1. dem \in DemRec /\ n \in Nat /\ n <= 1200 /\ DemSound(dem) /\ DemTails(dem)
  BY DemAssumption DEF DemInv, DemSound
<1>2. held \in Nat /\ held < 2400 /\ (dem.st # "LEADER" => held < 2224)
  BY <1>1 DEF DemInv, DemHolds, DemRec
<1>3. DemNoFrame \in DemAllSpecs
  BY DEF DemNoFrame, DemAllSpecs, DemSpecs
<1>4. spec \in DemAllSpecs /\ syms \in Nat /\ age \in Nat /\ syms <= DemSymbols
  BY <1>1, <1>3 DEF DemRec, DemSound, DemBooked, DemSymbols
<1>5. d = [dem EXCEPT !.raw = 0, !.held = held, !.top = 0, !.mixed = 0, !.leaders = 0,
                      !.frames = 0, !.f = spec, !.symbols = syms, !.since = age]
  BY DEF DemBlock
<1> HIDE DEF d, held, age
<1>6. d \in DemRec
  <2> HIDE DEF spec, syms
  <2> DEFINE a1 == [dem EXCEPT !.raw = 0]
             a2 == [a1 EXCEPT !.held = held]
             a3 == [a2 EXCEPT !.top = 0]
             a4 == [a3 EXCEPT !.mixed = 0]
             a5 == [a4 EXCEPT !.leaders = 0]
             a6 == [a5 EXCEPT !.frames = 0]
             a7 == [a6 EXCEPT !.f = spec]
             a8 == [a7 EXCEPT !.symbols = syms]
  <2>1. a1 \in DemRec
    BY <1>1 DEF DemRec
  <2> HIDE DEF a1
  <2>2. a2 \in DemRec
    BY <1>2, <2>1 DEF DemRec
  <2> HIDE DEF a2
  <2>3. a3 \in DemRec
    BY <2>2 DEF DemRec
  <2> HIDE DEF a3
  <2>4. a4 \in DemRec
    BY <2>3 DEF DemRec
  <2> HIDE DEF a4
  <2>5. a5 \in DemRec
    BY <2>4 DEF DemRec
  <2> HIDE DEF a5
  <2>6. a6 \in DemRec
    BY <2>5 DEF DemRec
  <2> HIDE DEF a6
  <2>7. a7 \in DemRec
    BY <1>4, <2>6 DEF DemRec
  <2> HIDE DEF a7
  <2>8. a8 \in DemRec
    BY <1>4, <2>7 DEF DemRec
  <2> HIDE DEF a8
  <2>9. [a8 EXCEPT !.since = age] \in DemRec
    BY <1>4, <2>8 DEF DemRec
  <2> QED BY <1>5, <2>9 DEF a1, a2, a3, a4, a5, a6, a7, a8
<1>7. /\ d.st = dem.st /\ d.raw = 0 /\ d.held = held /\ d.top = 0 /\ d.mixed = 0
      /\ d.f = spec /\ d.symbols = syms /\ d.len = dem.len /\ d.ptr = dem.ptr
      /\ d.left = dem.left /\ d.chars = dem.chars /\ d.trained = dem.trained
      /\ d.stale = dem.stale
  BY <1>1, <1>5 DEF DemRec
<1>8. on => d.f = dem.f /\ d.symbols = dem.symbols
  BY <1>7
<1> HIDE DEF spec, syms
<1>9. DemBooked(d)
  BY <1>1, <1>4, <1>7, <1>8 DEF DemSound, DemBooked
<1>10. DemPlaced(d) /\ DemTails(d)
  BY <1>1, <1>7, <1>8 DEF DemSound, DemPlaced, DemTails
<1>11. d.held <= DemRaw /\ d.mixed <= DemRaw /\ d.top <= DemMixed /\ ~d.stale /\ d.len >= 0
  BY <1>1, <1>2, <1>7 DEF DemSound, DemRaw, DemMixed
<1>12. DemSound(d)
  BY <1>6, <1>9, <1>10, <1>11 DEF DemSound
<1> QED BY <1>2, <1>7, <1>10, <1>12 DEF d, held, DemRaw

\* The fields the buffers do not depend on.
LEMMA DemSame ==
    ASSUME NEW d, DemSound(d), NEW r \in DemRec,
           r.st = d.st, r.len = d.len, r.ptr = d.ptr, r.stale = d.stale,
           r.held = d.held, r.mixed = d.mixed, r.top = d.top,
           r.symbols = d.symbols, r.f = d.f, r.left = d.left,
           r.chars = d.chars, r.trained = d.trained
    PROVE  DemSound(r) /\ (DemTails(d) => DemTails(r))
BY DEF DemSound, DemPlaced, DemBooked, DemTails

LEMMA DemAsidePrior ==
    ASSUME NEW d, DemSound(d), NEW v \in {"none", "low", "high"}, NEW r, r = [d EXCEPT !.prior = v]
    PROVE  DemSound(r) /\ r.raw = d.raw /\ r.st = d.st /\ (DemTails(d) => DemTails(r))
<1>1. d \in DemRec
  BY DEF DemSound
<1>2. r \in DemRec
  BY <1>1 DEF DemRec
<1>3. /\ r.st = d.st /\ r.len = d.len /\ r.ptr = d.ptr /\ r.stale = d.stale
      /\ r.held = d.held /\ r.mixed = d.mixed /\ r.top = d.top
      /\ r.symbols = d.symbols /\ r.f = d.f /\ r.left = d.left
      /\ r.chars = d.chars /\ r.trained = d.trained /\ r.raw = d.raw
  BY <1>1 DEF DemRec
<1>4. DemSound(r) /\ (DemTails(d) => DemTails(r))
  BY <1>2, <1>3, DemSame
<1> QED BY <1>3, <1>4

LEMMA DemAsideBudget ==
    ASSUME NEW d, DemSound(d), NEW v \in Nat, NEW r, r = [d EXCEPT !.budget = v]
    PROVE  DemSound(r) /\ r.raw = d.raw /\ r.st = d.st /\ (DemTails(d) => DemTails(r))
<1>1. d \in DemRec
  BY DEF DemSound
<1>2. r \in DemRec
  BY <1>1 DEF DemRec
<1>3. /\ r.st = d.st /\ r.len = d.len /\ r.ptr = d.ptr /\ r.stale = d.stale
      /\ r.held = d.held /\ r.mixed = d.mixed /\ r.top = d.top
      /\ r.symbols = d.symbols /\ r.f = d.f /\ r.left = d.left
      /\ r.chars = d.chars /\ r.trained = d.trained /\ r.raw = d.raw
  BY <1>1 DEF DemRec
<1>4. DemSound(r) /\ (DemTails(d) => DemTails(r))
  BY <1>2, <1>3, DemSame
<1> QED BY <1>3, <1>4

LEMMA DemAsideRaw ==
    ASSUME NEW d, DemSound(d), NEW v \in Nat, NEW r, r = [d EXCEPT !.raw = v]
    PROVE  DemSound(r) /\ r.raw = v /\ r.st = d.st /\ (DemTails(d) => DemTails(r))
<1>1. d \in DemRec
  BY DEF DemSound
<1>2. r \in DemRec
  BY <1>1 DEF DemRec
<1>3. /\ r.st = d.st /\ r.len = d.len /\ r.ptr = d.ptr /\ r.stale = d.stale
      /\ r.held = d.held /\ r.mixed = d.mixed /\ r.top = d.top
      /\ r.symbols = d.symbols /\ r.f = d.f /\ r.left = d.left
      /\ r.chars = d.chars /\ r.trained = d.trained /\ r.raw = v
  BY <1>1 DEF DemRec
<1>4. DemSound(r) /\ (DemTails(d) => DemTails(r))
  BY <1>2, <1>3, DemSame
<1> QED BY <1>3, <1>4

\* The mixer has room for what was held, and the baseband for that besides the
\* little each stage left in it.
LEMMA DemMixKeeps ==
    ASSUME NEW d, DemSound(d), DemTails(d), d.raw = 0, d.st # "LEADER",
           NEW n \in Nat, n < DemRaw, n < 2224 \/ (d.st = "SYMBOL" /\ d.len = 0)
    PROVE  LET r == DemMix(d, n)
           IN  DemSound(r) /\ r.raw = 0 /\ r.st = d.st
<1> DEFINE r == DemMix(d, n)
           top == d.len + n
<1>1. d \in DemRec /\ d.len \in Nat /\ d.f \in DemAllSpecs /\ d.st \in DemStates
  BY DEF DemSound, DemRec
<1>2. d.len < 2520
  <2>1. d.st = "FRAME" => d.len < 2400
    <3>1. DemNeed(d.f) \in {1080, 540, 90, 720, 1440, 970} /\ DemFirst(d.f) \in {0, 1200, 2400, 1090}
      BY <1>1, DemShapes DEF DemShape
    <3> QED BY <1>1, <3>1 DEF DemTails
  <2> QED BY <1>1, <2>1 DEF DemTails, DemStates, DemTypeNeeds
<1>3. top \in Nat /\ top <= 5000 /\ n <= 2400 /\ top \in Int
  BY <1>1, <1>2 DEF DemRaw
<1>4. r = [d EXCEPT !.len = top, !.mixed = n, !.top = top]
  BY DEF DemMix
<1> HIDE DEF r, top
<1>5. r \in DemRec
  <2> DEFINE a == [d EXCEPT !.len = top]
             b == [a EXCEPT !.mixed = n]
  <2>1. a \in DemRec
    BY <1>1, <1>3 DEF DemRec
  <2> HIDE DEF a
  <2>2. b \in DemRec
    BY <2>1 DEF DemRec
  <2> HIDE DEF b
  <2>3. [b EXCEPT !.top = top] \in DemRec
    BY <1>3, <2>2 DEF DemRec
  <2> QED BY <1>4, <2>3 DEF a, b
<1>6. /\ r.len = top /\ r.mixed = n /\ r.top = top /\ r.st = d.st /\ r.ptr = d.ptr
      /\ r.stale = d.stale /\ r.held = d.held /\ r.symbols = d.symbols /\ r.f = d.f
      /\ r.left = d.left /\ r.chars = d.chars /\ r.raw = d.raw
  BY <1>1, <1>4 DEF DemRec
<1>7. top >= d.len
  BY <1>1 DEF top
<1>8. DemPlaced(r) /\ DemBooked(r) /\ r.len >= 0
  BY <1>1, <1>3, <1>5, <1>6, <1>7 DEF DemSound, DemPlaced, DemBooked, DemRec
<1>9. r.held <= DemRaw /\ r.mixed <= DemRaw /\ r.top <= DemMixed /\ ~r.stale
  BY <1>3, <1>6 DEF DemSound, DemRaw, DemMixed
<1>10. DemSound(r)
  BY <1>5, <1>8, <1>9 DEF DemSound
<1> QED BY <1>6, <1>10 DEF r

\* A probe keeps listening or starts a reception with an empty buffer.
LEMMA DemProbeKeeps ==
    ASSUME NEW d, DemSound(d), d.raw = 0, d.st = "LEADER", NEW found \in DemFindings
    PROVE  LET r == DemProbe(d, found)
           IN  /\ DemSound(r) /\ r.raw = 0 /\ r.st \in {"LEADER", "SYMBOL"}
               /\ r.st = "SYMBOL" => r.len = 0
<1>1. d \in DemRec
  BY DEF DemSound
<1>2. CASE found = "weak"
  BY <1>2 DEF DemProbe
<1>3. CASE found = "reject"
  <2>1. DemProbe(d, found) = [d EXCEPT !.prior = "none"]
    BY <1>3 DEF DemProbe
  <2>2. "none" \in {"none", "low", "high"}
    OBVIOUS
  <2> QED BY <2>1, <2>2, DemAsidePrior
<1>4. CASE found \in {"low", "high"} /\ d.prior # found
  <2>1. DemProbe(d, found) = [d EXCEPT !.prior = found]
    BY <1>4 DEF DemProbe
  <2>2. found \in {"none", "low", "high"}
    BY <1>4
  <2> QED BY <2>1, <2>2, DemAsidePrior
<1>5. CASE found \in {"low", "high"} /\ d.prior = found
  <2> DEFINE r == DemProbe(d, found)
             a1 == [d EXCEPT !.prior = "none"]
             a2 == [a1 EXCEPT !.st = "SYMBOL"]
             a3 == [a2 EXCEPT !.since = 0]
             a4 == [a3 EXCEPT !.len = 0]
             a5 == [a4 EXCEPT !.ptr = 30]
  <2>1. r = [d EXCEPT !.prior = "none", !.st = "SYMBOL", !.since = 0, !.len = 0, !.ptr = 30,
                      !.leaders = 1]
    BY <1>5 DEF DemProbe
  <2>2. "SYMBOL" \in DemStates
    BY DEF DemStates
  <2> HIDE DEF r
  <2>3. a1 \in DemRec
    BY <1>1 DEF DemRec
  <2> HIDE DEF a1
  <2>4. a2 \in DemRec
    BY <2>2, <2>3 DEF DemRec
  <2> HIDE DEF a2
  <2>5. a3 \in DemRec
    BY <2>4 DEF DemRec
  <2> HIDE DEF a3
  <2>6. a4 \in DemRec
    BY <2>5 DEF DemRec
  <2> HIDE DEF a4
  <2>7. a5 \in DemRec
    BY <2>6 DEF DemRec
  <2> HIDE DEF a5
  <2>8. [a5 EXCEPT !.leaders = 1] \in DemRec
    BY <2>7 DEF DemRec
  <2>9. r \in DemRec
    BY <2>1, <2>8 DEF a1, a2, a3, a4, a5
  <2>10. /\ r.st = "SYMBOL" /\ r.len = 0 /\ r.ptr = 30 /\ r.raw = 0 /\ r.held = d.held
         /\ r.mixed = d.mixed /\ r.top = d.top /\ r.symbols = d.symbols /\ r.stale = d.stale
    BY <1>1, <2>1 DEF DemRec
  <2>11. DemSound(r)
    BY <2>9, <2>10 DEF DemSound, DemPlaced, DemBooked
  <2> QED BY <2>10, <2>11 DEF r
<1> QED BY <1>2, <1>3, <1>4, <1>5 DEF DemFindings

\* What a search of n samples may be at.
DemHopping(x, n) ==
    /\ DemSound(x.d) /\ x.d.raw = 0 /\ x.d.st \in {"LEADER", "SYMBOL"}
    /\ x.d.st = "SYMBOL" => x.d.len = 0
    /\ x.n <= n

DemHopped(n) == {x \in [d : DemRec, n : Nat] : DemHopping(x, n)}

\* A hop passes over samples there are, and 240 of them if it goes on.
LEMMA DemHopKeeps ==
    ASSUME NEW n \in Nat, NEW x \in DemHopped(n), NEW y \in DemHop(x)
    PROVE  /\ y \in DemHopped(n)
           /\ y.d.st = "LEADER" => x.d.st = "LEADER" /\ (y.n < 1200 \/ y.n + 240 <= x.n)
<1>1. x.d \in DemRec /\ x.n \in Nat /\ DemHopping(x, n)
  BY DEF DemHopped
<1>2. CASE ~(x.d.st = "LEADER" /\ x.n >= 1200)
  <2>1. y = x
    BY <1>2 DEF DemHop
  <2> QED BY <1>1, <1>2, <2>1
<1>3. CASE x.d.st = "LEADER" /\ x.n >= 1200
  <2>1. PICK f \in DemFindings :
           y = [d |-> DemProbe(x.d, f),
                n |-> x.n - (IF DemProbe(x.d, f).st = "LEADER" THEN 240 ELSE 480)]
    BY <1>3 DEF DemHop
  <2> DEFINE e == DemProbe(x.d, f)
             m == x.n - (IF e.st = "LEADER" THEN 240 ELSE 480)
  <2>2. DemSound(e) /\ e.raw = 0 /\ e.st \in {"LEADER", "SYMBOL"} /\ (e.st = "SYMBOL" => e.len = 0)
    BY <1>1, <1>3, DemProbeKeeps DEF DemHopping
  <2> HIDE DEF e
  <2>3. m \in Nat /\ m <= n /\ (e.st = "LEADER" => m + 240 <= x.n)
    BY <1>1, <1>3 DEF DemHopping
  <2> HIDE DEF m
  <2>4. y = [d |-> e, n |-> m]
    BY <2>1 DEF e, m
  <2>5. y.d = e /\ y.n = m /\ e \in DemRec
    BY <2>2, <2>4 DEF DemSound
  <2>6. y \in [d : DemRec, n : Nat]
    BY <2>3, <2>4, <2>5
  <2>7. DemHopping(y, n)
    BY <2>2, <2>3, <2>5 DEF DemHopping
  <2>8. y \in DemHopped(n)
    BY <2>6, <2>7 DEF DemHopped
  <2> QED BY <1>3, <2>3, <2>5, <2>8
<1> QED BY <1>2, <1>3

LEMMA DemHopsKeep ==
    ASSUME NEW n \in Nat, NEW xs \in SUBSET DemHopped(n)
    PROVE  DemHops(xs) \in SUBSET DemHopped(n)
<1> SUFFICES ASSUME NEW y \in DemHops(xs) PROVE y \in DemHopped(n)
  OBVIOUS
<1>1. PICK x \in xs : y \in DemHop(x)
  BY DEF DemHops
<1> QED BY <1>1, DemHopKeeps

\* A search ends with a reception, or with less than one window.
LEMMA DemSearchEnds ==
    ASSUME NEW d, DemSound(d), d.raw = 0, d.st = "LEADER", NEW n \in Nat,
           NEW y \in DemSearch(d, n)
    PROVE  /\ DemHopping(y, n) /\ y.n \in Nat
           /\ y.d.st = "LEADER" => y.n < 1200
<1> DEFINE m == 1 + (n \div 240)
           x0 == {[d |-> d, n |-> n]}
           Solves(h) == h = [k \in 0..m |-> IF k = 0 THEN x0 ELSE DemHops(h[k - 1])]
           hops == CHOOSE h : Solves(h)
           D == SUBSET DemHopped(n)
           step == [p \in (1..m) \X D |-> DemHops(p[2])]
<1>1. m \in Nat /\ 240 * m > n
  OBVIOUS
<1>2. x0 \in D
  <2> DEFINE x == [d |-> d, n |-> n]
  <2>1. x.d = d /\ x.n = n /\ d \in DemRec
    BY DEF DemSound
  <2>2. x \in [d : DemRec, n : Nat]
    BY <2>1
  <2> HIDE DEF x
  <2>3. x \in DemHopped(n)
    BY <2>1, <2>2 DEF DemHopped, DemHopping
  <2> QED BY <2>3 DEF x
<1>3. \A xs \in D : DemHops(xs) \in D
  BY DemHopsKeep
<1>4. step \in [(1..m) \X D -> D]
  BY <1>3
<1>5. \A i \in 1..m, xs \in D : step[<<i, xs>>] = DemHops(xs)
  OBVIOUS
<1>6. y \in hops[m]
  BY DEF DemSearch
<1> HIDE DEF D, step, x0, m
<1>7. PICK g : StepsFrom(g, step, m, D, x0)
  <2>1. m \in Nat /\ x0 \in D /\ StepsIn(step, m, D)
    BY <1>1, <1>2, <1>4 DEF StepsIn
  <2> QED BY <2>1, StepsExist
<1>8. /\ g \in [0..m -> D]
      /\ g[0] = x0
      /\ \A i \in 1..m : g[i] = step[<<i, g[i - 1]>>]
  BY <1>7 DEF StepsFrom
<1>9. Solves(g)
  <2>1. ASSUME NEW i \in 0..m
        PROVE  g[i] = IF i = 0 THEN x0 ELSE DemHops(g[i - 1])
    <3>1. CASE i = 0
      BY <1>8, <3>1
    <3>2. CASE i # 0
      <4>1. i \in 1..m /\ i - 1 \in 0..m
        BY <1>1, <3>2
      <4>2. g[i] = step[<<i, g[i - 1]>>] /\ g[i - 1] \in D
        BY <1>8, <4>1
      <4>3. step[<<i, g[i - 1]>>] = DemHops(g[i - 1])
        BY <1>5, <4>1, <4>2
      <4> QED BY <3>2, <4>2, <4>3
    <3> QED BY <3>1, <3>2
  <2> QED BY <1>8, <2>1
<1>10. Solves(hops)
  <2> HIDE DEF Solves
  <2> QED BY <1>9
<1> HIDE DEF hops
<1>11. /\ hops[0] = x0
       /\ \A i \in 1..m : hops[i] = DemHops(hops[i - 1])
  BY <1>1, <1>10
<1> DEFINE Late(i) == \A x \in hops[i] :
                         x.d.st = "LEADER" => x.n < 1200 \/ x.n + 240 * i <= n
           S == {i \in 0..m : hops[i] \in D /\ Late(i)}
<1>12. 0 \in S
  <2>1. \A x \in x0 : x.n = n
    BY DEF x0
  <2> QED BY <1>1, <1>2, <1>11, <2>1
<1>13. \A i \in 0..m : i \in S /\ i < m => i + 1 \in S
  <2> SUFFICES ASSUME NEW i \in 0..m, i \in S, i < m PROVE i + 1 \in S
    OBVIOUS
  <2>1. i + 1 \in 1..m /\ (i + 1) - 1 = i /\ i \in Nat /\ i + 1 \in 0..m
    BY <1>1
  <2>2. hops[i + 1] = DemHops(hops[i]) /\ hops[i] \in D /\ Late(i)
    BY <1>11, <2>1
  <2>3. hops[i + 1] \in D
    BY <1>3, <2>2
  <2>4. ASSUME NEW z \in hops[i + 1], z.d.st = "LEADER"
        PROVE  z.n < 1200 \/ z.n + 240 * (i + 1) <= n
    <3>1. PICK x \in hops[i] : z \in DemHop(x)
      BY <2>2 DEF DemHops
    <3>2. x \in DemHopped(n)
      BY <2>2, <3>1 DEF D
    <3>3. z \in DemHopped(n) /\ x.d.st = "LEADER" /\ (z.n < 1200 \/ z.n + 240 <= x.n)
      BY <2>4, <3>1, <3>2, DemHopKeeps
    <3>4. x.n < 1200 \/ x.n + 240 * i <= n
      BY <2>2, <3>1, <3>3
    <3>5. x.n \in Nat /\ z.n \in Nat
      BY <3>2, <3>3 DEF DemHopped
    <3> QED BY <2>1, <3>3, <3>4, <3>5
  <2> QED BY <2>1, <2>3, <2>4
<1>14. m \in S
  <2> HIDE DEF S
  <2>1. \A i \in 0..m : i \in S
    BY <1>1, <1>12, <1>13, UptoClosed
  <2> QED BY <1>1, <2>1
<1>15. y \in DemHopped(n) /\ (y.d.st = "LEADER" => y.n < 1200 \/ y.n + 240 * m <= n)
  BY <1>6, <1>14 DEF D
<1>16. y.n \in Nat /\ DemHopping(y, n)
  BY <1>15 DEF DemHopped
<1> QED BY <1>1, <1>15, <1>16

\* The stages of a block, one after another, end with each buffer as it was.
LEMMA DemStagesKeep ==
    ASSUME NEW d, DemSound(d), d.raw = 0, d.st # "LEADER",
           NEW in, in = DemHeard \/ in = DemNothing, NEW r \in DemStages(d, in)
    PROVE  DemSound(r) /\ DemTails(r) /\ DemHolds(r)
<1> DEFINE framed == {DemSymbolFraming(d, p, fine) : p \in in.places, fine \in in.fines}
           a == IF d.st # "SYMBOL" THEN {d} ELSE framed
           b == UNION {IF x.st # "SYNC" THEN {x}
                       ELSE {DemFrameSync(x, k) : k \in in.syncs} : x \in a}
           c == UNION {IF x.st # "TYPE" THEN {x}
                       ELSE {DemFrameType(x, f, poor) : f \in in.frames, poor \in in.poors} :
                          x \in b}
<1>1. /\ in.places \in SUBSET (-1..359) /\ in.fines \in SUBSET (-2..2)
      /\ in.syncs \in SUBSET Nat /\ in.frames \in SUBSET DemAllSpecs
      /\ in.poors \in SUBSET BOOLEAN
  <2>1. CASE in = DemHeard
    BY <2>1, DemAssumption, DemFramesAssumption DEF DemHeard
  <2>2. CASE in = DemNothing
    <3>1. DemNoFrame \in DemAllSpecs
      BY DEF DemNoFrame, DemAllSpecs, DemSpecs
    <3> QED BY <2>2, <3>1 DEF DemNothing
  <2> QED BY <2>1, <2>2
<1>2. PICK z \in c : r = IF z.st = "FRAME" THEN DemStream(z) ELSE z
  BY DEF DemStages
<1> HIDE DEF framed, a, b, c
<1> DEFINE After(x) == DemSound(x) /\ x.raw = 0 /\ (x.st = "SYMBOL" => x.len <= 890)
<1>3. \A x \in a : After(x)
  <2>1. CASE d.st # "SYMBOL"
    <3>1. \A x \in a : x = d
      BY <2>1 DEF a
    <3> QED BY <2>1, <3>1
  <2>2. CASE d.st = "SYMBOL"
    <3> SUFFICES ASSUME NEW x \in a PROVE After(x)
      OBVIOUS
    <3>1. x \in framed
      BY <2>2 DEF a
    <3>2. PICK p \in in.places, fine \in in.fines : x = DemSymbolFraming(d, p, fine)
      BY <3>1 DEF framed
    <3>3. p \in -1..359 /\ fine \in -2..2
      BY <1>1
    <3>4. /\ DemSound(x) /\ x.raw = 0
          /\ (x.st = "SYMBOL" /\ x.len <= 890) \/ x.st = "SYNC"
      BY <2>2, <3>2, <3>3, DemFramingKeeps
    <3> QED BY <3>4
  <2> QED BY <2>1, <2>2
<1> DEFINE Synced(x) == After(x) /\ (x.st = "SYNC" => x.len < 720 /\ x.ptr = 0)
<1>4. \A x \in b : Synced(x)
  <2> SUFFICES ASSUME NEW x \in b PROVE Synced(x)
    OBVIOUS
  <2>1. PICK y \in a : x \in (IF y.st # "SYNC" THEN {y} ELSE {DemFrameSync(y, k) : k \in in.syncs})
    BY DEF b
  <2>2. After(y)
    BY <1>3
  <2>3. CASE y.st # "SYNC"
    <3>1. x = y
      BY <2>1, <2>3
    <3> QED BY <2>2, <2>3, <3>1
  <2>4. CASE y.st = "SYNC"
    <3>1. PICK k \in in.syncs : x = DemFrameSync(y, k)
      BY <2>1, <2>4
    <3>2. k \in Nat
      BY <1>1
    <3> QED BY <2>2, <2>4, <3>1, <3>2, DemSyncKeeps
  <2> QED BY <2>3, <2>4
<1> DEFINE Typed(x) == Synced(x) /\ (x.st = "TYPE" => x.len < DemTypeNeeds)
<1>5. \A x \in c : Typed(x)
  <2> SUFFICES ASSUME NEW x \in c PROVE Typed(x)
    OBVIOUS
  <2>1. PICK y \in b : x \in (IF y.st # "TYPE" THEN {y}
                             ELSE {DemFrameType(y, f, poor) : f \in in.frames, poor \in in.poors})
    BY DEF c
  <2>2. Synced(y)
    BY <1>4
  <2>3. CASE y.st # "TYPE"
    <3>1. x = y
      BY <2>1, <2>3
    <3> QED BY <2>2, <2>3, <3>1
  <2>4. CASE y.st = "TYPE"
    <3>1. PICK f \in in.frames, poor \in in.poors : x = DemFrameType(y, f, poor)
      BY <2>1, <2>4
    <3>2. f \in DemAllSpecs /\ poor \in BOOLEAN
      BY <1>1
    <3> QED BY <2>2, <2>4, <3>1, <3>2, DemTypeKeeps
  <2> QED BY <2>3, <2>4
<1>6. Typed(z)
  BY <1>5
<1>7. CASE z.st = "FRAME"
  BY <1>2, <1>6, <1>7, DemStreamKeeps
<1>8. CASE z.st # "FRAME"
  <2>1. r = z
    BY <1>2, <1>8
  <2>2. DemTails(z) /\ DemHolds(z)
    BY <1>6, <1>8 DEF DemTails, DemHolds
  <2> QED BY <1>6, <2>1, <2>2
<1> QED BY <1>7, <1>8

\* A block in which something may begin.
LEMMA DemPushKeeps ==
    ASSUME DemInv, NEW n \in DemBlocks, DemPush(n)
    PROVE  DemInv'
<1> DEFINE begun == DemBlock(n)
           d == [begun EXCEPT !.budget = @ - 1]
           held == dem.raw + n
<1>1. /\ DemSound(begun) /\ DemTails(begun) /\ begun.raw = 0 /\ begun.st = dem.st
      /\ held \in Nat /\ held < DemRaw /\ (begun.st # "LEADER" => held < 2224)
  BY DemBlockKeeps
<1>2. DemSound(d) /\ DemTails(d) /\ d.raw = 0 /\ d.st = begun.st
  <2> DEFINE v == begun.budget - 1
  <2>1. begun.budget = dem.budget
    <3>1. dem \in DemRec
      BY DEF DemInv, DemSound
    <3> QED BY <3>1 DEF DemBlock, DemRec
  <2>2. v \in Nat
    <3>1. dem.budget \in Nat /\ dem.budget > 0
      BY DEF DemPush, DemInv, DemSound, DemRec
    <3> HIDE DEF begun
    <3> QED BY <2>1, <3>1
  <2>3. d = [begun EXCEPT !.budget = v]
    OBVIOUS
  <2> HIDE DEF begun, d, v
  <2> QED BY <1>1, <2>2, <2>3, DemAsideBudget
<1>3. IF held < 1024 THEN dem' = [d EXCEPT !.raw = held]
      ELSE \E x \in IF d.st = "LEADER" THEN DemSearch(d, held) ELSE {[d |-> d, n |-> held]} :
              IF x.d.st = "LEADER" THEN dem' = [x.d EXCEPT !.raw = x.n]
              ELSE dem' \in DemStages(DemMix(x.d, x.n), DemHeard)
  BY DEF DemPush
<1> HIDE DEF begun, d, held
<1>4. CASE held < 1024
  <2>1. dem' = [d EXCEPT !.raw = held]
    BY <1>3, <1>4
  <2>2. DemSound(dem') /\ DemTails(dem') /\ dem'.raw = held
    BY <1>1, <1>2, <2>1, DemAsideRaw
  <2>3. DemHolds(dem')
    BY <1>1, <1>4, <2>2 DEF DemHolds
  <2> QED BY <2>2, <2>3 DEF DemInv, DemSound, DemTails, DemHolds, DemPlaced, DemBooked
<1>5. CASE ~(held < 1024)
  <2>1. PICK x \in IF d.st = "LEADER" THEN DemSearch(d, held) ELSE {[d |-> d, n |-> held]} :
           IF x.d.st = "LEADER" THEN dem' = [x.d EXCEPT !.raw = x.n]
           ELSE dem' \in DemStages(DemMix(x.d, x.n), DemHeard)
    BY <1>3, <1>5
  <2>2. /\ DemSound(x.d) /\ DemTails(x.d) /\ x.d.raw = 0 /\ x.n \in Nat /\ x.n < DemRaw
        /\ x.d.st = "LEADER" => x.n < 1200
        /\ x.d.st # "LEADER" => x.n < 2224 \/ (x.d.st = "SYMBOL" /\ x.d.len = 0)
    <3>1. CASE d.st = "LEADER"
      <4>1. x \in DemSearch(d, held)
        BY <2>1, <3>1
      <4>2. DemHopping(x, held) /\ x.n \in Nat /\ (x.d.st = "LEADER" => x.n < 1200)
        BY <1>1, <1>2, <3>1, <4>1, DemSearchEnds
      <4>3. /\ DemSound(x.d) /\ x.d.raw = 0 /\ x.d.st \in {"LEADER", "SYMBOL"} /\ x.n <= held
            /\ x.d.st = "SYMBOL" => x.d.len = 0
        BY <4>2 DEF DemHopping
      <4>4. x.n < DemRaw
        BY <1>1, <4>2, <4>3 DEF DemRaw
      <4>5. DemTails(x.d)
        BY <4>3 DEF DemTails
      <4> QED BY <4>2, <4>3, <4>4, <4>5
    <3>2. CASE d.st # "LEADER"
      <4>1. x.d = d /\ x.n = held
        BY <2>1, <3>2
      <4> QED BY <1>1, <1>2, <3>2, <4>1
    <3> QED BY <3>1, <3>2
  <2>3. CASE x.d.st = "LEADER"
    <3>1. dem' = [x.d EXCEPT !.raw = x.n]
      BY <2>1, <2>3
    <3>2. DemSound(dem') /\ DemTails(dem') /\ dem'.raw = x.n /\ dem'.st = "LEADER"
      BY <2>2, <2>3, <3>1, DemAsideRaw
    <3>3. DemHolds(dem')
      BY <2>2, <2>3, <3>2 DEF DemHolds
    <3> QED BY <3>2, <3>3 DEF DemInv, DemSound, DemTails, DemHolds, DemPlaced, DemBooked
  <2>4. CASE x.d.st # "LEADER"
    <3> DEFINE m == DemMix(x.d, x.n)
    <3>1. dem' \in DemStages(m, DemHeard)
      BY <2>1, <2>4
    <3>2. DemSound(m) /\ m.raw = 0 /\ m.st = x.d.st
      BY <2>2, <2>4, DemMixKeeps
    <3> HIDE DEF m
    <3>3. DemSound(dem') /\ DemTails(dem') /\ DemHolds(dem')
      BY <2>4, <3>1, <3>2, DemStagesKeep
    <3> QED BY <3>3 DEF DemInv, DemSound, DemTails, DemHolds, DemPlaced, DemBooked
  <2> QED BY <2>3, <2>4
<1> QED BY <1>4, <1>5

\* A block of noise.
LEMMA DemNoiseKeeps ==
    ASSUME DemInv, NEW n \in DemBlocks, DemNoise(n)
    PROVE  DemInv'
<1> DEFINE begun == DemBlock(n)
           d == [begun EXCEPT !.prior = "none"]
           held == dem.raw + n
<1>1. /\ DemSound(begun) /\ DemTails(begun) /\ begun.raw = 0 /\ begun.st = dem.st
      /\ held \in Nat /\ held < DemRaw /\ (begun.st # "LEADER" => held < 2224)
  BY DemBlockKeeps
<1>2. dem.st # "LEADER" /\ IF held < 1024 THEN dem' = [d EXCEPT !.raw = held]
                           ELSE dem' \in DemStages(DemMix(d, held), DemNothing)
  BY DEF DemNoise
<1> HIDE DEF begun
<1>3. DemSound(d) /\ DemTails(d) /\ d.raw = 0 /\ d.st = begun.st
  <2>1. "none" \in {"none", "low", "high"}
    OBVIOUS
  <2>2. d = [begun EXCEPT !.prior = "none"]
    OBVIOUS
  <2> HIDE DEF d
  <2> QED BY <1>1, <2>1, <2>2, DemAsidePrior
<1> HIDE DEF d, held
<1>4. CASE held < 1024
  <2>1. dem' = [d EXCEPT !.raw = held]
    BY <1>2, <1>4
  <2>2. DemSound(dem') /\ DemTails(dem') /\ dem'.raw = held
    BY <1>1, <1>3, <2>1, DemAsideRaw
  <2>3. DemHolds(dem')
    BY <1>1, <1>4, <2>2 DEF DemHolds
  <2> QED BY <2>2, <2>3 DEF DemInv, DemSound, DemTails, DemHolds, DemPlaced, DemBooked
<1>5. CASE ~(held < 1024)
  <2> DEFINE m == DemMix(d, held)
  <2>1. dem' \in DemStages(m, DemNothing)
    BY <1>2, <1>5
  <2>2. DemSound(m) /\ m.raw = 0 /\ m.st = d.st /\ d.st # "LEADER"
    BY <1>1, <1>2, <1>3, DemMixKeeps
  <2> HIDE DEF m
  <2>3. DemSound(dem') /\ DemTails(dem') /\ DemHolds(dem')
    BY <2>1, <2>2, DemStagesKeep
  <2> QED BY <2>3 DEF DemInv, DemSound, DemTails, DemHolds, DemPlaced, DemBooked
<1> QED BY <1>4, <1>5

LEMMA DemBegins == DemInit => DemInv
<1> SUFFICES ASSUME DemInit PROVE DemInv
  OBVIOUS
<1>1. dem = DemStart(DemBudget) /\ DemBudget \in Nat
  BY DemAssumption DEF DemInit
<1>2. DemNoFrame \in DemAllSpecs
  BY DEF DemNoFrame, DemAllSpecs, DemSpecs
<1>3. dem \in DemRec
  BY <1>1, <1>2 DEF DemStart, DemRec, DemStates
<1>4. /\ dem.st = "LEADER" /\ dem.raw = 0 /\ dem.held = 0 /\ dem.len = 0 /\ dem.top = 0
      /\ dem.ptr = 0 /\ dem.mixed = 0 /\ dem.symbols = 0 /\ ~dem.stale
  BY <1>1 DEF DemStart
<1>5. DemSound(dem)
  BY <1>3, <1>4 DEF DemSound, DemPlaced, DemBooked, DemRaw, DemMixed, DemSymbols
<1> QED BY <1>4, <1>5 DEF DemInv, DemTails, DemHolds

\* What the invariant says of the buffers.
LEMMA DemInvHolds == DemInv => DemBuffersHold
<1> SUFFICES ASSUME DemInv PROVE DemBuffersHold
  OBVIOUS
<1>1. DemSound(dem) /\ dem.f \in DemAllSpecs
  BY DEF DemInv, DemSound, DemRec
<1>2. DemRoom
  BY <1>1, DemFrameFits DEF DemRoom, DemSound, DemBooked
<1>3. DemNoStaleRead
  BY <1>1 DEF DemNoStaleRead, DemSound, DemPlaced
<1> QED BY <1>2, <1>3 DEF DemBuffersHold

\* No buffer of the receiver is written past its end or read past what was
\* written: for every size of block up to 1200 samples and every change from
\* one to another, wherever in a block a frame begins, for every frame there
\* is, and for everything the correlators may find (ardop_demod_push).
THEOREM DemBuffersAreSafe == DemInit /\ [][DemNext]_dem => []DemBuffersHold
<1>1. DemInv /\ [DemNext]_dem => DemInv'
  <2> SUFFICES ASSUME DemInv, [DemNext]_dem PROVE DemInv'
    OBVIOUS
  <2>1. CASE \E n \in DemBlocks : DemPush(n)
    BY <2>1, DemPushKeeps
  <2>2. CASE \E n \in DemBlocks : DemNoise(n)
    BY <2>2, DemNoiseKeeps
  <2>3. CASE UNCHANGED dem
    BY <2>3 DEF DemInv
  <2> QED BY <2>1, <2>2, <2>3 DEF DemNext
<1> QED BY DemBegins, DemInvHolds, <1>1, PTL

-----------------------------------------------------------------------------
(* Capture: what a record says. *)

CptKinds == CptScalars \cup CptFrames \cup CptTexts \cup {"data"}
CptMarks == CptKinds \cup {"pcap", "magic", "version", "is", "len"}
CptUnit == CptMarks \X Nat

\* The events there are, of whatever lengths.
CptSayable ==
    {e \in [kind : CptKinds, n : Nat \ {0}, tag : Nat, payload : Nat] :
        /\ e.kind # "data" => e.tag = 0
        /\ e.kind \in CptScalars => e.payload = 0}

\* What the observer says can be said.
LEMMA CptSays ==
    ASSUME NEW n \in Nat \ {0}, NEW e \in CptEvents(n)
    PROVE  e \in CptSayable /\ e.n = n
  <1>1. CASE \E k \in CptScalars : e = CptEvent(k, n, 0, 0)
    BY <1>1 DEF CptEvent, CptSayable, CptKinds, CptScalars
  <1>2. CASE \E k \in CptFrames \cup CptTexts, p \in CptLens : e = CptEvent(k, n, 0, p)
    BY <1>2, CptAssumption DEF CptEvent, CptSayable, CptKinds, CptFrames, CptTexts, CptScalars
  <1>3. CASE \E t \in CptLens, p \in CptLens : e = CptEvent("data", n, t, p)
    BY <1>3, CptAssumption DEF CptEvent, CptSayable, CptKinds, CptScalars
  <1> QED BY <1>1, <1>2, <1>3 DEF CptEvents

LEMMA CptLeastIs ==
    ASSUME NEW a \in Nat, NEW b \in Nat
    PROVE  /\ CptLeast(a, b) \in Nat /\ CptLeast(a, b) <= a /\ CptLeast(a, b) <= b
           /\ CptLeast(a, b) = a \/ CptLeast(a, b) = b
BY DEF CptLeast

\* Two sequences behind one another, given as functions.
CptJoined(c, f, a, g, b, S) ==
    /\ c \in [1..(a + b) -> S]
    /\ \A i \in 1..a : c[i] = f[i]
    /\ \A i \in 1..b : c[a + i] = g[i]

LEMMA CptJoin ==
    ASSUME NEW S, NEW a \in Nat, NEW b \in Nat, NEW f \in [1..a -> S], NEW g \in [1..b -> S]
    PROVE  CptJoined(f \o g, f, a, g, b, S)
  <1>1. f \in Seq(S) /\ Len(f) = a /\ g \in Seq(S) /\ Len(g) = b
    BY LenProperties
  <1>2. f \o g \in Seq(S) /\ Len(f \o g) = a + b
    BY <1>1, ConcatProperties
  <1>3. f \o g \in [1..(a + b) -> S]
    BY <1>2, LenProperties
  <1>4. \A i \in 1..(a + b) : (f \o g)[i] = IF i <= a THEN f[i] ELSE g[i - a]
    BY <1>1, ConcatProperties
  <1>5. ASSUME NEW i \in 1..a PROVE (f \o g)[i] = f[i]
    <2>1. i \in 1..(a + b) /\ i <= a
      OBVIOUS
    <2> QED BY <1>4, <2>1
  <1>6. ASSUME NEW i \in 1..b PROVE (f \o g)[a + i] = g[i]
    <2>1. a + i \in 1..(a + b) /\ ~(a + i <= a) /\ (a + i) - a = i
      OBVIOUS
    <2> QED BY <1>4, <2>1
  <1> QED BY <1>3, <1>5, <1>6 DEF CptJoined

\* A sequence of one.
LEMMA CptOne ==
    ASSUME NEW S, NEW x \in S
    PROVE  <<x>> \in [1..1 -> S] /\ <<x>>[1] = x
  <1>1. <<x>> = [i \in 1..1 |-> x]
    OBVIOUS
  <1> QED BY <1>1

LEMMA CptOneLong ==
    ASSUME NEW S, NEW s \in [1..1 -> S]
    PROVE  s \in Seq(S) /\ \E o \in Nat : o = 1 /\ Len(s) = o
  <1>1. PICK o \in Nat : o = 1
    OBVIOUS
  <1>2. s \in [1..o -> S]
    BY <1>1
  <1>3. s \in Seq(S) /\ Len(s) = o
    BY <1>2, LenProperties
  <1> QED BY <1>1, <1>3

\* So many units are so many.
LEMMA CptUnitsAre ==
    ASSUME NEW n \in Nat, NEW k \in Nat
    PROVE  /\ CptUnits(n, k) \in [1..k -> CptUnit]
           /\ \A i \in 1..k : CptUnits(n, k)[i] = <<"is", n>>
  <1>1. <<"is", n>> \in CptUnit
    BY DEF CptUnit, CptMarks
  <1> QED BY <1>1 DEF CptUnits

\* So many units, a length, and so many units behind it.
CptPart(c, n, x, p) ==
    /\ c \in [1..(x + 1 + p) -> CptUnit]
    /\ c[x + 1] = <<"len", p>>
    /\ \A i \in 1..x : c[i] = <<"is", n>>
    /\ \A i \in 1..p : c[x + 1 + i] = <<"is", n>>

LEMMA CptPartIs ==
    ASSUME NEW n \in Nat, NEW x \in Nat, NEW p \in Nat
    PROVE  CptPart(CptUnits(n, x) \o <<<<"len", p>>>> \o CptUnits(n, p), n, x, p)
  <1> DEFINE u == CptUnits(n, x)
             l == <<<<"len", p>>>>
             v == CptUnits(n, p)
             c == u \o l
  <1>1. /\ u \in [1..x -> CptUnit] /\ \A i \in 1..x : u[i] = <<"is", n>>
        /\ v \in [1..p -> CptUnit] /\ \A i \in 1..p : v[i] = <<"is", n>>
    BY CptUnitsAre
  <1>2. l \in [1..1 -> CptUnit] /\ l[1] = <<"len", p>>
    <2>1. <<"len", p>> \in CptUnit
      BY DEF CptUnit, CptMarks
    <2> QED BY <2>1, CptOne
  <1> HIDE DEF u, l, v
  <1>3. CptJoined(c, u, x, l, 1, CptUnit)
    BY <1>1, <1>2, CptJoin
  <1>4. /\ c \in [1..(x + 1) -> CptUnit] /\ c[x + 1] = <<"len", p>>
        /\ \A i \in 1..x : c[i] = <<"is", n>>
    BY <1>1, <1>2, <1>3 DEF CptJoined
  <1> HIDE DEF c
  <1>5. CptJoined(c \o v, c, x + 1, v, p, CptUnit)
    <2>1. x + 1 \in Nat
      OBVIOUS
    <2> QED BY <1>1, <1>4, <2>1, CptJoin
  <1>6. CptPart(c \o v, n, x, p)
    <2>1. \A i \in 1..(x + 1) : (c \o v)[i] = c[i]
      BY <1>5 DEF CptJoined
    <2>2. \A i \in 1..p : (c \o v)[x + 1 + i] = v[i]
      BY <1>5 DEF CptJoined
    <2>3. x + 1 \in 1..(x + 1) /\ \A i \in 1..x : i \in 1..(x + 1)
      OBVIOUS
    <2>4. (c \o v) \in [1..(x + 1 + p) -> CptUnit]
      BY <1>5 DEF CptJoined
    <2> QED BY <1>1, <1>4, <2>1, <2>2, <2>3, <2>4 DEF CptPart
  <1> QED BY <1>6 DEF c, u, l, v

\* A tag behind its length, and a payload behind its own.
CptTwo(c, n, t, p) ==
    /\ c \in [1..(2 + t + p) -> CptUnit]
    /\ c[1] = <<"len", t>> /\ c[2 + t] = <<"len", p>>
    /\ \A i \in 1..t : c[1 + i] = <<"is", n>>
    /\ \A i \in 1..p : c[2 + t + i] = <<"is", n>>

LEMMA CptTwoIs ==
    ASSUME NEW n \in Nat, NEW t \in Nat, NEW p \in Nat
    PROVE  CptTwo(<<<<"len", t>>>> \o CptUnits(n, t) \o <<<<"len", p>>>> \o CptUnits(n, p), n, t, p)
  <1> DEFINE l == <<<<"len", t>>>>
             u == CptUnits(n, t)
             m == <<<<"len", p>>>>
             v == CptUnits(n, p)
             c == l \o u
             d == c \o m
  <1>1. /\ u \in [1..t -> CptUnit] /\ \A i \in 1..t : u[i] = <<"is", n>>
        /\ v \in [1..p -> CptUnit] /\ \A i \in 1..p : v[i] = <<"is", n>>
    BY CptUnitsAre
  <1>2. /\ l \in [1..1 -> CptUnit] /\ l[1] = <<"len", t>>
        /\ m \in [1..1 -> CptUnit] /\ m[1] = <<"len", p>>
    <2>1. <<"len", p>> \in CptUnit /\ <<"len", t>> \in CptUnit
      BY DEF CptUnit, CptMarks
    <2> QED BY <2>1, CptOne
  <1> HIDE DEF u, l, v, m
  <1>3. CptJoined(c, l, 1, u, t, CptUnit)
    BY <1>1, <1>2, CptJoin
  <1>4. /\ c \in [1..(1 + t) -> CptUnit] /\ c[1] = <<"len", t>>
        /\ \A i \in 1..t : c[1 + i] = <<"is", n>>
    BY <1>1, <1>2, <1>3 DEF CptJoined
  <1> HIDE DEF c
  <1>5. CptJoined(d, c, 1 + t, m, 1, CptUnit)
    <2>1. 1 + t \in Nat
      OBVIOUS
    <2> QED BY <1>2, <1>4, <2>1, CptJoin
  <1>6. /\ d \in [1..(2 + t) -> CptUnit] /\ d[1] = <<"len", t>> /\ d[2 + t] = <<"len", p>>
        /\ \A i \in 1..t : d[1 + i] = <<"is", n>>
    <2>1. \A i \in 1..(1 + t) : d[i] = c[i]
      BY <1>5 DEF CptJoined
    <2>2. 1 \in 1..(1 + t) /\ \A i \in 1..t : 1 + i \in 1..(1 + t)
      OBVIOUS
    <2>3. d[(1 + t) + 1] = m[1] /\ d \in [1..((1 + t) + 1) -> CptUnit]
      BY <1>5 DEF CptJoined
    <2>4. (1 + t) + 1 = 2 + t
      OBVIOUS
    <2> QED BY <1>2, <1>4, <2>1, <2>2, <2>3, <2>4
  <1> HIDE DEF d
  <1>7. CptJoined(d \o v, d, 2 + t, v, p, CptUnit)
    <2>1. 2 + t \in Nat
      OBVIOUS
    <2> QED BY <1>1, <1>6, <2>1, CptJoin
  <1>8. CptTwo(d \o v, n, t, p)
    <2>1. \A i \in 1..(2 + t) : (d \o v)[i] = d[i]
      BY <1>7 DEF CptJoined
    <2>2. \A i \in 1..p : (d \o v)[2 + t + i] = v[i]
      BY <1>7 DEF CptJoined
    <2>3. 1 \in 1..(2 + t) /\ 2 + t \in 1..(2 + t) /\ \A i \in 1..t : 1 + i \in 1..(2 + t)
      OBVIOUS
    <2>4. (d \o v) \in [1..(2 + t + p) -> CptUnit]
      BY <1>7 DEF CptJoined
    <2> QED BY <1>1, <1>6, <2>1, <2>2, <2>3, <2>4 DEF CptTwo
  <1> QED BY <1>8 DEF c, d, u, l, v, m

\* The magic, the version and the type in front of a body.
CptRecorded(us, kind, c, m) ==
    /\ us \in [1..(3 + m) -> CptUnit]
    /\ us[1] = <<"magic", 0>> /\ us[2] = <<"version", 0>> /\ us[3] = <<kind, 0>>
    /\ \A i \in 1..m : us[3 + i] = c[i]

LEMMA CptRecordedIs ==
    ASSUME NEW kind \in CptKinds, NEW m \in Nat, NEW c \in [1..m -> CptUnit]
    PROVE  CptRecorded(CptPrefix(kind) \o c, kind, c, m)
  <1> DEFINE p == CptPrefix(kind)
  <1>1. /\ p \in [1..3 -> CptUnit]
        /\ p[1] = <<"magic", 0>> /\ p[2] = <<"version", 0>> /\ p[3] = <<kind, 0>>
    <2>1. kind \in CptMarks
      BY DEF CptMarks
    <2>2. p = <<<<"magic", 0>>, <<"version", 0>>, <<kind, 0>>>>
      BY DEF CptPrefix
    <2>3. /\ <<"magic", 0>> \in CptUnit /\ <<"version", 0>> \in CptUnit /\ <<kind, 0>> \in CptUnit
      BY <2>1 DEF CptUnit, CptMarks
    <2> HIDE DEF p
    <2>4. p = [i \in 1..3 |-> IF i = 1 THEN <<"magic", 0>>
                              ELSE IF i = 2 THEN <<"version", 0>> ELSE <<kind, 0>>]
      BY <2>2
    <2> QED BY <2>3, <2>4
  <1> HIDE DEF p
  <1>2. CptJoined(p \o c, p, 3, c, m, CptUnit)
    BY <1>1, CptJoin
  <1>3. \A i \in 1..3 : (p \o c)[i] = p[i]
    BY <1>2 DEF CptJoined
  <1>4. CptRecorded(p \o c, kind, c, m)
    BY <1>1, <1>2, <1>3 DEF CptRecorded, CptJoined
  <1> QED BY <1>4 DEF p
\* What the bytes of a record hold.
CptHeld(us) ==
    LET bytes == {us[i][2] : i \in {j \in 4..Len(us) : us[j][1] = "is"}}
    IN  IF bytes = {} THEN 0 ELSE CHOOSE x \in bytes : TRUE

\* It is what was put into every byte, and 0 where there is none.
LEMMA CptHeldIs ==
    ASSUME NEW n \in Nat, NEW m \in Nat, NEW us \in [1..(3 + m) -> CptUnit],
           \A i \in 1..m : us[3 + i] = <<"is", n>> \/ us[3 + i][1] = "len"
    PROVE  /\ (\E i \in 1..m : us[3 + i] = <<"is", n>>) => CptHeld(us) = n
           /\ (\A i \in 1..m : us[3 + i][1] = "len") => CptHeld(us) = 0
  <1> DEFINE bytes == {us[i][2] : i \in {j \in 4..Len(us) : us[j][1] = "is"}}
  <1>1. Len(us) = 3 + m
    BY LenProperties
  <1>2. ASSUME NEW j \in 4..Len(us) PROVE j - 3 \in 1..m /\ 3 + (j - 3) = j
    BY <1>1
  <1>3. ASSUME NEW i \in 1..m PROVE 3 + i \in 4..Len(us)
    BY <1>1
  <1>4. ASSUME NEW i \in 1..m, us[3 + i] = <<"is", n>> PROVE CptHeld(us) = n
    <2>1. n \in bytes
      <3>1. 3 + i \in 4..Len(us) /\ us[3 + i][1] = "is" /\ us[3 + i][2] = n
        BY <1>3, <1>4
      <3> QED BY <3>1
    <2>2. ASSUME NEW x \in bytes PROVE x = n
      <3>1. PICK j \in 4..Len(us) : us[j][1] = "is" /\ x = us[j][2]
        OBVIOUS
      <3>2. us[j] = <<"is", n>> \/ us[j][1] = "len"
        BY <1>2
      <3> QED BY <3>1, <3>2
    <2> HIDE DEF bytes
    <2>3. bytes # {} /\ (CHOOSE x \in bytes : TRUE) = n
      BY <2>1, <2>2
    <2> QED BY <2>3 DEF CptHeld, bytes
  <1>5. ASSUME \A i \in 1..m : us[3 + i][1] = "len" PROVE CptHeld(us) = 0
    <2>1. bytes = {}
      <3> SUFFICES ASSUME NEW j \in 4..Len(us), us[j][1] = "is" PROVE FALSE
        OBVIOUS
      <3>1. us[j][1] = "len"
        BY <1>2, <1>5
      <3> QED BY <3>1
    <2> QED BY <2>1 DEF CptHeld
  <1> QED BY <1>4, <1>5

\* The lengths a record leaves before its data.
CptFixed(kind) == IF kind \in CptFrames THEN 4 ELSE IF kind = "state" THEN 1 ELSE 0

\* A frame or a text is read as it was written.
LEMMA CptParsesPart ==
    ASSUME NEW kind \in CptFrames \cup CptTexts, NEW n \in Nat, NEW p \in Nat, NEW m \in Nat,
           NEW us, NEW c, NEW x \in Nat, x = CptFixed(kind), m = x + 1 + p,
           CptRecorded(us, kind, c, m), CptPart(c, n, x, p)
    PROVE  CptParse(us) = CptEvent(kind, IF x + p = 0 THEN 0 ELSE n, 0, p)
  <1>1. /\ us \in [1..(3 + m) -> CptUnit]
        /\ us[1][1] = "magic" /\ us[2][1] = "version" /\ us[3][1] = kind
    BY DEF CptRecorded
  <1>2. us[3 + (x + 1)] = <<"len", p>>
    <2>1. x + 1 \in 1..m
      OBVIOUS
    <2> QED BY <2>1 DEF CptRecorded, CptPart
  <1>3. ASSUME NEW i \in 1..x PROVE i \in 1..m /\ us[3 + i] = <<"is", n>>
    <2>1. i \in 1..m
      OBVIOUS
    <2> QED BY <2>1 DEF CptRecorded, CptPart
  <1>4. ASSUME NEW i \in 1..p PROVE x + 1 + i \in 1..m /\ us[3 + (x + 1 + i)] = <<"is", n>>
    <2>1. x + 1 + i \in 1..m
      OBVIOUS
    <2> QED BY <2>1 DEF CptRecorded, CptPart
  <1>5. ASSUME NEW i \in 1..m PROVE us[3 + i] = <<"is", n>> \/ us[3 + i] = <<"len", p>>
    <2>1. CASE i <= x
      <3>1. i \in 1..x
        BY <2>1
      <3> QED BY <1>3, <3>1
    <2>2. CASE i = x + 1
      BY <1>2, <2>2
    <2>3. CASE i > x + 1
      <3>1. i - (x + 1) \in 1..p /\ x + 1 + (i - (x + 1)) = i
        BY <2>3
      <3> QED BY <1>4, <3>1
    <2> QED BY <2>1, <2>2, <2>3
  <1>6. CptHeld(us) = IF x + p = 0 THEN 0 ELSE n
    <2>0. \A i \in 1..m : us[3 + i] = <<"is", n>> \/ us[3 + i][1] = "len"
      BY <1>5
    <2>4. /\ (\E i \in 1..m : us[3 + i] = <<"is", n>>) => CptHeld(us) = n
          /\ (\A i \in 1..m : us[3 + i][1] = "len") => CptHeld(us) = 0
      BY <1>1, <2>0, CptHeldIs
    <2>1. CASE x > 0
      <3>1. 1 \in 1..m /\ us[3 + 1] = <<"is", n>>
        BY <1>3, <2>1
      <3>2. CptHeld(us) = n
        BY <2>4, <3>1
      <3> QED BY <2>1, <3>2
    <2>2. CASE p > 0
      <3>1. x + 1 + 1 \in 1..m /\ us[3 + (x + 1 + 1)] = <<"is", n>>
        BY <1>4, <2>2
      <3>2. CptHeld(us) = n
        BY <2>4, <3>1
      <3> QED BY <2>2, <3>2
    <2>3. CASE x = 0 /\ p = 0
      <3>1. \A i \in 1..m : us[3 + i][1] = "len"
        <4> SUFFICES ASSUME NEW i \in 1..m PROVE us[3 + i][1] = "len"
          OBVIOUS
        <4>1. i = x + 1
          BY <2>3
        <4> QED BY <1>2, <4>1
      <3>2. CptHeld(us) = 0
        BY <2>4, <3>1
      <3> QED BY <2>3, <3>2
    <2> QED BY <2>1, <2>2, <2>3
  <1>7. Len(us) = 3 + m
    BY <1>1, LenProperties
  <1>8. kind \notin CptScalars /\ kind # "data"
    BY DEF CptScalars, CptFrames, CptTexts
  <1>9. us[3 + (CptFixed(kind) + 1)][1] = "len" /\ us[3 + (CptFixed(kind) + 1)][2] = p
    BY <1>2
  <1>10. /\ ~(Len(us) < 3) /\ ~(Len(us) - 3 < CptFixed(kind) + 1)
         /\ ~(Len(us) - 3 < CptFixed(kind) + 1 + p)
    BY <1>7
  <1>11. CptParse(us) = CptEvent(kind, CptHeld(us), 0, p)
    BY <1>1, <1>8, <1>9, <1>10, Zenon DEF CptParse, CptHeld, CptFixed
  <1> QED BY <1>6, <1>11
\* So is data behind its tag.
LEMMA CptParsesTwo ==
    ASSUME NEW n \in Nat, NEW t \in Nat, NEW p \in Nat, NEW m \in Nat,
           NEW us, NEW c, m = 2 + t + p,
           CptRecorded(us, "data", c, m), CptTwo(c, n, t, p)
    PROVE  CptParse(us) = CptEvent("data", IF t + p = 0 THEN 0 ELSE n, t, p)
  <1>1. /\ us \in [1..(3 + m) -> CptUnit]
        /\ us[1][1] = "magic" /\ us[2][1] = "version" /\ us[3][1] = "data"
    BY DEF CptRecorded
  <1>2. us[3 + 1] = <<"len", t>> /\ us[3 + (2 + t)] = <<"len", p>>
    <2>1. 1 \in 1..m /\ 2 + t \in 1..m
      OBVIOUS
    <2> QED BY <2>1 DEF CptRecorded, CptTwo
  <1>3. ASSUME NEW i \in 1..t PROVE 1 + i \in 1..m /\ us[3 + (1 + i)] = <<"is", n>>
    <2>1. 1 + i \in 1..m
      OBVIOUS
    <2> QED BY <2>1 DEF CptRecorded, CptTwo
  <1>4. ASSUME NEW i \in 1..p PROVE 2 + t + i \in 1..m /\ us[3 + (2 + t + i)] = <<"is", n>>
    <2>1. 2 + t + i \in 1..m
      OBVIOUS
    <2> QED BY <2>1 DEF CptRecorded, CptTwo
  <1>5. ASSUME NEW i \in 1..m
        PROVE  \/ us[3 + i] = <<"is", n>> /\ t + p # 0
               \/ us[3 + i] = <<"len", p>> \/ us[3 + i] = <<"len", t>>
    <2>1. CASE i = 1
      BY <1>2, <2>1
    <2>2. CASE 1 < i /\ i < 2 + t
      <3>1. i - 1 \in 1..t /\ 1 + (i - 1) = i /\ t + p # 0
        BY <2>2
      <3> QED BY <1>3, <3>1
    <2>3. CASE i = 2 + t
      BY <1>2, <2>3
    <2>4. CASE i > 2 + t
      <3>1. i - (2 + t) \in 1..p /\ 2 + t + (i - (2 + t)) = i /\ t + p # 0
        BY <2>4
      <3> QED BY <1>4, <3>1
    <2> QED BY <2>1, <2>2, <2>3, <2>4
  <1>6. CptHeld(us) = IF t + p = 0 THEN 0 ELSE n
    <2>1. \A i \in 1..m : us[3 + i] = <<"is", n>> \/ us[3 + i][1] = "len"
      BY <1>5
    <2>2. /\ (\E i \in 1..m : us[3 + i] = <<"is", n>>) => CptHeld(us) = n
          /\ (\A i \in 1..m : us[3 + i][1] = "len") => CptHeld(us) = 0
      BY <1>1, <2>1, CptHeldIs
    <2>3. CASE t > 0
      <3>1. 1 \in 1..t
        BY <2>3
      <3>2. \E i \in 1..m : us[3 + i] = <<"is", n>>
        BY <1>3, <3>1
      <3> QED BY <2>2, <2>3, <3>2
    <2>4. CASE p > 0
      <3>1. 1 \in 1..p
        BY <2>4
      <3>2. \E i \in 1..m : us[3 + i] = <<"is", n>>
        BY <1>4, <3>1
      <3> QED BY <2>2, <2>4, <3>2
    <2>5. CASE t + p = 0
      <3>1. \A i \in 1..m : us[3 + i][1] = "len"
        BY <1>5, <2>5
      <3> QED BY <2>2, <2>5, <3>1
    <2> QED BY <2>3, <2>4, <2>5
  <1>7. Len(us) = 3 + m
    BY <1>1, LenProperties
  <1>8. "data" \notin CptScalars /\ "data" \notin CptFrames
    BY DEF CptScalars, CptFrames
  <1>9. /\ us[3 + 1][1] = "len" /\ us[3 + 1][2] = t
        /\ us[3 + (2 + t)][1] = "len" /\ us[3 + (2 + t)][2] = p
    BY <1>2
  <1>10. /\ ~(Len(us) < 3) /\ ~(Len(us) - 3 < 1) /\ ~(Len(us) - 3 < 2 + t)
         /\ ~(Len(us) - 3 < 2 + t + p)
    BY <1>7
  <1>11. CptParse(us) = CptEvent("data", CptHeld(us), t, p)
    BY <1>1, <1>8, <1>9, <1>10, Zenon DEF CptParse, CptHeld
  <1> QED BY <1>6, <1>11

\* And a scalar.
LEMMA CptParsesScalar ==
    ASSUME NEW kind \in CptScalars, NEW n \in Nat, NEW m \in Nat,
           NEW us, NEW c, m = IF kind = "leader" THEN 2 ELSE 1,
           CptRecorded(us, kind, c, m), \A i \in 1..m : c[i] = <<"is", n>>
    PROVE  CptParse(us) = CptEvent(kind, n, 0, 0)
  <1>1. /\ us \in [1..(3 + m) -> CptUnit]
        /\ us[1][1] = "magic" /\ us[2][1] = "version" /\ us[3][1] = kind
    BY DEF CptRecorded
  <1>2. \A i \in 1..m : us[3 + i] = <<"is", n>>
    BY DEF CptRecorded
  <1>3. CptHeld(us) = n
    <2>1. \A i \in 1..m : us[3 + i] = <<"is", n>> \/ us[3 + i][1] = "len"
      BY <1>2
    <2>2. 1 \in 1..m
      OBVIOUS
    <2>3. (\E i \in 1..m : us[3 + i] = <<"is", n>>) => CptHeld(us) = n
      BY <1>1, <2>1, CptHeldIs
    <2> QED BY <1>2, <2>2, <2>3
  <1>4. Len(us) = 3 + m
    BY <1>1, LenProperties
  <1>5. ~(Len(us) < 3) /\ ~(Len(us) - 3 < IF kind = "leader" THEN 2 ELSE 1)
    BY <1>4
  <1>6. CptParse(us) = CptEvent(kind, CptHeld(us), 0, 0)
    BY <1>1, <1>5, Zenon DEF CptParse, CptHeld
  <1> QED BY <1>3, <1>6

\* A record is no longer than it may be, and says what it was made of.
CptTold(us, e) ==
    /\ us \in Seq(CptUnit) /\ Len(us) <= CptMax
    /\ CptTells(CptParse(us), e)

\* A scalar is told as it was.
LEMMA CptScalarTold ==
    ASSUME NEW e \in CptSayable, e.kind \in CptScalars
    PROVE  CptTold(CptEncode(e), e)
  <1>1. PICK kind \in CptScalars, n \in Nat : kind = e.kind /\ n = e.n
    <2>1. e.n \in Nat
      BY DEF CptSayable
    <2> QED BY <2>1
  <1>2. PICK m \in Nat : m = IF kind = "leader" THEN 2 ELSE 1
    OBVIOUS
  <1>3. CptEncode(e) = CptPrefix(kind) \o CptUnits(n, m)
    <2>1. e.kind \notin CptFrames /\ e.kind # "state"
      BY <1>1 DEF CptScalars, CptFrames
    <2> QED BY <1>1, <1>2, Zenon DEF CptEncode
  <1>4. /\ CptUnits(n, m) \in [1..m -> CptUnit]
        /\ \A i \in 1..m : CptUnits(n, m)[i] = <<"is", n>>
    BY CptUnitsAre
  <1> DEFINE us == CptEncode(e)
  <1>5. CptRecorded(us, kind, CptUnits(n, m), m)
    <2>1. kind \in CptKinds
      BY <1>1 DEF CptKinds
    <2> QED BY <1>3, <1>4, <2>1, CptRecordedIs
  <1> HIDE DEF us
  <1>6. CptParse(us) = CptEvent(kind, n, 0, 0)
    BY <1>1, <1>2, <1>4, <1>5, CptParsesScalar
  <1>7. us \in Seq(CptUnit) /\ Len(us) <= CptMax
    <2>1. us \in [1..(3 + m) -> CptUnit]
      BY <1>5 DEF CptRecorded
    <2>2. us \in Seq(CptUnit) /\ Len(us) = 3 + m
      BY <2>1, LenProperties
    <2>3. m <= 2 /\ CptMax \in Nat /\ CptMax >= 8
      BY <1>2, CptAssumption
    <2> QED BY <2>2, <2>3
  <1>8. CptTells(CptParse(us), e)
    <2>1. e.tag = 0 /\ e.payload = 0 /\ e.kind \notin {"data", "host"}
      BY DEF CptSayable, CptScalars
    <2> QED BY <1>1, <1>6, <2>1 DEF CptTells, CptEvent
  <1> QED BY <1>7, <1>8 DEF CptTold, us

\* So is a frame or a text, cut at its end where there is no room.
LEMMA CptPartTold ==
    ASSUME NEW e \in CptSayable, e.kind \in CptFrames \cup CptTexts
    PROVE  CptTold(CptEncode(e), e)
  <1>1. PICK kind \in CptFrames \cup CptTexts, n \in Nat, q \in Nat :
           kind = e.kind /\ n = e.n /\ q = e.payload
    <2>1. e.n \in Nat /\ e.payload \in Nat
      BY DEF CptSayable
    <2> QED BY <2>1
  <1>2. PICK x \in Nat : x = CptFixed(kind) /\ x <= 4
    BY DEF CptFixed
  <1>3. PICK room \in Nat : room = CptMax - 3 - x - 1
    BY <1>2, CptAssumption
  <1>4. PICK p \in Nat : p = CptLeast(q, room) /\ p <= q /\ p <= room /\ (p = q \/ p = room)
    BY CptLeastIs
  <1>5. PICK m \in Nat : m = x + 1 + p
    OBVIOUS
  <1> DEFINE c == CptUnits(n, x) \o <<<<"len", p>>>> \o CptUnits(n, p)
             us == CptEncode(e)
  <1>6. us = CptPrefix(kind) \o c
    <2>1. e.kind \notin CptScalars /\ e.kind # "data"
      BY <1>1 DEF CptScalars, CptFrames, CptTexts
    <2> QED BY <1>1, <1>2, <1>3, <1>4, <2>1, Zenon DEF CptEncode, CptClamp, CptFixed
  <1>7. CptPart(c, n, x, p)
    BY CptPartIs
  <1> HIDE DEF c, us
  <1>8. CptRecorded(us, kind, c, m)
    <2>1. kind \in CptKinds /\ c \in [1..m -> CptUnit]
      BY <1>1, <1>5, <1>7 DEF CptKinds, CptPart
    <2> QED BY <1>6, <2>1, CptRecordedIs
  <1>9. CptParse(us) = CptEvent(kind, IF x + p = 0 THEN 0 ELSE n, 0, p)
    BY <1>1, <1>2, <1>5, <1>7, <1>8, CptParsesPart
  <1>10. PICK l \in Nat : us \in Seq(CptUnit) /\ l = Len(us) /\ l = 3 + m
    <2>1. us \in [1..(3 + m) -> CptUnit]
      BY <1>8 DEF CptRecorded
    <2>2. us \in Seq(CptUnit) /\ Len(us) = 3 + m
      BY <2>1, LenProperties
    <2> QED BY <2>2
  <1>11. l <= CptMax /\ (p < q => l = CptMax)
    <2>1. CptMax \in Nat /\ room = CptMax - 4 - x
      BY <1>3, CptAssumption
    <2>2. p <= room
      BY <1>4
    <2>3. p < q => p = room
      BY <1>4
    <2> QED BY <1>5, <1>10, <2>1, <2>2, <2>3
  <1>12. CptTells(CptParse(us), e)
    <2>1. e.tag = 0
      BY <1>1 DEF CptSayable, CptFrames, CptTexts
    <2>2. x = 0 <=> kind = "host"
      BY <1>1, <1>2 DEF CptFixed, CptFrames, CptTexts
    <2>3. kind # "data"
      BY <1>1 DEF CptFrames, CptTexts
    <2>4. (IF x + p = 0 THEN 0 ELSE n) = (IF kind \in {"data", "host"} /\ 0 + p = 0 THEN 0 ELSE n)
      BY <2>2, <2>3
    <2>5. Len(CptEncode(e)) = l
      BY <1>10 DEF us
    <2> DEFINE k == IF x + p = 0 THEN 0 ELSE n
               g == CptParse(us)
    <2> HIDE DEF k, g
    <2>6. g.kind = kind /\ g.n = k /\ g.tag = 0 /\ g.payload = p
      BY <1>9 DEF CptEvent, g, k
    <2>7. k = IF kind \in {"data", "host"} /\ 0 + p = 0 THEN 0 ELSE n
      BY <2>4 DEF k
    <2>8. CptTells(g, e)
      BY <1>1, <1>4, <1>11, <2>1, <2>5, <2>6, <2>7 DEF CptTells
    <2> QED BY <2>8 DEF g
  <1> QED BY <1>10, <1>11, <1>12 DEF CptTold, us

\* So is data, tag first.
LEMMA CptDataTold ==
    ASSUME NEW e \in CptSayable, e.kind = "data"
    PROVE  CptTold(CptEncode(e), e)
  <1>1. PICK n \in Nat, w \in Nat, q \in Nat : n = e.n /\ w = e.tag /\ q = e.payload
    BY DEF CptSayable
  <1>2. PICK room \in Nat : room = CptMax - 3 - 0 - 1 /\ room >= 4
    BY CptAssumption
  <1>3. PICK t \in Nat : /\ t = CptLeast(w, room - 1) /\ t <= w /\ t <= room - 1
                         /\ t = w \/ t = room - 1
    <2>1. PICK o \in Nat : o = room - 1
      BY <1>2
    <2> DEFINE x == CptLeast(w, o)
    <2>2. x \in Nat /\ x <= w /\ x <= o /\ (x = w \/ x = o)
      BY CptLeastIs
    <2> HIDE DEF x
    <2>3. \E t \in Nat : t = x /\ t <= w /\ t <= o /\ (t = w \/ t = o)
      BY <2>2
    <2> QED BY <2>1, <2>3 DEF x
  <1>4. PICK left \in Nat : left = room - 1 - t
    BY <1>3
  <1>5. PICK p \in Nat : p = CptLeast(q, left) /\ p <= q /\ p <= left /\ (p = q \/ p = left)
    <2> DEFINE x == CptLeast(q, left)
    <2>1. x \in Nat /\ x <= q /\ x <= left /\ (x = q \/ x = left)
      BY CptLeastIs
    <2> HIDE DEF x
    <2>2. \E p \in Nat : p = x /\ p <= q /\ p <= left /\ (p = q \/ p = left)
      BY <2>1
    <2> QED BY <2>2 DEF x
  <1>6. PICK m \in Nat : m = 2 + t + p
    OBVIOUS
  <1> DEFINE c == <<<<"len", t>>>> \o CptUnits(n, t) \o <<<<"len", p>>>> \o CptUnits(n, p)
             us == CptEncode(e)
  <1>7. us = CptPrefix("data") \o c
    <2>1. e.kind \notin CptScalars /\ e.kind \notin CptFrames /\ e.kind # "state"
      BY DEF CptScalars, CptFrames
    <2>2. (IF e.kind \in CptFrames THEN 4 ELSE IF e.kind = "state" THEN 1 ELSE 0) = 0
      BY <2>1
    <2>3. room = CptMax - 3 - 0 - 1
      BY <1>2
    <2>4. CptClamp(e.tag, room - 1) = t
      BY <1>1, <1>3 DEF CptClamp
    <2>5. CptClamp(e.payload, CptDataRoom(room, t)) = p
      BY <1>1, <1>4, <1>5 DEF CptClamp, CptDataRoom
    <2> QED BY <1>1, <2>1, <2>2, <2>3, <2>4, <2>5, ZenonT(60) DEF CptEncode
  <1>8. CptTwo(c, n, t, p)
    BY CptTwoIs
  <1> HIDE DEF c, us
  <1>9. CptRecorded(us, "data", c, m)
    <2>1. "data" \in CptKinds /\ c \in [1..m -> CptUnit]
      BY <1>6, <1>8 DEF CptKinds, CptTwo
    <2> QED BY <1>7, <2>1, CptRecordedIs
  <1>10. CptParse(us) = CptEvent("data", IF t + p = 0 THEN 0 ELSE n, t, p)
    BY <1>6, <1>8, <1>9, CptParsesTwo
  <1>11. PICK l \in Nat : us \in Seq(CptUnit) /\ l = Len(us) /\ l = 3 + m
    <2>1. us \in [1..(3 + m) -> CptUnit]
      BY <1>9 DEF CptRecorded
    <2>2. us \in Seq(CptUnit) /\ Len(us) = 3 + m
      BY <2>1, LenProperties
    <2> QED BY <2>2
  <1>12. l <= CptMax /\ (p < q \/ t < w => l = CptMax)
    <2>1. CptMax \in Nat /\ room = CptMax - 4
      BY <1>2, CptAssumption
    <2>2. t <= room - 1 /\ (t < w => t = room - 1)
      BY <1>1, <1>3
    <2>3. p <= left /\ (p < q => p = left)
      BY <1>1, <1>5
    <2>4. l <= CptMax
      BY <1>4, <1>6, <1>11, <2>1, <2>2, <2>3
    <2>5. p < q => l = CptMax
      BY <1>4, <1>6, <1>11, <2>1, <2>3
    <2>6. t < w => l = CptMax
      BY <1>4, <1>6, <1>11, <2>1, <2>2, <2>3
    <2> QED BY <2>4, <2>5, <2>6
  <1>13. CptTells(CptParse(us), e)
    <2>1. Len(CptEncode(e)) = l
      BY <1>11 DEF us
    <2> DEFINE k == IF t + p = 0 THEN 0 ELSE n
               g == CptParse(us)
    <2>2. k = IF t + p = 0 THEN 0 ELSE n
      OBVIOUS
    <2> HIDE DEF k, g
    <2>3. g.kind = "data" /\ g.n = k /\ g.tag = t /\ g.payload = p
      BY <1>10 DEF CptEvent, g, k
    <2>0. t <= w /\ p <= q
      BY <1>3, <1>5, Zenon
    <2>4. g.kind = e.kind /\ g.tag <= e.tag /\ g.payload <= e.payload
      BY <1>1, <2>0, <2>3
    <2>5. g.n = IF e.kind \in {"data", "host"} /\ g.tag + g.payload = 0 THEN 0 ELSE e.n
      BY <1>1, <2>2, <2>3
    <2>6. g.payload < e.payload \/ g.tag < e.tag => Len(CptEncode(e)) = CptMax
      BY <1>1, <1>12, <2>1, <2>3
    <2>7. CptTells(g, e)
      BY <2>4, <2>5, <2>6 DEF CptTells
    <2> QED BY <2>7 DEF g
  <1> QED BY <1>11, <1>12, <1>13 DEF CptTold, us

LEMMA CptAllTold ==
    ASSUME NEW e \in CptSayable
    PROVE  CptTold(CptEncode(e), e)
  <1>1. e.kind \in CptScalars \/ e.kind \in CptFrames \cup CptTexts \/ e.kind = "data"
    BY DEF CptSayable, CptKinds
  <1> QED BY <1>1, CptScalarTold, CptPartTold, CptDataTold
-----------------------------------------------------------------------------
(* Capture: what is on the disk, and what is read from it. *)

\* A part of a sequence.
LEMMA CptPartOf ==
    ASSUME NEW S, NEW s \in Seq(S), NEW a \in Nat, NEW k \in Nat, a + k <= Len(s)
    PROVE  /\ SubSeq(s, a + 1, a + k) \in Seq(S)
           /\ Len(SubSeq(s, a + 1, a + k)) = k
           /\ \A i \in 1..k : SubSeq(s, a + 1, a + k)[i] = s[a + i]
  <1>1. PICK l \in Nat : l = Len(s)
    BY LenProperties
  <1>2. PICK u \in Nat, v \in Nat : u = a + 1 /\ v = a + k
    OBVIOUS
  <1>3. ASSUME NEW i \in u..v PROVE s[i] \in S
    <2>1. i \in 1..Len(s)
      BY <1>1, <1>2
    <2> QED BY <2>1, ElementOfSeq
  <1>4. /\ SubSeq(s, u, v) \in Seq(S)
        /\ Len(SubSeq(s, u, v)) = IF u <= v THEN v - u + 1 ELSE 0
        /\ \A i \in 1..(v - u + 1) : SubSeq(s, u, v)[i] = s[u + i - 1]
    BY <1>3, SubSeqProperties
  <1>5. v - u + 1 = k /\ (u <= v => v - u + 1 = k) /\ (~(u <= v) => k = 0)
        /\ \A i \in 1..k : u + i - 1 = a + i
    BY <1>2
  <1> QED BY <1>2, <1>4, <1>5

\* A record behind its length, at a place on the disk.
CptLies(disk, at, us) ==
    /\ disk[at] = <<"len", Len(us)>>
    /\ \A i \in 1..Len(us) : disk[at + i] = us[i]

\* The header and the records of the events, one behind another, each at its p.
CptLaid(disk, said, k, p) ==
    /\ k \in Nat /\ said \in [1..k -> CptSayable] /\ p \in [0..k -> Nat]
    /\ disk \in Seq(CptUnit) /\ disk[1] = <<"pcap", 0>>
    /\ p[0] = 2 /\ p[k] = Len(disk) + 1
    /\ \A j \in 0..k : j + 2 <= p[j] /\ p[j] <= Len(disk) + 1
    /\ \A j \in 1..k : /\ p[j] = p[j - 1] + 1 + Len(CptEncode(said[j]))
                       /\ CptLies(disk, p[j - 1], CptEncode(said[j]))

CptWhole(disk, said) == \E k, p : CptLaid(disk, said, k, p)

\* The answers to the first j.
CptAnswers == {CptParse(CptEncode(e)) : e \in CptSayable}
CptGot(said, j) == [i \in 1..j |-> CptParse(CptEncode(said[i]))]
CptAt(said, p, j) == [at |-> p[j], got |-> CptGot(said, j)]

\* One more answer.
LEMMA CptGotMore ==
    ASSUME NEW k \in Nat, NEW said \in [1..k -> CptSayable], NEW j \in 0..k, j < k
    PROVE  Append(CptGot(said, j), CptParse(CptEncode(said[j + 1]))) = CptGot(said, j + 1)
  <1> DEFINE g == CptGot(said, j)
             x == CptParse(CptEncode(said[j + 1]))
             h == CptGot(said, j + 1)
  <1>1. /\ g \in [1..j -> CptAnswers] /\ x \in CptAnswers /\ j \in Nat
        /\ \A i \in 1..j : g[i] = CptParse(CptEncode(said[i]))
    BY DEF CptGot, CptAnswers
  <1>2. /\ h \in [1..(j + 1) -> CptAnswers] /\ h[j + 1] = x
        /\ \A i \in 1..j : h[i] = CptParse(CptEncode(said[i]))
    BY DEF CptGot, CptAnswers
  <1> HIDE DEF g, x, h
  <1>3. g \in Seq(CptAnswers) /\ Len(g) = j
    BY <1>1, LenProperties
  <1>4. /\ Append(g, x) \in Seq(CptAnswers) /\ Len(Append(g, x)) = j + 1
        /\ \A i \in 1..j : Append(g, x)[i] = g[i]
        /\ Append(g, x)[j + 1] = x
    BY <1>1, <1>3, AppendProperties
  <1>5. h \in Seq(CptAnswers) /\ Len(h) = j + 1
    BY <1>1, <1>2, LenProperties
  <1>6. \A i \in 1..(j + 1) : Append(g, x)[i] = h[i]
    <2> SUFFICES ASSUME NEW i \in 1..(j + 1) PROVE Append(g, x)[i] = h[i]
      OBVIOUS
    <2>1. i \in 1..j \/ i = j + 1
      BY <1>1
    <2> QED BY <1>1, <1>2, <1>4, <2>1
  <1>7. Append(g, x) = h
    BY <1>4, <1>5, <1>6, SeqEqual
  <1> QED BY <1>7 DEF g, x, h

\* A packet is read where it lies, and at the end nothing is.
LEMMA CptPacketRead ==
    ASSUME NEW disk, NEW said, NEW k, NEW p, CptLaid(disk, said, k, p), NEW j \in 0..k
    PROVE  CptPacket(disk, CptAt(said, p, j)) = CptAt(said, p, IF j < k THEN j + 1 ELSE j)
  <1>1. /\ k \in Nat /\ said \in [1..k -> CptSayable] /\ p \in [0..k -> Nat]
        /\ disk \in Seq(CptUnit)
    BY DEF CptLaid
  <1>2. PICK l \in Nat : l = Len(disk)
    BY <1>1, LenProperties
  <1>3. PICK a \in Nat : a = p[j]
    BY <1>1
  <1>4. CptAt(said, p, j).at = a /\ CptAt(said, p, j).got = CptGot(said, j)
    BY <1>3 DEF CptAt
  <1>5. CASE j < k
    <2>1. PICK e \in CptSayable : e = said[j + 1]
      <3>1. j + 1 \in 1..k
        BY <1>1, <1>5
      <3> QED BY <1>1, <3>1
    <2> DEFINE us == CptEncode(e)
    <2>2. PICK m \in Nat : us \in Seq(CptUnit) /\ m = Len(us) /\ m <= CptMax
      <3>1. CptTold(us, e)
        BY CptAllTold
      <3> HIDE DEF us
      <3>2. us \in Seq(CptUnit) /\ Len(us) <= CptMax
        BY <3>1 DEF CptTold
      <3> QED BY <3>2, LenProperties
    <2>3. p[j + 1] = a + 1 + m /\ p[j + 1] <= l + 1 /\ CptLies(disk, a, us)
      <3>1. j + 1 \in 1..k /\ (j + 1) - 1 = j /\ j + 1 \in 0..k
        BY <1>1, <1>5
      <3>2. /\ p[j + 1] = p[(j + 1) - 1] + 1 + Len(CptEncode(said[j + 1]))
            /\ CptLies(disk, p[(j + 1) - 1], CptEncode(said[j + 1]))
            /\ p[j + 1] <= Len(disk) + 1
        BY <3>1 DEF CptLaid
      <3> QED BY <1>2, <1>3, <2>1, <2>2, <3>1, <3>2
    <2> HIDE DEF us
    <2>4. a + m <= l /\ ~(a > l) /\ CptLeast(a, l) = a
      BY <2>3 DEF CptLeast
    <2>5. disk[a] = <<"len", m>> /\ \A i \in 1..m : disk[a + i] = us[i]
      BY <2>2, <2>3 DEF CptLies
    <2>6. SubSeq(disk, a + 1, a + m) = us
      <3>1. a + m <= Len(disk)
        BY <1>2, <2>4
      <3>2. /\ SubSeq(disk, a + 1, a + m) \in Seq(CptUnit)
            /\ Len(SubSeq(disk, a + 1, a + m)) = m
            /\ \A i \in 1..m : SubSeq(disk, a + 1, a + m)[i] = disk[a + i]
        BY <1>1, <3>1, CptPartOf
      <3>3. \A i \in 1..m : SubSeq(disk, a + 1, a + m)[i] = us[i]
        BY <2>5, <3>2
      <3> QED BY <2>2, <3>2, <3>3, SeqEqual
    <2>7. ~(m > CptMax) /\ ~(a + m > l) /\ a + m + 1 = p[j + 1]
      BY <2>2, <2>3, <2>4, CptAssumption
    <2>8. disk[a][1] = "len" /\ disk[a][2] = m
      BY <2>5
    <2>9. CptPacket(disk, CptAt(said, p, j))
             = [at |-> a + m + 1, got |-> Append(CptGot(said, j), CptParse(us))]
      BY <1>2, <1>4, <2>4, <2>6, <2>7, <2>8, Zenon DEF CptPacket
    <2>10. Append(CptGot(said, j), CptParse(us)) = CptGot(said, j + 1)
      BY <1>1, <1>5, <2>1, CptGotMore DEF us
    <2> QED BY <1>5, <2>7, <2>9, <2>10 DEF CptAt
  <1>6. CASE ~(j < k)
    <2>1. j = k /\ a = l + 1
      BY <1>1, <1>2, <1>3, <1>6 DEF CptLaid
    <2>2. a > l
      BY <2>1
    <2> QED BY <1>2, <1>4, <1>6, <2>2, Zenon DEF CptPacket
  <1> QED BY <1>5, <1>6
\* The dump of a file laid out so is the answers to all its records.
LEMMA CptDumpRead ==
    ASSUME NEW disk, NEW said, NEW k, NEW p, CptLaid(disk, said, k, p)
    PROVE  CptDump(disk) = CptGot(said, k)
  <1> DEFINE n == Len(disk)
             x0 == [at |-> 2, got |-> <<>>]
             Solves(h) == h = [i \in 0..n |-> IF i = 0 THEN x0 ELSE CptPacket(disk, h[i - 1])]
             read == CHOOSE h : Solves(h)
             D == {CptAt(said, p, j) : j \in 0..k}
             step == [q \in (1..n) \X D |-> CptPacket(disk, q[2])]
  <1>1. /\ k \in Nat /\ p \in [0..k -> Nat] /\ disk \in Seq(CptUnit) /\ disk[1] = <<"pcap", 0>>
        /\ p[0] = 2 /\ p[k] = Len(disk) + 1 /\ k + 2 <= p[k]
    BY DEF CptLaid
  <1>2. n \in Nat /\ k < n /\ n # 0
    <2>1. n \in Nat
      BY <1>1, LenProperties
    <2> QED BY <1>1, <2>1
  <1>3. CptDump(disk) = read[n].got
    <2>1. disk # <<>>
      BY <1>2, EmptySeq
    <2>2. disk[1][1] = "pcap"
      BY <1>1
    <2> QED BY <2>1, <2>2 DEF CptDump
  <1>4. x0 = CptAt(said, p, 0)
    <2>1. CptGot(said, 0) = <<>>
      BY DEF CptGot
    <2> QED BY <1>1, <2>1 DEF CptAt
  <1>5. 0 \in 0..k /\ x0 \in D
    BY <1>1, <1>4
  <1>6. ASSUME NEW x \in D PROVE CptPacket(disk, x) \in D
    <2>1. PICK j \in 0..k : x = CptAt(said, p, j)
      OBVIOUS
    <2>2. CptPacket(disk, x) = CptAt(said, p, IF j < k THEN j + 1 ELSE j)
      BY <2>1, CptPacketRead
    <2>3. (IF j < k THEN j + 1 ELSE j) \in 0..k
      BY <1>1
    <2> QED BY <2>2, <2>3
  <1>7. step \in [(1..n) \X D -> D]
    BY <1>6
  <1>8. \A i \in 1..n, x \in D : step[<<i, x>>] = CptPacket(disk, x)
    OBVIOUS
  <1> HIDE DEF D, step, x0, n
  <1>9. PICK g : StepsFrom(g, step, n, D, x0)
    <2>1. n \in Nat /\ x0 \in D /\ StepsIn(step, n, D)
      BY <1>2, <1>5, <1>7 DEF StepsIn
    <2> QED BY <2>1, StepsExist
  <1>10. /\ g \in [0..n -> D]
         /\ g[0] = x0
         /\ \A i \in 1..n : g[i] = step[<<i, g[i - 1]>>]
    BY <1>9 DEF StepsFrom
  <1>11. Solves(g)
    <2>1. ASSUME NEW i \in 0..n
          PROVE  g[i] = IF i = 0 THEN x0 ELSE CptPacket(disk, g[i - 1])
      <3>1. CASE i = 0
        BY <1>10, <3>1
      <3>2. CASE i # 0
        <4>1. i \in 1..n /\ i - 1 \in 0..n
          BY <1>2, <3>2
        <4>2. g[i] = step[<<i, g[i - 1]>>] /\ g[i - 1] \in D
          BY <1>10, <4>1
        <4>3. step[<<i, g[i - 1]>>] = CptPacket(disk, g[i - 1])
          BY <1>8, <4>1, <4>2
        <4> QED BY <3>2, <4>2, <4>3
      <3> QED BY <3>1, <3>2
    <2> QED BY <1>10, <2>1
  <1>12. Solves(read)
    <2> HIDE DEF Solves
    <2> QED BY <1>11
  <1> HIDE DEF read
  <1>13. /\ read[0] = x0
         /\ \A i \in 1..n : read[i] = CptPacket(disk, read[i - 1])
    BY <1>2, <1>12
  <1> DEFINE Upto(i) == IF i < k THEN i ELSE k
             S == {i \in 0..n : read[i] = CptAt(said, p, Upto(i))}
  <1>14. 0 \in S
    <2>1. Upto(0) = 0 /\ 0 \in 0..n
      BY <1>1, <1>2
    <2> HIDE DEF Upto
    <2> QED BY <1>4, <1>13, <2>1
  <1>15. \A i \in 0..n : i \in S /\ i < n => i + 1 \in S
    <2> SUFFICES ASSUME NEW i \in 0..n, i \in S, i < n PROVE i + 1 \in S
      OBVIOUS
    <2>1. i + 1 \in 1..n /\ (i + 1) - 1 = i /\ i + 1 \in 0..n
      BY <1>2
    <2>2. read[i + 1] = CptPacket(disk, read[i])
      BY <1>13, <2>1
    <2>3. Upto(i) \in 0..k
      BY <1>1
    <2>4. (IF Upto(i) < k THEN Upto(i) + 1 ELSE Upto(i)) = Upto(i + 1)
      BY <1>1
    <2> HIDE DEF Upto
    <2>5. read[i] = CptAt(said, p, Upto(i))
      OBVIOUS
    <2>6. CptPacket(disk, CptAt(said, p, Upto(i)))
             = CptAt(said, p, IF Upto(i) < k THEN Upto(i) + 1 ELSE Upto(i))
      BY <2>3, CptPacketRead
    <2>7. read[i + 1] = CptAt(said, p, Upto(i + 1))
      BY <2>2, <2>4, <2>5, <2>6
    <2> QED BY <2>1, <2>7
  <1> HIDE DEF S
  <1>16. n \in S
    BY <1>2, <1>14, <1>15, UptoClosed
  <1>17. read[n] = CptAt(said, p, k)
    <2>1. Upto(n) = k
      BY <1>1, <1>2
    <2> HIDE DEF Upto
    <2> QED BY <1>16, <2>1 DEF S
  <1>18. CptDump(disk) = read[n].got
    BY <1>3 DEF n
  <1> QED BY <1>17, <1>18 DEF CptAt

\* So every event is told, in order, and no other.
LEMMA CptWholeTells ==
    ASSUME NEW disk, NEW said, CptWhole(disk, said)
    PROVE  /\ said \in Seq(CptSayable)
           /\ Len(CptDump(disk)) = Len(said)
           /\ \A i \in 1..Len(said) : CptTells(CptDump(disk)[i], said[i])
  <1>1. PICK k, p : CptLaid(disk, said, k, p)
    BY DEF CptWhole
  <1>2. k \in Nat /\ said \in [1..k -> CptSayable]
    BY <1>1 DEF CptLaid
  <1>3. said \in Seq(CptSayable) /\ Len(said) = k
    BY <1>2, LenProperties
  <1>4. CptDump(disk) = CptGot(said, k)
    BY <1>1, CptDumpRead
  <1>5. /\ CptGot(said, k) \in [1..k -> CptAnswers]
        /\ \A i \in 1..k : CptGot(said, k)[i] = CptParse(CptEncode(said[i]))
    BY <1>2 DEF CptGot, CptAnswers
  <1>6. Len(CptGot(said, k)) = k
    BY <1>2, <1>5, LenProperties
  <1>7. ASSUME NEW i \in 1..k PROVE CptTells(CptGot(said, k)[i], said[i])
    <2>1. PICK e \in CptSayable : e = said[i]
      BY <1>2
    <2>2. CptTells(CptParse(CptEncode(e)), e)
      BY CptAllTold DEF CptTold
    <2> QED BY <1>5, <2>1, <2>2
  <1> QED BY <1>3, <1>4, <1>6, <1>7

\* What stdio holds of an event: its length, and then its record.
CptHeader(buf, e) ==
    buf \in [1..1 -> CptUnit] /\ buf[1] = <<"len", Len(CptEncode(e))>>
CptFull(buf, e) ==
    LET us == CptEncode(e)
    IN  /\ buf \in [1..(1 + Len(us)) -> CptUnit]
        /\ buf[1] = <<"len", Len(us)>>
        /\ \A i \in 1..Len(us) : buf[1 + i] = us[i]

\* One more record on the disk.
LEMMA CptWholeMore ==
    ASSUME NEW disk, NEW said, CptWhole(disk, said),
           NEW e \in CptSayable, NEW buf, CptFull(buf, e)
    PROVE  CptWhole(disk \o buf, Append(said, e))
  <1>1. PICK k, p : CptLaid(disk, said, k, p)
    BY DEF CptWhole
  <1>2. /\ k \in Nat /\ said \in [1..k -> CptSayable] /\ p \in [0..k -> Nat]
        /\ disk \in Seq(CptUnit) /\ disk[1] = <<"pcap", 0>>
    BY <1>1 DEF CptLaid
  <1>3. PICK l \in Nat : l = Len(disk) /\ p[k] = l + 1
    <2>1. Len(disk) \in Nat /\ p[k] = Len(disk) + 1
      BY <1>1, <1>2, LenProperties DEF CptLaid
    <2> QED BY <2>1
  <1> DEFINE us == CptEncode(e)
  <1>4. PICK m \in Nat : m = Len(us)
    <2>1. us \in Seq(CptUnit)
      BY CptAllTold DEF CptTold
    <2> HIDE DEF us
    <2> QED BY <2>1, LenProperties
  <1>5. /\ buf \in [1..(1 + m) -> CptUnit] /\ buf[1] = <<"len", m>>
        /\ \A i \in 1..m : buf[1 + i] = us[i]
    BY <1>4 DEF CptFull
  <1> DEFINE d == disk \o buf
             s == Append(said, e)
             q == [j \in 0..(k + 1) |-> IF j = k + 1 THEN l + 2 + m ELSE p[j]]
  <1>6. /\ d \in Seq(CptUnit) /\ Len(d) = l + (1 + m)
        /\ \A i \in 1..l : d[i] = disk[i]
        /\ \A i \in 1..(1 + m) : d[l + i] = buf[i]
    <2>1. disk \in [1..l -> CptUnit]
      BY <1>2, <1>3, LenProperties
    <2>2. 1 + m \in Nat
      OBVIOUS
    <2>3. CptJoined(disk \o buf, disk, l, buf, 1 + m, CptUnit)
      BY <1>5, <2>1, <2>2, CptJoin
    <2>4. d \in [1..(l + (1 + m)) -> CptUnit]
      BY <2>3 DEF CptJoined
    <2> HIDE DEF d
    <2>5. l + (1 + m) \in Nat
      OBVIOUS
    <2>6. d \in Seq(CptUnit) /\ Len(d) = l + (1 + m)
      BY <2>4, <2>5, LenProperties
    <2> QED BY <2>3, <2>6 DEF CptJoined, d
  <1>7. /\ s \in [1..(k + 1) -> CptSayable] /\ s[k + 1] = e
        /\ \A i \in 1..k : s[i] = said[i]
    <2>1. said \in Seq(CptSayable) /\ Len(said) = k
      BY <1>2, LenProperties
    <2>2. /\ s \in Seq(CptSayable) /\ Len(s) = k + 1 /\ s[k + 1] = e
          /\ \A i \in 1..k : s[i] = said[i]
      BY <2>1, AppendProperties
    <2> HIDE DEF s
    <2> QED BY <2>2, LenProperties
  <1>8. /\ q \in [0..(k + 1) -> Nat] /\ q[k + 1] = l + 2 + m
        /\ \A j \in 0..k : q[j] = p[j]
    <2>1. \A j \in 0..k : j \in 0..(k + 1) /\ j # k + 1 /\ p[j] \in Nat
      BY <1>2
    <2>2. k + 1 \in 0..(k + 1) /\ \A j \in 0..(k + 1) : j = k + 1 \/ j \in 0..k
      BY <1>2
    <2> QED BY <2>1, <2>2
  <1> HIDE DEF d, s, q, us
  <1>9. ASSUME NEW j \in 0..k PROVE j + 2 <= p[j] /\ p[j] <= l + 1
    BY <1>1, <1>3 DEF CptLaid
  <1>10. k + 1 \in Nat /\ 0 \in 0..k /\ q[0] = 2 /\ q[k + 1] = Len(d) + 1
    BY <1>1, <1>2, <1>6, <1>8 DEF CptLaid
  <1>11. d[1] = <<"pcap", 0>>
    <2>1. 0 \in 0..k
      BY <1>10
    <2>2. 2 <= l + 1
      BY <1>1, <1>9, <2>1 DEF CptLaid
    <2>3. 1 \in 1..l
      BY <2>2
    <2> QED BY <1>2, <1>6, <2>3
  <1>12. ASSUME NEW j \in 0..(k + 1) PROVE j + 2 <= q[j] /\ q[j] <= Len(d) + 1
    <2>1. CASE j \in 0..k
      <3>1. p[j] \in Nat
        BY <1>2, <2>1
      <3> QED BY <1>6, <1>8, <1>9, <2>1, <3>1
    <2>2. CASE j = k + 1
      <3>1. k \in 0..k
        BY <1>2
      <3>2. k + 2 <= l + 1
        BY <1>3, <1>9, <3>1
      <3> QED BY <1>2, <1>6, <1>8, <2>2, <3>2
    <2> QED BY <1>2, <2>1, <2>2
  <1>13. ASSUME NEW j \in 1..(k + 1)
         PROVE  /\ q[j] = q[j - 1] + 1 + Len(CptEncode(s[j]))
                /\ CptLies(d, q[j - 1], CptEncode(s[j]))
    <2>1. CASE j \in 1..k
      <3>1. j \in 0..k /\ j - 1 \in 0..k
        BY <1>2, <2>1
      <3>2. PICK f \in CptSayable : f = said[j] /\ f = s[j]
        BY <1>2, <1>7, <2>1
      <3> DEFINE vs == CptEncode(f)
      <3>3. PICK r \in Nat : r = Len(vs)
        <4>1. vs \in Seq(CptUnit)
          BY CptAllTold DEF CptTold
        <4> HIDE DEF vs
        <4> QED BY <4>1, LenProperties
      <3>4. p[j] = p[j - 1] + 1 + r /\ CptLies(disk, p[j - 1], vs)
        BY <1>1, <2>1, <3>2, <3>3 DEF CptLaid
      <3> HIDE DEF vs
      <3>5. PICK a \in Nat : a = p[j - 1] /\ a >= 1 /\ a + r <= l
        <4>1. p[j - 1] \in Nat /\ p[j] <= l + 1 /\ (j - 1) + 2 <= p[j - 1]
          BY <1>2, <1>9, <3>1
        <4> QED BY <2>1, <3>4, <4>1
      <3>6. disk[a] = <<"len", r>> /\ \A i \in 1..r : disk[a + i] = vs[i]
        BY <3>3, <3>4, <3>5 DEF CptLies
      <3>7. a \in 1..l /\ \A i \in 1..r : a + i \in 1..l
        BY <3>5
      <3>8. CptLies(d, a, vs)
        BY <1>6, <3>3, <3>6, <3>7 DEF CptLies
      <3> QED BY <1>8, <3>1, <3>2, <3>3, <3>4, <3>5, <3>8 DEF vs
    <2>2. CASE j = k + 1
      <3>1. j - 1 = k /\ k \in 0..k
        BY <1>2, <2>2
      <3>2. q[j - 1] = l + 1 /\ q[j] = l + 2 + m /\ s[j] = e
        BY <1>3, <1>7, <1>8, <2>2, <3>1
      <3>3. \A i \in 1..m : 1 + i \in 1..(1 + m) /\ l + (1 + i) = (l + 1) + i
        OBVIOUS
      <3>4. d[l + 1] = <<"len", m>>
        <4>1. 1 \in 1..(1 + m)
          OBVIOUS
        <4> QED BY <1>5, <1>6, <4>1
      <3>5. \A i \in 1..m : d[(l + 1) + i] = us[i]
        BY <1>5, <1>6, <3>3
      <3>6. CptLies(d, l + 1, us)
        BY <1>4, <3>4, <3>5 DEF CptLies
      <3> QED BY <1>4, <3>2, <3>6 DEF us
    <2> QED BY <1>2, <2>1, <2>2
  <1>14. CptLaid(d, s, k + 1, q)
    BY <1>6, <1>7, <1>8, <1>10, <1>11, <1>12, <1>13 DEF CptLaid
  <1> QED BY <1>14 DEF CptWhole, d, s
-----------------------------------------------------------------------------
(* Capture: every call of stdio leaves the disk readable. *)

CptSpec == (CptInit \/ CptOff) /\ [][CptNext]_cptVars

CptSteps == {"idle", "record", "flush"}
CptCarried == [kind : CptKinds, n : Nat, tag : Nat, payload : Nat]
CptRec == [open : BOOLEAN, disk : Seq(CptUnit), buf : Seq(CptUnit), room : Nat, freed : Nat,
           full : BOOLEAN, pc : CptSteps, n : Nat, e : CptCarried, said : Seq(CptSayable)]

CptTyped == cpt \in CptRec /\ (cpt.pc # "idle" => cpt.e \in CptSayable)

\* While the disk has room: what was said is there, and stdio holds no more
\* than what has been written of the event at hand.
CptTied ==
    /\ CptWhole(cpt.disk, cpt.said)
    /\ cpt.pc = "idle" => cpt.buf = <<>>
    /\ cpt.pc = "record" => CptHeader(cpt.buf, cpt.e)
    /\ cpt.pc = "flush" => CptFull(cpt.buf, cpt.e)

CptInv == CptTyped /\ (~cpt.full => CptTied)

\* What is cut out of a sequence, or behind another, is a sequence.
LEMMA CptCut ==
    ASSUME NEW S, NEW s \in Seq(S), NEW a \in Nat, NEW b \in Nat, b <= Len(s)
    PROVE  SubSeq(s, a + 1, b) \in Seq(S)
  <1>1. \A i \in (a + 1)..b : s[i] \in S
    <2> SUFFICES ASSUME NEW i \in (a + 1)..b PROVE s[i] \in S
      OBVIOUS
    <2>1. Len(s) \in Nat
      BY LenProperties
    <2>2. i \in 1..Len(s)
      BY <2>1
    <2> QED BY <2>2, ElementOfSeq
  <1>2. a + 1 \in Int /\ b \in Int
    OBVIOUS
  <1> QED BY <1>1, <1>2, SubSeqProperties

\* What fflush does.
CptPoured(d, c) ==
    /\ d \in CptRec /\ d.open = c.open /\ d.pc = c.pc /\ d.n = c.n /\ d.e = c.e
    /\ d.said = c.said /\ d.freed = c.freed
    /\ ~d.full => ~c.full /\ d.disk = c.disk \o c.buf /\ d.buf = <<>>

LEMMA CptPourIs ==
    ASSUME NEW c \in CptRec
    PROVE  CptPoured(CptPour(c), c)
  <1> DEFINE d == CptPour(c)
  <1>1. /\ c.buf \in Seq(CptUnit) /\ c.disk \in Seq(CptUnit) /\ c.room \in Nat
        /\ c.full \in BOOLEAN
    BY DEF CptRec
  <1>2. PICK l \in Nat : l = Len(c.buf)
    BY <1>1, LenProperties
  <1>3. PICK k \in Nat : k = CptLeast(l, c.room) /\ k <= l /\ k <= c.room
    <2>1. l \in Nat /\ c.room \in Nat
      BY <1>1
    <2> QED BY <2>1, CptLeastIs
  <1> DEFINE out == SubSeq(c.buf, 1, k)
             rest == SubSeq(c.buf, k + 1, l)
  <1>4. out \in Seq(CptUnit) /\ rest \in Seq(CptUnit) /\ c.disk \o out \in Seq(CptUnit)
    <2>1. 0 \in Nat /\ 0 + 1 = 1 /\ k <= Len(c.buf)
      BY <1>2, <1>3
    <2>2. out \in Seq(CptUnit)
      BY <1>1, <2>1, CptCut
    <2>3. rest \in Seq(CptUnit)
      BY <1>1, <1>2, CptCut
    <2> HIDE DEF out
    <2> QED BY <1>1, <2>2, <2>3, ConcatProperties
  <1>5. ASSUME k = l PROVE out = c.buf /\ rest = <<>>
    <2>1. out = c.buf
      BY <1>1, <1>2, <1>5, SubSeqFull
    <2>2. l < k + 1 /\ k + 1 \in Int /\ l \in Int
      BY <1>5
    <2> QED BY <2>1, <2>2, SubSeqEmpty
  <1>6. d = [c EXCEPT !.disk = @ \o out, !.buf = rest, !.room = @ - k, !.full = @ \/ k < l]
    BY <1>2, <1>3 DEF CptPour
  <1> HIDE DEF d, out, rest
  <1>7. c.room - k \in Nat /\ (c.full \/ k < l) \in BOOLEAN
    BY <1>1, <1>3
  <1>8. d \in CptRec
    BY <1>4, <1>6, <1>7 DEF CptRec
  <1>9. /\ d.open = c.open /\ d.pc = c.pc /\ d.n = c.n /\ d.e = c.e
        /\ d.said = c.said /\ d.freed = c.freed
        /\ d.disk = c.disk \o out /\ d.buf = rest /\ d.full = (c.full \/ k < l)
    BY <1>6 DEF CptRec
  <1>10. ASSUME ~d.full PROVE ~c.full /\ d.disk = c.disk \o c.buf /\ d.buf = <<>>
    <2>0. ~c.full /\ ~(k < l)
      BY <1>9, <1>10, Zenon
    <2>1. ~c.full /\ k = l
      BY <1>3, <2>0
    <2> QED BY <1>5, <1>9, <2>1
  <1>11. CptPoured(d, c)
    BY <1>8, <1>9, <1>10 DEF CptPoured
  <1> QED BY <1>11 DEF d

\* What fwrite does.
CptWritten(f, c, us) ==
    /\ f.ok \in BOOLEAN
    /\ f.c \in CptRec /\ f.c.open = c.open /\ f.c.pc = c.pc /\ f.c.n = c.n /\ f.c.e = c.e
    /\ f.c.said = c.said
    /\ ~f.c.full => ~c.full
    /\ Len(c.buf) + Len(us) <= CptBuf =>
          f.ok /\ f.c.disk = c.disk /\ f.c.buf = c.buf \o us /\ f.c.full = c.full

LEMMA CptFwriteIs ==
    ASSUME NEW c \in CptRec, NEW us \in Seq(CptUnit)
    PROVE  CptWritten(CptFwrite(c, us), c, us)
  <1> DEFINE f == CptFwrite(c, us)
             all == c.buf \o us
             cut == SubSeq(all, 1, CptBuf)
             b == [c EXCEPT !.buf = cut]
             poured == CptPour(b)
             rest == SubSeq(all, CptBuf + 1, Len(all))
  <1>1. c.buf \in Seq(CptUnit)
    BY DEF CptRec
  <1>2. PICK l \in Nat, m \in Nat : l = Len(c.buf) /\ m = Len(us)
    BY <1>1, LenProperties
  <1>3. all \in Seq(CptUnit) /\ Len(all) = l + m
    BY <1>1, <1>2, ConcatProperties
  <1> HIDE DEF all
  <1>4. CptBuf \in Nat
    BY CptAssumption
  <1>5. CASE Len(all) <= CptBuf
    <2>1. f = [c |-> [c EXCEPT !.buf = all], ok |-> TRUE]
      BY <1>5, Zenon DEF CptFwrite, all
    <2> HIDE DEF f
    <2>2. f.ok = TRUE /\ f.c = [c EXCEPT !.buf = all]
      BY <2>1
    <2>3. f.c \in CptRec
      BY <1>3, <2>2 DEF CptRec
    <2>4. /\ f.c.open = c.open /\ f.c.pc = c.pc /\ f.c.n = c.n /\ f.c.e = c.e
          /\ f.c.said = c.said /\ f.c.disk = c.disk /\ f.c.buf = all /\ f.c.full = c.full
      BY <2>2 DEF CptRec
    <2>5. CptWritten(f, c, us)
      BY <2>2, <2>3, <2>4 DEF CptWritten, all
    <2> QED BY <2>5 DEF f
  <1>6. CASE ~(Len(all) <= CptBuf)
    <2>1. cut \in Seq(CptUnit)
      <3>1. 0 + 1 = 1 /\ 0 \in Nat /\ CptBuf <= Len(all)
        BY <1>3, <1>4, <1>6
      <3> QED BY <1>3, <1>4, <3>1, CptCut
    <2>2. rest \in Seq(CptUnit)
      <3>1. Len(all) \in Nat /\ Len(all) <= Len(all)
        BY <1>3
      <3> QED BY <1>3, <1>4, <3>1, CptCut
    <2> HIDE DEF cut, rest
    <2>3. /\ b \in CptRec /\ b.open = c.open /\ b.pc = c.pc /\ b.n = c.n /\ b.e = c.e
          /\ b.said = c.said /\ b.full = c.full
      BY <2>1 DEF CptRec
    <2> HIDE DEF b
    <2>4. CptPoured(poured, b)
      BY <2>3, CptPourIs
    <2> HIDE DEF poured
    <2>5. /\ poured \in CptRec /\ poured.open = c.open /\ poured.pc = c.pc /\ poured.n = c.n
          /\ poured.e = c.e /\ poured.said = c.said /\ (~poured.full => ~c.full)
      BY <2>3, <2>4 DEF CptPoured
    <2> DEFINE x == [poured EXCEPT !.buf = rest]
    <2>6. /\ x \in CptRec /\ x.open = c.open /\ x.pc = c.pc /\ x.n = c.n
          /\ x.e = c.e /\ x.said = c.said /\ x.full = poured.full
      BY <2>2, <2>5 DEF CptRec
    <2> HIDE DEF x
    <2>7. f = [c |-> poured, ok |-> FALSE] \/ f = [c |-> x, ok |-> TRUE]
      BY <1>6, Zenon DEF CptFwrite, all, poured, b, cut, rest, x
    <2>8. ~(Len(c.buf) + Len(us) <= CptBuf)
      BY <1>2, <1>3, <1>6
    <2> HIDE DEF f
    <2>9. f.ok \in BOOLEAN /\ (f.c = poured \/ f.c = x)
      <3>1. CASE f = [c |-> poured, ok |-> FALSE]
        BY <3>1
      <3>2. CASE f = [c |-> x, ok |-> TRUE]
        BY <3>2
      <3> QED BY <2>7, <3>1, <3>2
    <2>10. /\ f.c \in CptRec /\ f.c.open = c.open /\ f.c.pc = c.pc /\ f.c.n = c.n /\ f.c.e = c.e
           /\ f.c.said = c.said /\ (~f.c.full => ~c.full)
      <3>1. CASE f.c = poured
        BY <2>5, <3>1
      <3>2. CASE f.c = x
        BY <2>5, <2>6, <3>2
      <3> QED BY <2>9, <3>1, <3>2
    <2>11. CptWritten(f, c, us)
      BY <2>8, <2>9, <2>10 DEF CptWritten
    <2> QED BY <2>11 DEF f
  <1> QED BY <1>5, <1>6
\* What a record is made of.
LEMMA CptRecordIs ==
    ASSUME NEW e \in CptSayable
    PROVE  /\ CptEncode(e) \in Seq(CptUnit)
           /\ Len(CptEncode(e)) \in Nat /\ Len(CptEncode(e)) <= CptMax
           /\ CptEncode(e) \in [1..Len(CptEncode(e)) -> CptUnit]
           /\ <<"len", Len(CptEncode(e))>> \in CptUnit
  <1> DEFINE us == CptEncode(e)
  <1>1. us \in Seq(CptUnit) /\ Len(us) <= CptMax
    BY CptAllTold DEF CptTold
  <1> HIDE DEF us
  <1>2. Len(us) \in Nat /\ us \in [1..Len(us) -> CptUnit]
    BY <1>1, LenProperties
  <1>3. <<"len", Len(us)>> \in CptUnit
    BY <1>2 DEF CptUnit, CptMarks
  <1> QED BY <1>1, <1>2, <1>3 DEF us

\* The header of a packet fits what stdio holds.
LEMMA CptBegins ==
    ASSUME CptInv, NEW n \in 1..CptWrites, NEW e \in CptEvents(n), CptBegin(e)
    PROVE  CptInv'
  <1>1. cpt \in CptRec /\ cpt.pc = "idle"
    BY DEF CptInv, CptTyped, CptBegin
  <1>2. e \in CptSayable /\ e \in CptCarried /\ e.n \in Nat
    <2>1. n \in Nat \ {0}
      BY CptAssumption
    <2>2. e \in CptSayable
      BY <2>1, CptSays
    <2> QED BY <2>2 DEF CptSayable, CptCarried
  <1> DEFINE head == <<<<"len", Len(CptEncode(e))>>>>
             f == CptFwrite(cpt, head)
  <1>3. head \in [1..1 -> CptUnit] /\ head[1] = <<"len", Len(CptEncode(e))>>
    BY <1>2, CptRecordIs, CptOne
  <1>4. cpt' = [f.c EXCEPT !.n = e.n, !.e = e, !.pc = IF f.ok THEN "record" ELSE "idle"]
    BY DEF CptBegin
  <1> HIDE DEF head
  <1>5. head \in Seq(CptUnit) /\ \E o \in Nat : o = 1 /\ Len(head) = o
    BY <1>3, CptOneLong
  <1>6. CptWritten(f, cpt, head)
    BY <1>1, <1>5, CptFwriteIs
  <1> HIDE DEF f
  <1>7. f.c \in CptRec /\ f.ok \in BOOLEAN
    BY <1>6 DEF CptWritten
  <1>8. /\ cpt' \in CptRec /\ cpt'.disk = f.c.disk /\ cpt'.buf = f.c.buf /\ cpt'.full = f.c.full
        /\ cpt'.said = f.c.said /\ cpt'.e = e
        /\ cpt'.pc = IF f.ok THEN "record" ELSE "idle"
    BY <1>2, <1>4, <1>7 DEF CptRec, CptSteps
  <1>9. CptTyped'
    BY <1>2, <1>8 DEF CptTyped
  <1>10. ASSUME ~cpt'.full PROVE CptTied'
    <2>1. ~cpt.full
      BY <1>6, <1>8, <1>10 DEF CptWritten
    <2>2. CptWhole(cpt.disk, cpt.said) /\ cpt.buf = <<>>
      BY <1>1, <2>1 DEF CptInv, CptTied
    <2>3. Len(cpt.buf) + Len(head) <= CptBuf
      <3>1. \E z \in Nat : z = 0 /\ Len(cpt.buf) = z
        BY <2>2, EmptySeq
      <3> QED BY <1>5, <3>1, CptAssumption
    <2>4. f.ok /\ f.c.disk = cpt.disk /\ f.c.buf = cpt.buf \o head /\ f.c.said = cpt.said
      BY <1>6, <2>3 DEF CptWritten
    <2>5. cpt.buf \o head = head
      BY <1>5, <2>2, ConcatEmptySeq
    <2>6. CptHeader(head, e)
      BY <1>3 DEF CptHeader
    <2>7. /\ cpt'.disk = cpt.disk /\ cpt'.said = cpt.said /\ cpt'.buf = head
          /\ cpt'.pc = "record" /\ cpt'.e = e
      BY <1>8, <2>4, <2>5
    <2> QED BY <2>2, <2>6, <2>7 DEF CptTied
  <1> QED BY <1>9, <1>10 DEF CptInv

\* So does the record behind it.
LEMMA CptRecords ==
    ASSUME CptInv, CptRecord
    PROVE  CptInv'
  <1>1. cpt \in CptRec /\ cpt.pc = "record" /\ cpt.e \in CptSayable
    BY DEF CptInv, CptTyped, CptRecord
  <1> DEFINE us == CptEncode(cpt.e)
             f == CptFwrite(cpt, us)
  <1>2. PICK m \in Nat :
           m = Len(us) /\ us \in Seq(CptUnit) /\ us \in [1..m -> CptUnit] /\ m <= CptMax
    BY <1>1, CptRecordIs
  <1>3. cpt' = [f.c EXCEPT !.pc = IF f.ok THEN "flush" ELSE "idle"]
    BY DEF CptRecord
  <1> HIDE DEF us
  <1>4. CptWritten(f, cpt, us)
    BY <1>1, <1>2, CptFwriteIs
  <1> HIDE DEF f
  <1>5. f.c \in CptRec /\ f.ok \in BOOLEAN /\ f.c.e = cpt.e /\ f.c.said = cpt.said
    BY <1>4 DEF CptWritten
  <1>6. /\ cpt' \in CptRec /\ cpt'.disk = f.c.disk /\ cpt'.buf = f.c.buf /\ cpt'.full = f.c.full
        /\ cpt'.said = cpt.said /\ cpt'.e = cpt.e
        /\ cpt'.pc = IF f.ok THEN "flush" ELSE "idle"
    BY <1>3, <1>5 DEF CptRec, CptSteps
  <1>7. CptTyped'
    BY <1>1, <1>6 DEF CptTyped
  <1>8. ASSUME ~cpt'.full PROVE CptTied'
    <2>1. ~cpt.full
      BY <1>4, <1>6, <1>8 DEF CptWritten
    <2>2. CptWhole(cpt.disk, cpt.said) /\ CptHeader(cpt.buf, cpt.e)
      BY <1>1, <2>1 DEF CptInv, CptTied
    <2>3. cpt.buf \in [1..1 -> CptUnit] /\ cpt.buf[1] = <<"len", m>>
      BY <1>2, <2>2 DEF CptHeader, us
    <2>4. Len(cpt.buf) + Len(us) <= CptBuf
      <3>1. \E o \in Nat : o = 1 /\ Len(cpt.buf) = o
        BY <2>3, CptOneLong
      <3> QED BY <1>2, <3>1, CptAssumption
    <2>5. f.ok /\ f.c.disk = cpt.disk /\ f.c.buf = cpt.buf \o us
      BY <1>4, <2>4 DEF CptWritten
    <2>6. CptJoined(cpt.buf \o us, cpt.buf, 1, us, m, CptUnit)
      BY <1>2, <2>3, CptJoin
    <2>7. CptFull(cpt.buf \o us, cpt.e)
      <3>1. 1 \in 1..1
        OBVIOUS
      <3> QED BY <1>2, <2>3, <2>6, <3>1 DEF CptJoined, CptFull, us
    <2>8. /\ cpt'.disk = cpt.disk /\ cpt'.said = cpt.said /\ cpt'.buf = cpt.buf \o us
          /\ cpt'.pc = "flush" /\ cpt'.e = cpt.e
      BY <1>6, <2>5
    <2> QED BY <2>2, <2>7, <2>8 DEF CptTied
  <1> QED BY <1>7, <1>8 DEF CptInv

\* A flush that finds room puts both on the disk.
LEMMA CptFlushes ==
    ASSUME CptInv, CptFlush
    PROVE  CptInv'
  <1>1. cpt \in CptRec /\ cpt.pc = "flush" /\ cpt.e \in CptSayable
    BY DEF CptInv, CptTyped, CptFlush
  <1> DEFINE d == CptPour(cpt)
  <1>2. CptPoured(d, cpt)
    BY <1>1, CptPourIs
  <1>3. cpt' = [d EXCEPT !.pc = "idle", !.said = Append(@, cpt.e)]
    BY DEF CptFlush
  <1> HIDE DEF d
  <1>4. d \in CptRec /\ d.said = cpt.said /\ d.e = cpt.e
    BY <1>2 DEF CptPoured
  <1>5. Append(d.said, cpt.e) \in Seq(CptSayable)
    <2>1. d.said \in Seq(CptSayable)
      BY <1>4 DEF CptRec
    <2> QED BY <1>1, <2>1, AppendProperties
  <1>6. /\ cpt' \in CptRec /\ cpt'.disk = d.disk /\ cpt'.buf = d.buf /\ cpt'.full = d.full
        /\ cpt'.said = Append(cpt.said, cpt.e) /\ cpt'.e = cpt.e /\ cpt'.pc = "idle"
    BY <1>3, <1>4, <1>5 DEF CptRec, CptSteps
  <1>7. CptTyped'
    BY <1>6 DEF CptTyped
  <1>8. ASSUME ~cpt'.full PROVE CptTied'
    <2>1. ~cpt.full /\ d.disk = cpt.disk \o cpt.buf /\ d.buf = <<>>
      BY <1>2, <1>6, <1>8 DEF CptPoured
    <2>2. CptWhole(cpt.disk, cpt.said) /\ CptFull(cpt.buf, cpt.e)
      BY <1>1, <2>1 DEF CptInv, CptTied
    <2>3. CptWhole(cpt.disk \o cpt.buf, Append(cpt.said, cpt.e))
      BY <1>1, <2>2, CptWholeMore
    <2> QED BY <1>6, <2>1, <2>3 DEF CptTied
  <1> QED BY <1>7, <1>8 DEF CptInv

\* A file is closed with nothing left to write.
LEMMA CptCloses ==
    ASSUME CptInv, CptClose
    PROVE  CptInv'
  <1>1. cpt \in CptRec /\ cpt.pc = "idle"
    BY DEF CptInv, CptTyped, CptClose
  <1> DEFINE d == CptPour(cpt)
  <1>2. CptPoured(d, cpt)
    BY <1>1, CptPourIs
  <1>3. cpt' = [d EXCEPT !.open = FALSE]
    BY DEF CptClose
  <1> HIDE DEF d
  <1>4. d \in CptRec /\ d.said = cpt.said /\ d.pc = "idle"
    BY <1>1, <1>2 DEF CptPoured
  <1>5. /\ cpt' \in CptRec /\ cpt'.disk = d.disk /\ cpt'.buf = d.buf /\ cpt'.full = d.full
        /\ cpt'.said = cpt.said /\ cpt'.pc = "idle"
    BY <1>3, <1>4 DEF CptRec
  <1>6. CptTyped'
    BY <1>5 DEF CptTyped
  <1>7. ASSUME ~cpt'.full PROVE CptTied'
    <2>1. ~cpt.full /\ d.disk = cpt.disk \o cpt.buf /\ d.buf = <<>>
      BY <1>2, <1>5, <1>7 DEF CptPoured
    <2>2. CptWhole(cpt.disk, cpt.said) /\ cpt.buf = <<>>
      BY <1>1, <2>1 DEF CptInv, CptTied
    <2>3. cpt.disk \o cpt.buf = cpt.disk
      <3>1. cpt.disk \in Seq(CptUnit)
        BY <1>1 DEF CptRec
      <3> QED BY <2>2, <3>1, ConcatEmptySeq
    <2> QED BY <1>5, <2>1, <2>2, <2>3 DEF CptTied
  <1> QED BY <1>6, <1>7 DEF CptInv

\* Room comes too late to matter.
LEMMA CptFrees ==
    ASSUME CptInv, CptFree
    PROVE  CptInv'
  <1>1. cpt \in CptRec /\ cpt.full /\ cpt' = [cpt EXCEPT !.room = @ + cpt.freed, !.freed = 0]
    BY DEF CptInv, CptTyped, CptFree
  <1>2. cpt.room + cpt.freed \in Nat /\ 0 \in Nat
    BY <1>1 DEF CptRec
  <1>3. cpt' \in CptRec /\ cpt'.full = cpt.full /\ cpt'.pc = cpt.pc /\ cpt'.e = cpt.e
    BY <1>1, <1>2 DEF CptRec
  <1> QED BY <1>1, <1>3 DEF CptInv, CptTyped

\* Nothing is said of a file that has only its header.
LEMMA CptStarts ==
    ASSUME CptInit \/ CptOff
    PROVE  CptInv
  <1>1. PICK capturing \in BOOLEAN, recording \in BOOLEAN : CptStart(capturing, recording)
    BY DEF CptInit, CptOff
  <1> DEFINE file == <<<<"pcap", 0>>>>
             said == <<>>
  <1>2. /\ cpt = [open |-> capturing, disk |-> file, buf |-> <<>>, room |-> CptRoom,
                  freed |-> CptFreed, full |-> FALSE, pc |-> "idle", n |-> 0,
                  e |-> CptEvent("ptt", 0, 0, 0), said |-> said]
    BY <1>1 DEF CptStart
  <1>3. file \in [1..1 -> CptUnit] /\ file[1] = <<"pcap", 0>>
    <2>1. <<"pcap", 0>> \in CptUnit
      BY DEF CptUnit, CptMarks
    <2> QED BY <2>1, CptOne
  <1>4. said \in Seq(CptSayable) /\ said \in [1..0 -> CptSayable] /\ <<>> \in Seq(CptUnit)
    <2>1. said = [i \in 1..0 |-> i]
      OBVIOUS
    <2>2. said \in [1..0 -> CptSayable]
      BY <2>1
    <2>3. said \in Seq(CptSayable) /\ <<>> \in Seq(CptUnit)
      BY EmptySeq
    <2> QED BY <2>2, <2>3
  <1>5. CptEvent("ptt", 0, 0, 0) \in CptCarried
    BY DEF CptEvent, CptCarried, CptKinds, CptScalars
  <1> HIDE DEF file, said
  <1>6. PICK l \in Nat : file \in Seq(CptUnit) /\ l = 1 /\ Len(file) = l
    BY <1>3, CptOneLong
  <1>7. cpt \in CptRec /\ cpt.pc = "idle" /\ cpt.disk = file /\ cpt.said = said /\ cpt.buf = <<>>
    BY <1>2, <1>4, <1>5, <1>6, CptAssumption DEF CptRec, CptSteps
  <1> DEFINE p == [j \in 0..0 |-> 2]
  <1>8. p \in [0..0 -> Nat] /\ p[0] = 2
    OBVIOUS
  <1> HIDE DEF p
  <1>9. CptLaid(file, said, 0, p)
    <2>1. p[0] = Len(file) + 1
      BY <1>6, <1>8
    <2>2. \A j \in 0..0 : j + 2 <= p[j] /\ p[j] <= Len(file) + 1
      BY <1>6, <1>8
    <2>3. \A j \in 1..0 : FALSE
      OBVIOUS
    <2> QED BY <1>3, <1>4, <1>6, <1>8, <2>1, <2>2, <2>3 DEF CptLaid
  <1>10. CptWhole(file, said)
    BY <1>9 DEF CptWhole
  <1> QED BY <1>7, <1>10 DEF CptInv, CptTyped, CptTied

LEMMA CptStays ==
    ASSUME CptInv, cpt' = cpt
    PROVE  CptInv'
BY DEF CptInv, CptTyped, CptTied

\* The invariant of the capture: what was said is on the disk, whole and in
\* order, and nothing else of it is in the hands of stdio.
THEOREM CaptureInvariant == CptSpec => []CptInv
  <1>1. CptInit \/ CptOff => CptInv
    BY CptStarts
  <1>2. CptInv /\ [CptNext]_cptVars => CptInv'
    <2> SUFFICES ASSUME CptInv, [CptNext]_cptVars PROVE CptInv'
      OBVIOUS
    <2>1. ASSUME NEW n \in 1..CptWrites, NEW e \in CptEvents(n), CptBegin(e) PROVE CptInv'
      BY <2>1, CptBegins
    <2>2. CASE CptRecord
      BY <2>2, CptRecords
    <2>3. CASE CptFlush
      BY <2>3, CptFlushes
    <2>4. CASE CptClose
      BY <2>4, CptCloses
    <2>5. CASE CptFree
      BY <2>5, CptFrees
    <2>6. ASSUME NEW n \in WavBlocks, WavAppend(n) PROVE CptInv'
      BY <2>6, CptStays DEF WavAppend
    <2>7. CASE WavPatch
      BY <2>7, CptStays DEF WavPatch
    <2>8. CASE WavClose
      BY <2>8, CptStays DEF WavClose
    <2>9. CASE UNCHANGED cptVars
      BY <2>9, CptStays DEF cptVars
    <2> QED BY <2>1, <2>2, <2>3, <2>4, <2>5, <2>6, <2>7, <2>8, <2>9 DEF CptNext
  <1> QED BY <1>1, <1>2, PTL DEF CptSpec

\* Killed at any point, the process leaves a file in which every event said is
\* read as it was (capture.c, ardop_pcap_dump.c), whatever the sizes of a
\* record and of stdio's buffer, as long as the one fits the other.
THEOREM CaptureLosesNothing == CptSpec => []CptCrashLosesNothing
  <1>1. CptInv => CptCrashLosesNothing
    <2> SUFFICES ASSUME CptInv, ~cpt.full
                 PROVE  CptCrashLosesNothing
      BY DEF CptCrashLosesNothing
    <2>1. CptWhole(cpt.disk, cpt.said) /\ cpt \in CptRec
      BY DEF CptInv, CptTied, CptTyped
    <2>2. PICK got : got = CptDump(cpt.disk)
      OBVIOUS
    <2>3. /\ cpt.said \in Seq(CptSayable) /\ Len(got) = Len(cpt.said)
          /\ \A i \in 1..Len(cpt.said) : CptTells(got[i], cpt.said[i])
      BY <2>1, <2>2, CptWholeTells
    <2> DEFINE all == IF cpt.pc = "idle" THEN cpt.said ELSE Append(cpt.said, cpt.e)
    <2>4. \A i \in 1..Len(cpt.said) : all[i] = cpt.said[i]
      <3>1. CASE cpt.pc = "idle"
        BY <3>1
      <3>2. CASE cpt.pc # "idle"
        <4>1. cpt.e \in CptSayable
          BY <3>2 DEF CptInv, CptTyped
        <4> QED BY <2>3, <3>2, <4>1, AppendProperties
      <3> QED BY <3>1, <3>2
    <2> HIDE DEF all
    <2>5. Len(got) \in {Len(cpt.said), Len(all)} /\ \A i \in 1..Len(got) : CptTells(got[i], all[i])
      BY <2>3, <2>4
    <2> QED BY <2>2, <2>5 DEF CptCrashLosesNothing, all
  <1> QED BY <1>1, CaptureInvariant, PTL
-----------------------------------------------------------------------------
(* The recording. *)

WavSteps == {"idle", "samples", "riff", "data"}
WavRec == [open : BOOLEAN, pc : WavSteps, disk : Seq(Nat), buf : Seq(Nat), room : Nat,
           full : BOOLEAN, riff : Nat, data : Nat, total : Nat, heard : Nat]

\* While the length still fits its field.
WavFits(w) == 2 * w.total < WavWord

\* The samples on the disk and those in stdio's hands are the ones heard, in
\* order, and the header counts those that were there before the last block.
WavTied(w) ==
    /\ w.total = w.heard
    /\ \A i \in 1..Len(w.disk) : w.disk[i] = i
    /\ w.pc = "idle" => Len(w.disk) = w.total /\ w.data = 2 * w.total
    /\ w.pc = "samples" =>
          /\ Len(w.disk) + Len(w.buf) = w.total /\ Len(w.buf) <= Max(WavBlocks)
          /\ w.data = 2 * Len(w.disk)
          /\ \A i \in 1..Len(w.buf) : w.buf[i] = Len(w.disk) + i
    /\ w.pc \in {"riff", "data"} =>
          /\ Len(w.disk) = w.total
          /\ w.data <= 2 * w.total /\ w.data >= 2 * (w.total - Max(WavBlocks))

WavInv == wav \in WavRec /\ (~wav.full /\ WavFits(wav) => WavTied(wav))

\* There is a longest block.
LEMMA WavLongest ==
    /\ Max(WavBlocks) \in Nat
    /\ \A n \in WavBlocks : n \in Nat /\ n >= 1 /\ n <= Max(WavBlocks)
  <1>1. /\ WavBlocks \subseteq Nat \ {0}
        /\ \E longest \in WavBlocks : \A n \in WavBlocks : n <= longest
    BY CptAssumption
  <1>2. \E x \in WavBlocks : \A y \in WavBlocks : x >= y
    BY <1>1
  <1>3. Max(WavBlocks) \in WavBlocks /\ \A y \in WavBlocks : Max(WavBlocks) >= y
    BY <1>2, Zenon DEF Max
  <1>4. PICK m \in WavBlocks : m = Max(WavBlocks) /\ \A y \in WavBlocks : m >= y
    BY <1>3
  <1>5. m \in Nat
    BY <1>1
  <1>6. ASSUME NEW n \in WavBlocks PROVE n \in Nat /\ n >= 1 /\ n <= m
    <2>1. n \in Nat /\ n # 0
      BY <1>1
    <2>2. m >= n
      BY <1>4
    <2> QED BY <1>5, <2>1, <2>2
  <1> QED BY <1>4, <1>5, <1>6

LEMMA WavSmall ==
    ASSUME NEW a \in Nat, NEW w \in Nat, a < w
    PROVE  a % w = a
  OBVIOUS

LEMMA WavModType ==
    ASSUME NEW a \in Nat
    PROVE  a % WavWord \in Nat
  <1>1. WavWord \in Nat /\ WavWord > 0
    BY CptAssumption
  <1> QED BY <1>1

\* A block is put behind what is there, or the length no longer fits.
LEMMA WavAppends ==
    ASSUME WavInv, NEW n \in WavBlocks, WavAppend(n)
    PROVE  WavInv'
  <1> DEFINE room == WavWord - 1 - wav.total
             k == CptLeast(n, room)
             b == [i \in 1..k |-> wav.heard + i]
  <1>1. /\ wav \in WavRec /\ wav.pc = "idle" /\ wav.total \in Nat /\ wav.heard \in Nat
        /\ wav.disk \in Seq(Nat)
    BY DEF WavInv, WavRec, WavAppend
  <1>2. n \in Nat /\ n >= 1 /\ n <= Max(WavBlocks) /\ Max(WavBlocks) \in Nat
    BY WavLongest
  <1>3. WavWord \in Nat /\ WavWord >= 2
    BY CptAssumption
  <1>4. k = n \/ (k = room /\ room < n)
    BY <1>1, <1>2, <1>3 DEF CptLeast
  <1>5. wav' = IF k = 0 THEN [wav EXCEPT !.heard = @ + n]
               ELSE [wav EXCEPT !.pc = "samples", !.heard = @ + n, !.total = @ + k, !.buf = b]
    BY DEF WavAppend
  <1> HIDE DEF k, b
  <1>6. CASE k = n
    <2>1. n # 0
      BY <1>2
    <2>2. wav' = [wav EXCEPT !.pc = "samples", !.heard = @ + n, !.total = @ + n, !.buf = b]
      BY <1>5, <1>6, <2>1
    <2>3. b \in [1..n -> Nat] /\ \A i \in 1..n : b[i] = wav.heard + i
      BY <1>1, <1>2, <1>6 DEF b
    <2>4. b \in Seq(Nat) /\ Len(b) = n
      BY <1>2, <2>3, LenProperties
    <2>5. wav' \in WavRec
      <3>1. wav.heard + n \in Nat /\ wav.total + n \in Nat
        BY <1>1, <1>2
      <3> QED BY <1>1, <2>2, <2>4, <3>1 DEF WavRec, WavSteps
    <2>6. /\ wav'.pc = "samples" /\ wav'.heard = wav.heard + n /\ wav'.total = wav.total + n
          /\ wav'.buf = b /\ wav'.disk = wav.disk /\ wav'.data = wav.data /\ wav'.full = wav.full
      BY <1>1, <2>2 DEF WavRec
    <2>7. ASSUME ~wav'.full, WavFits(wav') PROVE WavTied(wav')
      <3>1. WavFits(wav)
        BY <1>1, <1>2, <1>3, <2>6, <2>7 DEF WavFits
      <3>2. /\ wav.total = wav.heard /\ (\A i \in 1..Len(wav.disk) : wav.disk[i] = i)
            /\ Len(wav.disk) = wav.total /\ wav.data = 2 * wav.total
        BY <1>1, <2>6, <2>7, <3>1 DEF WavInv, WavTied
      <3>3. wav'.total = wav'.heard
        BY <2>6, <3>2
      <3>4. Len(wav'.disk) + Len(wav'.buf) = wav'.total /\ Len(wav'.buf) <= Max(WavBlocks)
        BY <1>1, <1>2, <2>4, <2>6, <3>2
      <3>5. wav'.data = 2 * Len(wav'.disk)
        BY <2>6, <3>2
      <3>6. \A i \in 1..Len(wav'.buf) : wav'.buf[i] = Len(wav'.disk) + i
        BY <2>3, <2>4, <2>6, <3>2
      <3>7. \A i \in 1..Len(wav'.disk) : wav'.disk[i] = i
        BY <2>6, <3>2
      <3> QED BY <2>6, <3>3, <3>4, <3>5, <3>6, <3>7 DEF WavTied
    <2> QED BY <2>5, <2>7 DEF WavInv
  <1>7. CASE k = room /\ room < n
    <2>1. wav' \in WavRec
      <3>1. CASE k = 0
        <4>1. wav' = [wav EXCEPT !.heard = @ + n]
          BY <1>5, <3>1
        <4>2. wav.heard + n \in Nat
          BY <1>1, <1>2
        <4> QED BY <1>1, <4>1, <4>2 DEF WavRec
      <3>2. CASE k # 0
        <4>1. wav' = [wav EXCEPT !.pc = "samples", !.heard = @ + n, !.total = @ + k, !.buf = b]
          BY <1>5, <3>2
        <4>2. k \in Int /\ wav.total + k = WavWord - 1
          BY <1>1, <1>3, <1>7
        <4>3. wav.total + k \in Nat
          BY <1>3, <4>2
        <4>4. b \in Seq(Nat)
          <5>1. CASE k >= 0
            <6>1. k \in Nat
              BY <4>2, <5>1
            <6>2. b \in [1..k -> Nat]
              BY <1>1, <6>1 DEF b
            <6> QED BY <6>1, <6>2, LenProperties
          <5>2. CASE ~(k >= 0)
            <6>1. \A i \in 1..k : FALSE
              BY <4>2, <5>2
            <6>2. b = [i \in 1..0 |-> wav.heard + i]
              BY <4>2, <5>2 DEF b
            <6>3. b \in [1..0 -> Nat]
              BY <1>1, <6>2
            <6> QED BY <6>3, LenProperties
          <5> QED BY <5>1, <5>2
        <4>5. wav.heard + n \in Nat
          BY <1>1, <1>2
        <4> QED BY <1>1, <4>1, <4>3, <4>4, <4>5 DEF WavRec, WavSteps
      <3> QED BY <3>1, <3>2
    <2>2. ~WavFits(wav')
      <3>1. wav'.total = wav.total + k
        <4>1. CASE k = 0
          BY <1>1, <1>5, <4>1 DEF WavRec
        <4>2. CASE k # 0
          BY <1>1, <1>5, <4>2 DEF WavRec
        <4> QED BY <4>1, <4>2
      <3>2. wav'.total = WavWord - 1
        BY <1>1, <1>3, <1>7, <3>1
      <3>3. ~(2 * (WavWord - 1) < WavWord)
        BY <1>3
      <3> QED BY <3>2, <3>3 DEF WavFits
    <2> QED BY <2>1, <2>2 DEF WavInv
  <1> QED BY <1>4, <1>6, <1>7

\* The samples go to the disk before the header counts them.
LEMMA WavPatches ==
    ASSUME WavInv, WavPatch
    PROVE  WavInv'
  <1>1. /\ wav \in WavRec /\ wav.total \in Nat /\ wav.disk \in Seq(Nat) /\ wav.buf \in Seq(Nat)
        /\ wav.room \in Nat /\ wav.full \in BOOLEAN /\ wav.data \in Nat
        /\ wav.pc \in {"samples", "riff", "data"}
    BY DEF WavInv, WavRec, WavSteps, WavPatch
  <1>2. WavWord \in Nat /\ WavWord >= 2
    BY CptAssumption
  <1>3. PICK dl \in Nat, bl \in Nat : dl = Len(wav.disk) /\ bl = Len(wav.buf)
    BY <1>1, LenProperties
  <1>4. PICK k \in Nat : k = CptLeast(bl, wav.room) /\ k <= bl /\ k <= wav.room
    BY <1>1, CptLeastIs
  <1>5. PICK longest \in Nat : longest = Max(WavBlocks)
    BY WavLongest
  <1>6. CASE wav.pc = "samples"
    <2> DEFINE out == SubSeq(wav.buf, 1, k)
    <2>1. wav' = [wav EXCEPT !.pc = "riff", !.disk = @ \o out, !.buf = <<>>, !.room = @ - k,
                             !.full = @ \/ k < bl]
      BY <1>3, <1>4, <1>6 DEF WavPatch
    <2>2. out \in Seq(Nat)
      <3>1. 0 + 1 = 1 /\ 0 \in Nat /\ k <= Len(wav.buf)
        BY <1>3, <1>4
      <3> QED BY <1>1, <3>1, CptCut
    <2>3. k = bl => out = wav.buf
      BY <1>1, <1>3, SubSeqFull
    <2> HIDE DEF out
    <2>4. wav.disk \o out \in Seq(Nat) /\ <<>> \in Seq(Nat) /\ wav.room - k \in Nat
      BY <1>1, <1>4, <2>2, ConcatProperties, EmptySeq
    <2>5. wav' \in WavRec
      BY <1>1, <2>1, <2>4 DEF WavRec, WavSteps
    <2>6. /\ wav'.pc = "riff" /\ wav'.disk = wav.disk \o out /\ wav'.full = (wav.full \/ k < bl)
          /\ wav'.data = wav.data /\ wav'.total = wav.total /\ wav'.heard = wav.heard
      BY <1>1, <2>1 DEF WavRec
    <2>7. ASSUME ~wav'.full, WavFits(wav') PROVE WavTied(wav')
      <3>1. ~wav.full /\ ~(k < bl)
        BY <2>6, <2>7, Zenon
      <3>2. WavFits(wav)
        BY <2>6, <2>7 DEF WavFits
      <3>3. /\ wav.total = wav.heard /\ (\A i \in 1..dl : wav.disk[i] = i)
            /\ dl + bl = wav.total /\ bl <= longest /\ wav.data = 2 * dl
            /\ \A i \in 1..bl : wav.buf[i] = dl + i
        BY <1>3, <1>5, <1>6, <3>1, <3>2 DEF WavInv, WavTied
      <3>4. out = wav.buf
        BY <1>4, <2>3, <3>1
      <3>5. wav.disk \in [1..dl -> Nat] /\ wav.buf \in [1..bl -> Nat]
        BY <1>1, <1>3, LenProperties
      <3>6. CptJoined(wav'.disk, wav.disk, dl, wav.buf, bl, Nat)
        BY <2>6, <3>4, <3>5, CptJoin
      <3>7. Len(wav'.disk) = dl + bl
        <4>1. wav'.disk \in [1..(dl + bl) -> Nat] /\ dl + bl \in Nat
          BY <3>6 DEF CptJoined
        <4> QED BY <4>1, LenProperties
      <3>8. ASSUME NEW i \in 1..(dl + bl) PROVE wav'.disk[i] = i
        <4>1. CASE i <= dl
          <5>1. i \in 1..dl
            BY <4>1
          <5> QED BY <3>3, <3>6, <5>1 DEF CptJoined
        <4>2. CASE ~(i <= dl)
          <5>1. i - dl \in 1..bl /\ dl + (i - dl) = i
            BY <4>2
          <5>2. wav'.disk[dl + (i - dl)] = wav.buf[i - dl]
            BY <3>6, <5>1 DEF CptJoined
          <5> QED BY <3>3, <5>1, <5>2
        <4> QED BY <4>1, <4>2
      <3>9. Len(wav'.disk) = wav'.total /\ wav'.data <= 2 * wav'.total
            /\ wav'.data >= 2 * (wav'.total - longest)
        BY <2>6, <3>3, <3>7
      <3>10. wav'.total = wav'.heard
        BY <2>6, <3>3
      <3> QED BY <1>5, <2>6, <3>7, <3>8, <3>9, <3>10 DEF WavTied
    <2> QED BY <2>5, <2>7 DEF WavInv
  <1>7. CASE wav.pc = "riff"
    <2>1. wav' = [wav EXCEPT !.pc = "data", !.riff = (wav.total * 2 + 36) % WavWord]
      BY <1>7 DEF WavPatch
    <2>2. (wav.total * 2 + 36) % WavWord \in Nat
      <3>1. wav.total * 2 + 36 \in Nat
        BY <1>1
      <3> QED BY <3>1, WavModType
    <2>3. wav' \in WavRec
      BY <1>1, <2>1, <2>2 DEF WavRec, WavSteps
    <2>4. /\ wav'.pc = "data" /\ wav'.disk = wav.disk /\ wav'.full = wav.full
          /\ wav'.data = wav.data /\ wav'.total = wav.total /\ wav'.heard = wav.heard
      BY <1>1, <2>1 DEF WavRec
    <2>5. ASSUME ~wav'.full, WavFits(wav') PROVE WavTied(wav')
      <3>1. WavTied(wav)
        BY <2>4, <2>5 DEF WavInv, WavFits
      <3> QED BY <1>7, <2>4, <3>1 DEF WavTied
    <2> QED BY <2>3, <2>5 DEF WavInv
  <1>8. CASE wav.pc = "data"
    <2> DEFINE m == (wav.total * 2) % WavWord
    <2>1. wav' = [wav EXCEPT !.pc = "idle", !.data = m]
      BY <1>8 DEF WavPatch
    <2>2. m \in Nat
      <3>1. wav.total * 2 \in Nat
        BY <1>1
      <3> QED BY <3>1, WavModType
    <2>3. WavFits(wav) => m = 2 * wav.total
      <3> SUFFICES ASSUME WavFits(wav) PROVE m = 2 * wav.total
        OBVIOUS
      <3>1. wav.total * 2 \in Nat /\ wav.total * 2 = 2 * wav.total /\ wav.total * 2 < WavWord
        BY <1>1 DEF WavFits
      <3> QED BY <1>2, <3>1, WavSmall
    <2> HIDE DEF m
    <2>4. wav' \in WavRec
      BY <1>1, <2>1, <2>2 DEF WavRec, WavSteps
    <2>5. /\ wav'.pc = "idle" /\ wav'.disk = wav.disk /\ wav'.full = wav.full
          /\ wav'.data = m /\ wav'.total = wav.total /\ wav'.heard = wav.heard
      BY <1>1, <2>1 DEF WavRec
    <2>6. ASSUME ~wav'.full, WavFits(wav') PROVE WavTied(wav')
      <3>1. WavTied(wav) /\ m = 2 * wav.total
        BY <2>3, <2>5, <2>6 DEF WavInv, WavFits
      <3> QED BY <1>8, <2>5, <3>1 DEF WavTied
    <2> QED BY <2>4, <2>6 DEF WavInv
  <1> QED BY <1>1, <1>6, <1>7, <1>8

LEMMA WavCloses ==
    ASSUME WavInv, WavClose
    PROVE  WavInv'
  <1>1. wav \in WavRec /\ wav' = [wav EXCEPT !.open = FALSE]
    BY DEF WavInv, WavClose
  <1>2. /\ wav' \in WavRec /\ wav'.pc = wav.pc /\ wav'.disk = wav.disk /\ wav'.buf = wav.buf
        /\ wav'.full = wav.full /\ wav'.data = wav.data /\ wav'.total = wav.total
        /\ wav'.heard = wav.heard
    BY <1>1 DEF WavRec
  <1> QED BY <1>2 DEF WavInv, WavTied, WavFits

\* A recording starts with none.
LEMMA WavStarts ==
    ASSUME CptInit \/ CptOff
    PROVE  WavInv
  <1>1. PICK capturing \in BOOLEAN, recording \in BOOLEAN : CptStart(capturing, recording)
    BY DEF CptInit, CptOff
  <1>2. PICK riff \in Nat : riff = 36 % WavWord
    BY WavModType
  <1>3. wav = [open |-> recording, pc |-> "idle", disk |-> <<>>, buf |-> <<>>, room |-> WavRoom,
               full |-> FALSE, riff |-> riff, data |-> 0, total |-> 0, heard |-> 0]
    BY <1>1, <1>2 DEF CptStart
  <1>4. <<>> \in Seq(Nat) /\ \E z \in Nat : z = 0 /\ Len(<<>>) = z
    BY EmptySeq
  <1>5. wav \in WavRec
    BY <1>3, <1>4, CptAssumption DEF WavRec, WavSteps
  <1>6. /\ wav.pc = "idle" /\ wav.disk = <<>> /\ wav.data = 0 /\ wav.total = 0 /\ wav.heard = 0
    BY <1>3
  <1>7. Len(wav.disk) = 0 /\ \A i \in 1..Len(wav.disk) : FALSE
    BY <1>4, <1>6
  <1>8. WavTied(wav)
    BY <1>6, <1>7 DEF WavTied
  <1> QED BY <1>5, <1>8 DEF WavInv

\* The invariant of the recording: the samples on the disk are those heard,
\* and the header is behind them by at most the block being written.
THEOREM RecordingInvariant == CptSpec => []WavInv
  <1>1. CptInit \/ CptOff => WavInv
    BY WavStarts
  <1>2. WavInv /\ [CptNext]_cptVars => WavInv'
    <2> SUFFICES ASSUME WavInv, [CptNext]_cptVars PROVE WavInv'
      OBVIOUS
    <2>0. ASSUME UNCHANGED wav PROVE WavInv'
      BY <2>0 DEF WavInv, WavTied, WavFits
    <2>1. ASSUME NEW n \in 1..CptWrites, NEW e \in CptEvents(n), CptBegin(e) PROVE WavInv'
      BY <2>0, <2>1 DEF CptBegin
    <2>2. CASE CptRecord
      BY <2>0, <2>2 DEF CptRecord
    <2>3. CASE CptFlush
      BY <2>0, <2>3 DEF CptFlush
    <2>4. CASE CptClose
      BY <2>0, <2>4 DEF CptClose
    <2>5. CASE CptFree
      BY <2>0, <2>5 DEF CptFree
    <2>6. ASSUME NEW n \in WavBlocks, WavAppend(n) PROVE WavInv'
      BY <2>6, WavAppends
    <2>7. CASE WavPatch
      BY <2>7, WavPatches
    <2>8. CASE WavClose
      BY <2>8, WavCloses
    <2>9. CASE UNCHANGED cptVars
      BY <2>0, <2>9 DEF cptVars
    <2> QED BY <2>1, <2>2, <2>3, <2>4, <2>5, <2>6, <2>7, <2>8, <2>9 DEF CptNext
  <1> QED BY <1>1, <1>2, PTL DEF CptSpec

\* As long as its length in bytes fits the field that holds it, a recording is
\* playable at every point of its life.
LEMMA WavPlays ==
    ASSUME WavInv, WavFits(wav)
    PROVE  WavPlayable
  <1> SUFFICES ASSUME ~wav.full PROVE WavPlayable
    BY DEF WavPlayable
  <1>1. wav \in WavRec /\ WavTied(wav)
    BY DEF WavInv
  <1>2. wav.total \in Nat /\ wav.disk \in Seq(Nat) /\ wav.buf \in Seq(Nat) /\ wav.data \in Nat
        /\ wav.pc \in WavSteps
    BY <1>1 DEF WavRec
  <1>3. PICK dl \in Nat, bl \in Nat : dl = Len(wav.disk) /\ bl = Len(wav.buf)
    BY <1>2, LenProperties
  <1>4. PICK longest \in Nat : longest = Max(WavBlocks)
    BY WavLongest
  <1>5. \A i \in 1..dl : wav.disk[i] = i
    BY <1>1, <1>3 DEF WavTied
  <1>6. wav.data <= 2 * dl /\ wav.data >= 2 * (dl - longest)
    <2>1. CASE wav.pc \in {"idle", "samples"}
      <3>1. wav.data = 2 * dl
        BY <1>1, <1>3, <2>1 DEF WavTied
      <3> QED BY <1>4, <3>1
    <2>2. CASE wav.pc \in {"riff", "data"}
      <3>1. dl = wav.total /\ wav.data <= 2 * wav.total /\ wav.data >= 2 * (wav.total - longest)
        BY <1>1, <1>3, <1>4, <2>2 DEF WavTied
      <3> QED BY <3>1
    <2> QED BY <1>2, <2>1, <2>2 DEF WavSteps
  <1> QED BY <1>3, <1>4, <1>5, <1>6 DEF WavPlayable

\* Whatever ends the process (capture.c, wavwriter.c), both files it leaves can
\* be read to their end, for every size of a record, of a block and of stdio's
\* buffer, as long as the recording's length in bytes fits its field: beyond
\* that the field wraps, and WavHeaderTrue shows it.
THEOREM FilesReadable == CptSpec => [](2 * wav.total < WavWord => CptFilesReadable)
  <1>1. WavInv /\ CptCrashLosesNothing => (2 * wav.total < WavWord => CptFilesReadable)
    BY WavPlays DEF WavFits, CptFilesReadable
  <1> QED BY <1>1, RecordingInvariant, CaptureLosesNothing, PTL
=============================================================================
