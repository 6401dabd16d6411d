----------------------------- MODULE GearShift -----------------------------
(***************************************************************************)
(* The gear shift of a sending station: gearshift(), apply_shift() and     *)
(* the DataACK and DataNAK branches of step_iss_data_rx() in               *)
(* core/link/link.c, with the quality average of core/link/quality.c and   *)
(* the ladders of core/link/datamodes.c.                                   *)
(*                                                                         *)
(* mode_has_worked is a count in the code and a flag here: it is only      *)
(* compared with 0.  mode_naks is never read.  ack_ctr and nak_ctr stop at *)
(* the largest value they are compared with.                               *)
(***************************************************************************)
EXTENDS Integers

CONSTANTS
    Modes,       \* modes_len
    Cap,         \* Cap[m]: capacity of a frame of mode m, in units
    Thresholds,  \* Thresholds[m]: average quality above which to leave mode m
    Qualities,   \* qualities a DataACK or a DataNAK may report
    MaxTx        \* bound: units the host keeps queued

Ladder == 0..(Modes - 1)
Top == Modes - 1

\* The largest values ack_ctr and nak_ctr are compared with in gearshift().
AckLimit == 5
NakLimit == 2

ASSUME LadderAssumption == Modes \in Nat \ {0}
ASSUME TableAssumption ==
    /\ Cap \in [Ladder -> Nat \ {0}]
    /\ Thresholds \in [Ladder -> Nat]
ASSUME QualityAssumption == Qualities \subseteq Nat \ {0}
ASSUME QueueAssumption == MaxTx \in Nat

VARIABLES
    mode_ptr, avg_quality, ack_ctr, nak_ctr,
    has_worked,     \* modes with mode_has_worked # 0
    been_tried,     \* modes with mode_has_been_tried # 0
    tx,             \* tx_len, in units
    outstanding,    \* outstanding_len
    acks, naks,     \* history: successive DataACKs, successive DataNAKs, up to
                    \* AckLimit and NakLimit
    heard           \* history: the last answer, [k : kind, q : quality]

vars == <<mode_ptr, avg_quality, ack_ctr, nak_ctr, has_worked, been_tried,
          tx, outstanding, acks, naks, heard>>

Bounded(n, limit) == IF n > limit THEN limit ELSE n

\* ardop_quality_avg: 0 is "no report yet"; otherwise the mean, rounded up.
ardop_quality_avg(avg, reported) ==
    IF avg = 0 THEN reported ELSE (avg + reported + 1) \div 2

\* iss_begin_sending: a new sender starts at the most robust mode.
Start ==
    [mode_ptr |-> 0, avg_quality |-> 0, ack_ctr |-> 0, nak_ctr |-> 0,
     has_worked |-> {}, been_tried |-> {}]

-----------------------------------------------------------------------------
(* gearshift() maps the gear-shift fields, with the queue length left, to   *)
(* the fields after it and the shift it asks for.                          *)

Gear == [mode_ptr |-> mode_ptr, avg_quality |-> avg_quality,
         ack_ctr |-> ack_ctr, nak_ctr |-> nak_ctr,
         has_worked |-> has_worked, been_tried |-> been_tried]

down_naks(g) == IF g.mode_ptr \in g.has_worked THEN 2 ELSE 1

ShiftsDown(g) == g.mode_ptr > 0 /\ g.nak_ctr >= down_naks(g)

\* Mutant: a mode that failed is retried like any other.
ShiftsUp_forgets(g, remaining) ==
    /\ g.avg_quality > Thresholds[g.mode_ptr]
    /\ g.mode_ptr < Modes - 1 /\ g.ack_ctr >= 2
    /\ remaining > Cap[g.mode_ptr]

\* Mutant: the data left is not looked at.
ShiftsUp_for_nothing(g, remaining) ==
    /\ g.avg_quality > Thresholds[g.mode_ptr]
    /\ g.mode_ptr < Modes - 1 /\ g.ack_ctr >= 2
    /\ ~(/\ g.mode_ptr + 1 \in g.been_tried
         /\ g.mode_ptr + 1 \notin g.has_worked
         /\ g.ack_ctr < AckLimit)

ShiftsUp(g, remaining) ==
    /\ g.avg_quality > Thresholds[g.mode_ptr]
    /\ g.mode_ptr < Modes - 1 /\ g.ack_ctr >= 2
    /\ remaining > Cap[g.mode_ptr]
    /\ ~(/\ g.mode_ptr + 1 \in g.been_tried
         /\ g.mode_ptr + 1 \notin g.has_worked
         /\ g.ack_ctr < AckLimit)

\* A mode counts as working as soon as gearshift() sees an ACK counted.
Credited(g) ==
    IF g.ack_ctr > 0 THEN [g EXCEPT !.has_worked = @ \cup {g.mode_ptr}] ELSE g

Counters(g) == [g EXCEPT !.avg_quality = 0, !.nak_ctr = 0, !.ack_ctr = 0]

\* down_naks is decided before this answer is credited.
shift_up_dn(g, remaining) ==
    CASE ShiftsDown(g) -> -1
      [] ~ShiftsDown(g) /\ ShiftsUp(Credited(g), remaining) -> 1
      [] OTHER -> 0

gearshift(g, remaining) ==
    CASE shift_up_dn(g, remaining) = -1 -> Counters(Credited(g))
      [] shift_up_dn(g, remaining) = 1 ->
             [Counters(Credited(g)) EXCEPT !.been_tried = @ \cup {g.mode_ptr + 1}]
      [] OTHER -> Credited(g)

\* apply_shift clamps to modes_len, one past the ladder: only the guard of
\* ShiftsUp keeps the pointer on it.
apply_shift(g, shift) ==
    [g EXCEPT !.mode_ptr = CASE shift < 0 -> IF @ > 0 THEN @ - 1 ELSE @
                             [] shift > 0 -> Bounded(@ + 1, Modes)
                             [] OTHER -> @]

-----------------------------------------------------------------------------
(* Answers and what the host does meanwhile *)

Set(g) ==
    /\ mode_ptr' = g.mode_ptr /\ avg_quality' = g.avg_quality
    /\ ack_ctr' = g.ack_ctr /\ nak_ctr' = g.nak_ctr
    /\ has_worked' = g.has_worked /\ been_tried' = g.been_tried

\* iss_send_next: a data frame of the current mode, or an IDLE (0).
SendNext(ptr, len) == outstanding' = Bounded(len, Cap[ptr])

Init ==
    /\ mode_ptr = 0 /\ avg_quality = 0 /\ ack_ctr = 0 /\ nak_ctr = 0
    /\ has_worked = {} /\ been_tried = {}
    /\ tx = 0 /\ outstanding = 0
    /\ acks = 0 /\ naks = 0
    /\ heard = [k |-> "NONE", q |-> 0]

\* Mutant: NAKs add up over the ACKs between them.
DataAck_keeps_naks(q) ==
    /\ outstanding > 0
    /\ LET g == [Gear EXCEPT !.ack_ctr = Bounded(@ + 1, AckLimit),
                             !.avg_quality = ardop_quality_avg(@, q)]
           left == tx - outstanding
           h == apply_shift(gearshift(g, left), shift_up_dn(g, left))
       IN  Set(h) /\ tx' = left /\ SendNext(h.mode_ptr, left)
    /\ acks' = Bounded(acks + 1, AckLimit) /\ naks' = 0
    /\ heard' = [k |-> "ACK", q |-> q]

\* step_iss_data_rx, a DataACK of the frame in flight.
DataAck(q) ==
    /\ outstanding > 0
    /\ LET g == [Gear EXCEPT !.ack_ctr = Bounded(@ + 1, AckLimit),
                             !.avg_quality = ardop_quality_avg(@, q)]
           left == tx - outstanding
           h == apply_shift([gearshift(g, left) EXCEPT !.nak_ctr = 0],
                            shift_up_dn(g, left))
       IN  Set(h) /\ tx' = left /\ SendNext(h.mode_ptr, left)
    /\ acks' = Bounded(acks + 1, AckLimit) /\ naks' = 0
    /\ heard' = [k |-> "ACK", q |-> q]

\* step_iss_data_rx, a DataNAK: the frame is resent at once if the mode
\* changes, by the repeat timer otherwise.
DataNak(q) ==
    /\ outstanding > 0
    /\ LET g == [Gear EXCEPT !.nak_ctr = Bounded(@ + 1, NakLimit),
                             !.avg_quality = ardop_quality_avg(@, q)]
           shift == shift_up_dn(g, tx)
           h == apply_shift([gearshift(g, tx) EXCEPT
                                 !.nak_ctr = IF shift # 0 THEN 0 ELSE @,
                                 !.ack_ctr = 0], shift)
       IN  /\ Set(h) /\ UNCHANGED tx
           /\ IF shift # 0 THEN SendNext(h.mode_ptr, tx)
              ELSE UNCHANGED outstanding
    /\ acks' = 0 /\ naks' = Bounded(naks + 1, NakLimit)
    /\ heard' = [k |-> "NAK", q |-> q]

\* step_idle_rx, a DataACK of an IDLE.
IdleAck ==
    /\ outstanding = 0 /\ tx > 0
    /\ SendNext(mode_ptr, tx)
    /\ UNCHANGED <<mode_ptr, avg_quality, ack_ctr, nak_ctr, has_worked,
                   been_tried, tx, acks, naks, heard>>

\* step_host_send_data
HostSendData ==
    /\ tx < MaxTx
    /\ tx' = tx + 1
    /\ UNCHANGED <<mode_ptr, avg_quality, ack_ctr, nak_ctr, has_worked,
                   been_tried, outstanding, acks, naks, heard>>

\* The link was yielded and regained, or a new session begins: both call
\* iss_begin_sending and iss_send_next.
BeginSending ==
    /\ Set(Start)
    /\ SendNext(0, tx) /\ UNCHANGED tx
    /\ acks' = 0 /\ naks' = 0
    /\ heard' = [k |-> "NONE", q |-> 0]

Answer == \E q \in Qualities : DataAck(q) \/ DataNak(q)

Next == Answer \/ IdleAck \/ HostSendData \/ BeginSending

Spec == Init /\ [][Next]_vars

\* The other station answers every frame sooner or later, data and IDLE.
FairSpec == Spec /\ WF_vars(Answer) /\ WF_vars(IdleAck)

-----------------------------------------------------------------------------
(* Properties *)

TypeOK ==
    /\ mode_ptr \in Ladder
    /\ avg_quality \in Nat
    /\ ack_ctr \in 0..AckLimit /\ nak_ctr \in 0..NakLimit
    /\ has_worked \subseteq Ladder /\ been_tried \subseteq Ladder
    /\ tx \in Nat /\ outstanding \in 0..tx
    /\ acks \in 0..AckLimit /\ naks \in 0..NakLimit
    /\ heard \in [k : {"NONE", "ACK", "NAK"}, q : Nat]

\* "Shifts down after DownNAKS consecutive NAKs (2 normally, 1 if the current
\* mode has never worked)" (gearshift): a step down answers a NAK, and leaves a
\* mode that has worked only if the answer before it was a NAK too.
DownOnlyOnNaks ==
    [][mode_ptr' = mode_ptr - 1 /\ heard'.k # "NONE" =>
           /\ heard'.k = "NAK"
           /\ mode_ptr \in has_worked => naks' = NakLimit]_vars

\* "Don't retry a mode that was tried and immediately failed until 5
\* successive ACKs" (gearshift).
RetryAfterFive ==
    [][mode_ptr' = mode_ptr + 1 /\ mode_ptr' \in been_tried
            /\ mode_ptr' \notin has_worked =>
           acks = AckLimit \/ acks' = AckLimit]_vars

\* What Link.tla assumes of the gear shift: one rung at a time, and up only
\* when the data left does not fit the current mode.
OneRung ==
    [][\/ mode_ptr' \in {mode_ptr, mode_ptr - 1}
       \/ mode_ptr' = mode_ptr + 1 /\ tx' > Cap[mode_ptr]
       \/ heard'.k = "NONE" /\ mode_ptr' = 0]_vars

\* A channel good enough for every mode is used: if from some point on every
\* answer is an ACK above all thresholds and there is always more to send than
\* the current mode holds, the fastest mode is reached.  This needs the
\* rounding of ardop_quality_avg and the counters gearshift() resets.
GoodAndBusy ==
    /\ heard.k = "ACK" /\ \A m \in Ladder : heard.q > Thresholds[m]
    /\ tx > Cap[mode_ptr]
Climbs == <>[]GoodAndBusy => <>(mode_ptr = Top)
=============================================================================
