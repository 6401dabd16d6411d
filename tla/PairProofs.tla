----------------------------- MODULE PairProofs -----------------------------
(***************************************************************************)
(* Proofs about LinkPair, for every ladder, payload and set of scenarios   *)
(* of one session: each host is handed the other's units in order, each    *)
(* once; a unit leaves a queue only when the other host has it; and the    *)
(* roles of the two stations fit.  And about Calling, for every number of  *)
(* calls: how two stations come to mean the same session.                  *)
(*                                                                         *)
(* A station with its end of the channel is a record, a side.  What a side *)
(* may do is a relation between two sides, a move; each handler of Link is *)
(* shown to make one of the moves, for station A and for station B, and    *)
(* each move to preserve the invariant of any two sides.                   *)
(***************************************************************************)
EXTENDS LinkPair, Calling, Induction, SequenceTheorems, TLAPS

NoType == A!NoType
Frame(k) == A!Frame(k)
DataFrame(ft, d) == A!DataFrame(ft, d)
Connected == A!ConnectedStates

Fields ==
    {"mode", "state", "pending", "last_data_to_host", "last_acked_type",
     "break_pending", "tx", "mode_ptr", "last_data_sent", "last_data_acked",
     "outstanding", "fec_frame_type", "fec_reps_sent", "fec_have_last",
     "last_fec", "final_id", "pending_deadline", "stall", "idle", "repeat",
     "repeat_type", "disc_repeat_count", "out"}

\* A station, the frame it transmits, what its host was told, how many units
\* that host has queued and which ones it was handed.  damage says whether the
\* scenario has damaged payloads.
Side(l, a, h, t, s, g) ==
    [lk |-> l, air |-> a, hit |-> h, told |-> t, sent |-> s, got |-> g,
     damage |-> sc.bad > 0]

sideA == Side(lkA, airA, hitA, toldA, sentA, gotA)
sideB == Side(lkB, airB, hitB, toldB, sentB, gotB)

-----------------------------------------------------------------------------
(* The invariant: what holds of one side *)

Silent(x) == x.air = Silence

\* The states in which a station may transmit a frame, or have been when it
\* built it.  A frame outlives the session of its station.
FrameFits(k, st) ==
    /\ k \in {"ACK", "NAK", "BREAK", "IDLE", "DISC", "END", "CONREQ",
              "CONACK", "DATA", "ID", "JUNK", "SILENCE"}
    /\ k = "ACK" => st \in {"IRS_DATA", "IRS_FROM_ISS", "DISC"}
    /\ k = "NAK" => st \in {"IRS_DATA", "DISC"}
    /\ k = "BREAK" => st \in {"IRS_TO_ISS", "DISC"}
    /\ k = "IDLE" => st \in {"IDLE", "DISC"}
    /\ k = "DATA" => st \in {"ISS", "DISC"}
    /\ k = "CONREQ" => st \in {"ISS_CON_REQ", "DISC"}
    /\ k = "CONACK" => st \in {"ISS_CON_ACK", "IRS_CON_ACK", "DISC"}

\* The frames of a session both hosts know of.
SessionKinds == {"ACK", "NAK", "BREAK", "DATA", "IDLE"}
Receiving == {"IRS_CON_ACK", "IRS_DATA", "IRS_FROM_ISS"}

\* Of the units 1..s a host has queued, q holds the last ones.
Suffix(q, s) ==
    /\ q \in Seq(Int) /\ s \in Nat /\ Len(q) <= s
    /\ \A i \in 1..Len(q) : q[i] = s - Len(q) + i

\* The units 1, 2, 3, ... in this order.
Counted(g) == g \in Seq(Int) /\ \A i \in 1..Len(g) : g[i] = i

\* The frame of the outstanding units.
InFlight(l) == DataFrame(l.last_data_sent, SubSeq(l.tx, 1, l.outstanding))

Shape(x) ==
    /\ DOMAIN x.lk = Fields /\ x.lk.mode = "ARQ"
    /\ x.lk.state \in A!States \ {"FEC_SEND"}
    /\ x.lk.mode_ptr \in 0..(Modes - 1)
    /\ x.lk.last_data_sent \in Nat /\ x.lk.last_data_acked \in Nat
    /\ x.lk.disc_repeat_count \in Nat
    /\ Suffix(x.lk.tx, x.sent)
    /\ x.got \in Seq(Int)
    /\ x.told \in {"NONE", "CONNECTED", "DISCONNECTED"}

\* While a station is the sender its data frame is the outstanding units, and
\* has the other parity than the last one acknowledged.
Outstanding(x) ==
    x.lk.state = "ISS" \/ x.air.k = "DATA" =>
        /\ x.lk.outstanding \in 1..Len(x.lk.tx)
        /\ x.lk.last_data_sent % 2 # x.lk.last_data_acked % 2
        /\ x.lk.state = "ISS" /\ x.lk.out.k = "DATA" => x.lk.out = InFlight(x.lk)
        /\ x.air.k = "DATA" => x.air = InFlight(x.lk)

Fits(x) ==
    /\ FrameFits(x.lk.out.k, x.lk.state) /\ FrameFits(x.air.k, x.lk.state)
    /\ x.lk.state = "DISC" => ~x.lk.repeat /\ x.told # "CONNECTED"
    /\ x.lk.state \in Receiving /\ x.lk.repeat => x.lk.disc_repeat_count > 0
    /\ x.lk.state \in Connected => x.told = "CONNECTED"
    /\ x.air.k \in SessionKinds => x.told # "NONE"

Local(x) == Shape(x) /\ Outstanding(x) /\ Fits(x)

-----------------------------------------------------------------------------
(* The invariant: what holds of two sides *)

\* The states of y that go with the state of x.
RolesOf(x, y) ==
    /\ x.lk.state \in {"ISS", "IDLE"} =>
           y.lk.state \in {"DISC", "IRS_DATA", "IRS_FROM_ISS", "IRS_TO_ISS"}
    /\ x.lk.state = "IRS_TO_ISS" =>
           y.lk.state \in {"DISC", "ISS", "IDLE", "IRS_FROM_ISS"}
    /\ x.lk.state = "IRS_FROM_ISS" =>
           y.lk.state \in {"DISC", "ISS", "IDLE", "IRS_TO_ISS"}
    /\ x.lk.state = "IRS_DATA" =>
           y.lk.state \in {"DISC", "ISS", "IDLE", "ISS_CON_ACK"}
    /\ x.lk.state = "ISS_CON_REQ" => y.lk.state \in {"DISC", "IRS_CON_ACK"}
    /\ x.lk.state = "ISS_CON_ACK" =>
           y.lk.state \in {"DISC", "IRS_CON_ACK", "IRS_DATA"}
    /\ x.lk.state = "IRS_CON_ACK" =>
           y.lk.state \in {"DISC", "ISS_CON_REQ", "ISS_CON_ACK"}

\* The units of x that an acknowledgement has removed from its queue.
Confirmed(x) == x.sent - Len(x.lk.tx)

\* y has exactly the confirmed units; the next data frame is new to it.
Synced(x, y) ==
    /\ Len(y.got) = Confirmed(x)
    /\ \/ y.lk.last_data_to_host = NoType
       \/ y.lk.last_data_to_host % 2 = x.lk.last_data_acked % 2
    /\ \/ ~x.damage
       \/ y.lk.last_acked_type = NoType
       \/ y.lk.last_acked_type % 2 = x.lk.last_data_acked % 2

\* y also has the outstanding units, and knows the frame that brought them.
Ahead(x, y) ==
    /\ Len(y.got) = Confirmed(x) + x.lk.outstanding
    /\ y.lk.last_data_to_host = x.lk.last_data_sent
    /\ y.lk.last_acked_type = x.lk.last_data_sent

\* What a sender x knows from a frame of y that is not destroyed.
Answered(x, y) ==
    x.lk.state = "ISS" =>
        /\ y.air.k = "ACK" /\ ~y.hit => Ahead(x, y)
        /\ y.air.k = "NAK" /\ ~y.hit => Synced(x, y)
        /\ y.lk.state = "IRS_TO_ISS" => Synced(x, y)

\* The stream of units from x to the host of y.
Stream(x, y) ==
    /\ Counted(y.got)
    /\ Confirmed(x) <= Len(y.got)
    /\ x.lk.state = "ISS" \/ (x.air.k = "DATA" /\ ~x.hit)
           => Synced(x, y) \/ Ahead(x, y)
    /\ x.lk.state = "IDLE" => Synced(x, y)
    /\ x.lk.state \notin {"ISS", "IDLE", "DISC"} => Len(y.got) = Confirmed(x)
    /\ Answered(x, y)
    /\ x.lk.state = "IRS_TO_ISS" /\ y.lk.state = "IRS_FROM_ISS"
           => y.lk.last_data_to_host = NoType

HungUp(x) == x.told = "DISCONNECTED" \/ x.lk.disc_repeat_count > 0

Flow(x, y) == HungUp(y) \/ Stream(x, y)

Pair(x, y) ==
    /\ Local(x) /\ Local(y)
    /\ RolesOf(x, y) /\ RolesOf(y, x)
    /\ ~Silent(x) /\ ~Silent(y) => x.hit /\ y.hit
    /\ Flow(x, y) /\ Flow(y, x)

-----------------------------------------------------------------------------
(* The invariant: before the session, and what tells the two sides apart *)

\* a is the caller's side, b the called one's, c the calls so far.  Early: no
\* data frame has been sent.
Early(a, b, c) ==
    \/ c = 0
    \/ a.lk.state \in {"ISS_CON_REQ", "ISS_CON_ACK"}
    \/ b.lk.state = "IRS_CON_ACK"
    \/ a.air.k = "CONREQ"

Untouched(x) ==
    /\ x.lk.last_data_to_host = NoType /\ x.lk.last_acked_type = NoType
    /\ x.got = <<>> /\ Len(x.lk.tx) = x.sent

Opening(a, b, c) ==
    /\ c \in Nat
    /\ c = 0 => /\ a.lk.state = "DISC" /\ b.lk.state = "DISC"
                /\ {a.air.k, b.air.k} \subseteq {"SILENCE", "ID", "END"}
    /\ Early(a, b, c) => Untouched(a) /\ Untouched(b)
    /\ a.lk.state # "IRS_CON_ACK"
    /\ b.lk.state \notin {"ISS_CON_REQ", "ISS_CON_ACK"}
    /\ b.lk.out.k # "CONREQ" /\ b.air.k # "CONREQ"
    /\ a.told = "CONNECTED" => b.told # "NONE"

\* Payloads are damaged only while the called station sends nothing.
OneWay(a, b) ==
    a.damage => /\ b.sent = 0 /\ a.lk.last_acked_type = NoType
                /\ a.lk.state \notin {"IRS_DATA", "IRS_TO_ISS"}

PairInv ==
    /\ sc \in Scenarios
    /\ bad \in Nat
    /\ Pair(sideA, sideB)
    /\ Opening(sideA, sideB, calls)
    /\ OneWay(sideA, sideB)
    /\ sentA <= sc.dataA /\ sentB <= sc.dataB

\* The scenarios the theorems are about: one session, in which payloads are
\* damaged only if the called host sends nothing.
OneSession == \A s \in Scenarios : s.calls <= 1 /\ (s.bad = 0 \/ s.dataB = 0)

-----------------------------------------------------------------------------
(* Moves: what a handler of Link does to its side.  f is the frame heard.   *)

SameQueue(y, z) ==
    /\ z.lk.tx = y.lk.tx /\ z.sent = y.sent
    /\ z.lk.last_data_acked = y.lk.last_data_acked

SameFlight(y, z) ==
    /\ z.lk.last_data_sent = y.lk.last_data_sent
    /\ z.lk.outstanding = y.lk.outstanding

SameMemory(y, z) ==
    /\ z.lk.last_data_to_host = y.lk.last_data_to_host
    /\ z.lk.last_acked_type = y.lk.last_acked_type
    /\ z.got = y.got

\* Common to all moves.
Steady(y, z) ==
    /\ DOMAIN z.lk = Fields /\ z.lk.mode = "ARQ"
    /\ z.lk.mode_ptr \in 0..(Modes - 1)
    /\ z.damage = y.damage

\* Common to the moves that are not a disconnect.
Lasting(y, z) ==
    Steady(y, z) /\ z.lk.disc_repeat_count = y.lk.disc_repeat_count

\* No data goes either way.
Still(y, z) == SameQueue(y, z) /\ SameFlight(y, z) /\ SameMemory(y, z)

Calm(y, z) == Lasting(y, z) /\ Still(y, z) /\ z.told = y.told

Sends(z, k) == z.lk.out = Frame(k) /\ z.air = z.lk.out

SendsNext(z) ==
    /\ z.lk.repeat /\ z.air = z.lk.out
    /\ \/ z.lk.tx = <<>> /\ z.lk.state = "IDLE" /\ z.lk.out = Frame("IDLE")
          /\ z.lk.last_data_sent \in Nat
       \/ /\ z.lk.tx # <<>> /\ z.lk.state = "ISS"
          /\ z.lk.outstanding \in 1..Len(z.lk.tx)
          /\ z.lk.last_data_sent \in Nat
          /\ z.lk.last_data_sent % 2 # z.lk.last_data_acked % 2
          /\ z.lk.out = InFlight(z.lk)

\* The frame decides nothing in this state, or has nothing to add.
Ignores(y, z) ==
    /\ Calm(y, z)
    /\ z.lk.state = y.lk.state /\ z.lk.repeat = y.lk.repeat
    /\ z.lk.out = y.lk.out /\ z.air = y.air

\* A control frame is sent and the timers stay as they are.
Answers(y, z, k) == Calm(y, z) /\ z.lk.repeat = y.lk.repeat /\ Sends(z, k)

EndsAgain(y, z, f) ==
    /\ f.k = "DISC" /\ Answers(y, z, "END")
    /\ y.lk.state = "DISC" /\ z.lk.state = "DISC"

Accepts(y, z, f) ==
    /\ f.k = "CONREQ" /\ Answers(y, z, "CONACK")
    /\ y.lk.state = "DISC" /\ z.lk.state = "IRS_CON_ACK"

Confirms(y, z, f) ==
    /\ f.k = "CONACK" /\ Calm(y, z) /\ Sends(z, "CONACK") /\ z.lk.repeat
    /\ y.lk.state = "ISS_CON_REQ" /\ z.lk.state = "ISS_CON_ACK"

Joins(y, z, f) ==
    /\ f.k = "CONACK" /\ Lasting(y, z) /\ Still(y, z)
    /\ z.told = "CONNECTED"
    /\ z.lk.repeat = y.lk.repeat /\ Sends(z, "ACK")
    /\ y.lk.state = "IRS_CON_ACK" /\ z.lk.state = "IRS_DATA"

Opens(y, z, f) ==
    /\ f.k = "ACK" /\ y.lk.state = "ISS_CON_ACK"
    /\ Lasting(y, z) /\ SameMemory(y, z) /\ z.told = "CONNECTED"
    /\ z.lk.tx = y.lk.tx /\ z.sent = y.sent /\ z.lk.last_data_acked = 1
    /\ SendsNext(z)

\* The session ends here: the other side ends it, or a deadline does.
Leaves(y, z) ==
    /\ Steady(y, z) /\ Still(y, z) /\ z.told = "DISCONNECTED"
    /\ z.lk.disc_repeat_count \in Nat
    /\ z.lk.state = "DISC" /\ ~z.lk.repeat
    /\ Sends(z, "END") \/ (z.air = y.air /\ z.lk.out = y.lk.out)

Yields(y, z, f) ==
    /\ f.k = "BREAK" /\ y.lk.state \in {"ISS", "IDLE"}
    /\ Lasting(y, z) /\ SameQueue(y, z) /\ z.told = y.told
    /\ z.lk.last_data_sent = y.lk.last_data_sent
    /\ z.lk.last_data_to_host = NoType
    /\ z.lk.last_acked_type = y.lk.last_acked_type /\ z.got = y.got
    /\ z.lk.state = "IRS_FROM_ISS" /\ ~z.lk.repeat /\ Sends(z, "ACK")

Advances(y, z, f) ==
    /\ f.k = "ACK" /\ y.lk.state = "ISS"
    /\ Lasting(y, z) /\ SameMemory(y, z) /\ z.told = y.told
    /\ z.lk.tx = SubSeq(y.lk.tx, y.lk.outstanding + 1, Len(y.lk.tx))
    /\ z.sent = y.sent
    /\ z.lk.last_data_acked = y.lk.last_data_sent
    /\ SendsNext(z)

\* The next frame again, in another mode, or the first one after an IDLE.
SendsMore(y, z, f) ==
    /\ \/ f.k = "NAK" /\ y.lk.state = "ISS"
       \/ f.k = "ACK" /\ y.lk.state = "IDLE"
    /\ Lasting(y, z) /\ SameQueue(y, z) /\ SameMemory(y, z)
    /\ z.told = y.told
    /\ SendsNext(z)

TakesOver(y, z, f) ==
    /\ f.k = "ACK" /\ y.lk.state = "IRS_TO_ISS"
    /\ Lasting(y, z) /\ z.told = y.told
    /\ z.lk.tx = y.lk.tx /\ z.sent = y.sent /\ z.lk.last_data_acked = 1
    /\ z.lk.last_data_to_host = NoType
    /\ z.lk.last_acked_type = y.lk.last_acked_type /\ z.got = y.got
    /\ SendsNext(z)

\* An IDLE or a new data frame is answered with BREAK.
Breaks(y, z, f) ==
    /\ \/ f.k = "IDLE"
       \/ f.k = "DATA" /\ f.ft # y.lk.last_acked_type
    /\ Calm(y, z) /\ Sends(z, "BREAK") /\ z.lk.repeat
    /\ y.lk.state = "IRS_DATA" /\ z.lk.state = "IRS_TO_ISS"

AcksIdle(y, z, f) ==
    /\ f.k = "IDLE" /\ Answers(y, z, "ACK")
    /\ y.lk.state \in {"IRS_DATA", "IRS_FROM_ISS"} /\ z.lk.state = y.lk.state

Receives(y, z, f) ==
    /\ f.k = "DATA" /\ y.lk.state \in {"IRS_DATA", "IRS_FROM_ISS"}
    /\ Lasting(y, z) /\ SameQueue(y, z) /\ SameFlight(y, z)
    /\ z.told = y.told
    /\ z.lk.last_data_to_host = f.ft /\ z.lk.last_acked_type = f.ft
    /\ \/ f.ft # y.lk.last_data_to_host /\ z.got = y.got \o f.d
       \/ f.ft = y.lk.last_data_to_host /\ z.got = y.got
    /\ z.lk.state = "IRS_DATA"
    /\ z.lk.repeat = y.lk.repeat /\ Sends(z, "ACK")

AcksDamaged(y, z, f) ==
    /\ f.k = "DATA" /\ f.ft = y.lk.last_acked_type /\ Answers(y, z, "ACK")
    /\ y.lk.state \in {"IRS_DATA", "IRS_FROM_ISS"} /\ z.lk.state = y.lk.state

NaksDamaged(y, z, f) ==
    /\ f.k = "DATA" /\ f.ft # y.lk.last_acked_type /\ Answers(y, z, "NAK")
    /\ y.lk.state \in {"IRS_DATA", "IRS_FROM_ISS"} /\ z.lk.state = "IRS_DATA"

HearMove(y, z, f) ==
    \/ Ignores(y, z) \/ Leaves(y, z)
    \/ EndsAgain(y, z, f) \/ Accepts(y, z, f) \/ Confirms(y, z, f)
    \/ Joins(y, z, f) \/ Opens(y, z, f) \/ Yields(y, z, f)
    \/ Advances(y, z, f) \/ SendsMore(y, z, f) \/ TakesOver(y, z, f)
    \/ Breaks(y, z, f) \/ AcksIdle(y, z, f) \/ Receives(y, z, f)

DamageMove(y, z, f) == AcksDamaged(y, z, f) \/ NaksDamaged(y, z, f)

\* A transmission ends.
Finishes(x, z) ==
    /\ Calm(x, z) /\ z.lk.state = x.lk.state
    /\ z.lk.repeat = x.lk.repeat /\ z.lk.out = x.lk.out /\ Silent(z)

Identifies(y, z) ==
    /\ Answers(y, z, "ID") /\ z.lk.state = y.lk.state

Resends(y, z) ==
    /\ y.lk.repeat
    /\ Steady(y, z) /\ Still(y, z) /\ z.told = y.told
    /\ z.lk.state = y.lk.state /\ z.lk.repeat /\ z.lk.out = y.lk.out
    /\ z.lk.disc_repeat_count \in Nat
    /\ z.lk.disc_repeat_count > 0 <=> y.lk.disc_repeat_count > 0
    /\ z.air = y.lk.out \/ z.air = Frame("JUNK")

Calls(y, z) ==
    /\ y.lk.state = "DISC" /\ z.lk.state = "ISS_CON_REQ"
    /\ Calm(y, z) /\ Sends(z, "CONREQ") /\ z.lk.repeat

Queues(y, z) ==
    /\ Lasting(y, z) /\ SameFlight(y, z) /\ SameMemory(y, z)
    /\ z.told = y.told
    /\ z.lk.tx = y.lk.tx \o <<y.sent + 1>> /\ z.sent = y.sent + 1
    /\ z.lk.last_data_acked = y.lk.last_data_acked
    /\ z.lk.state = y.lk.state /\ z.lk.repeat = y.lk.repeat
    /\ z.lk.out = y.lk.out /\ z.air = y.air

HangsUpNow(y, z) ==
    /\ y.lk.state # "DISC" /\ z.lk.state = y.lk.state
    /\ Steady(y, z) /\ Still(y, z) /\ z.told = y.told
    /\ z.lk.disc_repeat_count = 1 /\ z.lk.repeat /\ Sends(z, "DISC")

\* What a station may do that hears nothing, but to call.
OwnMove(y, z) ==
    \/ Ignores(y, z) \/ Leaves(y, z) \/ Identifies(y, z) \/ Resends(y, z)
    \/ Queues(y, z) \/ HangsUpNow(y, z)

-----------------------------------------------------------------------------
(* The channel between two sides *)

\* Collide.
Meet(x, y, u, z) ==
    /\ u.hit <=> ~Silent(u) /\ (~Silent(z) \/ (x.hit /\ u.air = x.air))
    /\ z.hit <=> ~Silent(z) /\ (~Silent(u) \/ (y.hit /\ z.air = y.air))

\* x's frame ends unharmed; y hears it.
Heard(x, y, u, z) ==
    ~Silent(x) /\ ~x.hit /\ Finishes(x, u) /\ Meet(x, y, u, z)

\* x stays as it is, or its transmission ends and nobody hears it.
Stays(x, u) == Ignores(x, u) \/ Finishes(x, u)

-----------------------------------------------------------------------------
(* Queues and counted units *)

\* A DataACK leaves the rest of the queue (tx_dequeue).
LEMMA SuffixDrop ==
    ASSUME NEW q, NEW s, Suffix(q, s), NEW n \in 1..Len(q)
    PROVE  /\ Suffix(SubSeq(q, n + 1, Len(q)), s)
           /\ Len(SubSeq(q, n + 1, Len(q))) = Len(q) - n
<1> DEFINE r == SubSeq(q, n + 1, Len(q))
<1>1. q \in Seq(Int) /\ s \in Nat /\ Len(q) <= s /\ Len(q) \in Nat
  BY DEF Suffix
<1>2. r \in Seq(Int) /\ Len(r) = Len(q) - n
  BY <1>1
<1>3. ASSUME NEW i \in 1..Len(r)
      PROVE  r[i] = s - Len(r) + i
  <2>1. n + i \in 1..Len(q) /\ r[i] = q[n + i]
    BY SMTT(30), <1>1, <1>2
  <2> HIDE DEF r
  <2>2. q[n + i] = s - Len(q) + (n + i)
    BY <2>1 DEF Suffix
  <2> QED BY <1>1, <1>2, <2>1, <2>2
<1> HIDE DEF r
<1>4. Suffix(r, s)
  BY <1>1, <1>2, <1>3 DEF Suffix
<1> QED BY <1>2, <1>4 DEF r

\* The host's next unit goes to the end of the queue, behind those in flight.
LEMMA SuffixAppend ==
    ASSUME NEW q, NEW s, Suffix(q, s)
    PROVE  /\ Suffix(q \o <<s + 1>>, s + 1)
           /\ Len(q \o <<s + 1>>) = Len(q) + 1
           /\ \A n \in 1..Len(q) :
                  SubSeq(q \o <<s + 1>>, 1, n) = SubSeq(q, 1, n)
<1> DEFINE r == q \o <<s + 1>>
<1>1. q \in Seq(Int) /\ s \in Nat /\ Len(q) <= s /\ Len(q) \in Nat
  BY DEF Suffix
<1>2. r \in Seq(Int) /\ Len(r) = Len(q) + 1
  BY <1>1
<1>3. ASSUME NEW i \in 1..Len(r)
      PROVE  r[i] = s + 1 - Len(r) + i
  <2>1. CASE i = Len(q) + 1
    BY <1>1, <1>2, <2>1
  <2>2. CASE i # Len(q) + 1
    <3>1. i \in 1..Len(q) /\ r[i] = q[i]
      BY <1>1, <1>2, <2>2
    <3> QED BY <1>1, <1>2, <3>1 DEF Suffix
  <2> QED BY <2>1, <2>2
<1>4. ASSUME NEW n \in 1..Len(q)
      PROVE  SubSeq(r, 1, n) = SubSeq(q, 1, n)
  BY <1>1, <1>2
<1>5. Suffix(r, s + 1)
  <2> HIDE DEF r
  <2> QED BY <1>1, <1>2, <1>3 DEF Suffix
<1> QED BY <1>2, <1>4, <1>5

\* A data frame brings the units that follow those its receiver has.
LEMMA CountedAppend ==
    ASSUME NEW q, NEW s, Suffix(q, s), NEW n \in 1..Len(q),
           NEW g, Counted(g), Len(g) = s - Len(q)
    PROVE  /\ Counted(g \o SubSeq(q, 1, n))
           /\ Len(g \o SubSeq(q, 1, n)) = Len(g) + n
<1> DEFINE d == SubSeq(q, 1, n)
           r == g \o d
<1>1. q \in Seq(Int) /\ s \in Nat /\ Len(q) <= s /\ Len(q) \in Nat
  BY DEF Suffix
<1>2. g \in Seq(Int) /\ d \in Seq(Int) /\ Len(d) = n
  BY <1>1 DEF Counted
<1>3. r \in Seq(Int) /\ Len(r) = Len(g) + n
  BY <1>2
<1>4. ASSUME NEW i \in 1..Len(r)
      PROVE  r[i] = i
  <2>1. CASE i <= Len(g)
    <3>1. r[i] = g[i] /\ i \in 1..Len(g)
      BY <1>2, <1>3, <2>1
    <3> QED BY <3>1 DEF Counted
  <2>2. CASE i > Len(g)
    <3> DEFINE j == i - Len(g)
    <3>1. j \in 1..n /\ r[i] = d[j] /\ d[j] = q[j] /\ j \in 1..Len(q)
      BY SMTT(30), <1>1, <1>2, <1>3, <2>2
    <3>2. q[j] = s - Len(q) + j
      <4> HIDE DEF j
      <4> QED BY <3>1 DEF Suffix
    <3> QED BY <1>1, <1>2, <3>1, <3>2
  <2> QED BY <1>2, <1>3, <2>1, <2>2
<1> HIDE DEF r
<1>5. Counted(r)
  BY <1>3, <1>4 DEF Counted
<1> QED BY <1>3, <1>5 DEF r

\* The same of the units a side has outstanding.
LEMMA OutstandingAppend ==
    ASSUME NEW x, NEW y, Suffix(x.lk.tx, x.sent), Counted(y.got),
           Len(y.got) = x.sent - Len(x.lk.tx),
           x.lk.outstanding \in 1..Len(x.lk.tx),
           NEW d, d = SubSeq(x.lk.tx, 1, x.lk.outstanding)
    PROVE  /\ Counted(y.got \o d)
           /\ Len(y.got \o d) = Len(y.got) + x.lk.outstanding
BY CountedAppend

-----------------------------------------------------------------------------
(* Every move keeps what holds of one side *)

USE DEF Steady, Lasting, Calm, Still, SameQueue, SameFlight, SameMemory, Sends,
        Answers, Ignores, Silent, NoType, Frame, DataFrame, Silence,
        A!NoType, A!Frame, A!DataFrame, A!Silence,
        Connected, A!ConnectedStates, SessionKinds, Receiving

\* The frame that iss_send_next builds fits the station that sends it.
LEMMA NextLocal ==
    ASSUME NEW y, NEW z, Local(y), Lasting(y, z), SendsNext(z),
           Suffix(z.lk.tx, z.sent), z.lk.last_data_acked \in Nat,
           z.got = y.got, z.told = "CONNECTED"
    PROVE  Local(z)
<1>1. Shape(z)
  BY DEF Local, Shape, SendsNext, A!States
<1>2. Outstanding(z)
  BY DEF Outstanding, SendsNext, InFlight
<1>3. Fits(z)
  BY DEF Fits, FrameFits, SendsNext, InFlight
<1> QED BY <1>1, <1>2, <1>3 DEF Local

\* What a station makes of a frame.
LEMMA HearLocal ==
    ASSUME NEW y, NEW z, NEW f, Local(y),
           f.k = "DATA" => f.d \in Seq(Int) /\ f.ft \in Nat,
           HearMove(y, z, f) \/ DamageMove(y, z, f)
    PROVE  Local(z)
<1>1. CASE Ignores(y, z)
  BY <1>1 DEF Ignores, Local, Shape, Outstanding, Fits, FrameFits, InFlight,
              A!States
<1>2. CASE Leaves(y, z)
  BY <1>2 DEF Leaves, Local, Shape, Outstanding, Fits, FrameFits, InFlight,
              A!States
<1>3. CASE EndsAgain(y, z, f)
  BY <1>3 DEF EndsAgain, Local, Shape, Outstanding, Fits, FrameFits, InFlight,
              A!States
<1>4. CASE Accepts(y, z, f)
  BY <1>4 DEF Accepts, Local, Shape, Outstanding, Fits, FrameFits, InFlight,
              A!States
<1>5. CASE Confirms(y, z, f)
  BY <1>5 DEF Confirms, Local, Shape, Outstanding, Fits, FrameFits, InFlight,
              A!States
<1>6. CASE Joins(y, z, f)
  BY <1>6 DEF Joins, Local, Shape, Outstanding, Fits, FrameFits, InFlight,
              A!States
<1>7. CASE Opens(y, z, f)
  <2>1. /\ Suffix(z.lk.tx, z.sent) /\ z.told = "CONNECTED"
        /\ z.lk.last_data_acked \in Nat
    BY <1>7 DEF Opens, Local, Shape, Fits
  <2> QED BY <1>7, <2>1, NextLocal DEF Opens
<1>8. CASE Yields(y, z, f)
  BY <1>8 DEF Yields, Local, Shape, Outstanding, Fits, FrameFits, InFlight,
              A!States
<1>9. CASE Advances(y, z, f)
  <2>1. y.lk.outstanding \in 1..Len(y.lk.tx) /\ y.told = "CONNECTED"
    BY <1>9 DEF Advances, Local, Outstanding, Fits
  <2>2. Suffix(z.lk.tx, z.sent) /\ z.lk.last_data_acked \in Nat
    BY <1>9, <2>1, SuffixDrop DEF Advances, Local, Shape
  <2> QED BY <1>9, <2>1, <2>2, NextLocal DEF Advances
<1>10. CASE SendsMore(y, z, f)
  <2>1. /\ Suffix(z.lk.tx, z.sent) /\ z.told = "CONNECTED"
        /\ z.lk.last_data_acked \in Nat
    BY <1>10 DEF SendsMore, Local, Shape, Fits
  <2> QED BY <1>10, <2>1, NextLocal DEF SendsMore
<1>11. CASE TakesOver(y, z, f)
  <2>1. /\ Suffix(z.lk.tx, z.sent) /\ z.told = "CONNECTED"
        /\ z.lk.last_data_acked \in Nat
    BY <1>11 DEF TakesOver, Local, Shape, Fits
  <2> QED BY <1>11, <2>1, NextLocal DEF TakesOver
<1>12. CASE Breaks(y, z, f)
  BY <1>12 DEF Breaks, Local, Shape, Outstanding, Fits, FrameFits, InFlight,
              A!States
<1>13. CASE AcksIdle(y, z, f)
  BY <1>13 DEF AcksIdle, Local, Shape, Outstanding, Fits, FrameFits, InFlight,
              A!States
<1>14. CASE Receives(y, z, f)
  <2>1. y.got \in Seq(Int) /\ f.d \in Seq(Int)
    BY <1>14 DEF Receives, Local, Shape
  <2>2. z.got \in Seq(Int)
    <3>1. y.got \o f.d \in Seq(Int)
      BY <2>1
    <3>2. z.got = y.got \o f.d \/ z.got = y.got
      BY <1>14 DEF Receives
    <3> QED BY <2>1, <3>1, <3>2
  <2> QED BY <1>14, <2>2
          DEF Receives, Local, Shape, Outstanding, Fits, FrameFits, A!States
<1>15. CASE AcksDamaged(y, z, f)
  BY <1>15 DEF AcksDamaged, Local, Shape, Outstanding, Fits, FrameFits, InFlight,
              A!States
<1>16. CASE NaksDamaged(y, z, f)
  BY <1>16 DEF NaksDamaged, Local, Shape, Outstanding, Fits, FrameFits, InFlight,
              A!States
<1> QED BY <1>1, <1>2, <1>3, <1>4, <1>5, <1>6, <1>7, <1>8, <1>9,
           <1>10, <1>11, <1>12, <1>13, <1>14, <1>15, <1>16 DEF HearMove, DamageMove

\* What a station does on its own, and the end of its transmission.
LEMMA OwnLocal ==
    ASSUME NEW y, NEW z, Local(y),
           OwnMove(y, z) \/ Calls(y, z) \/ Finishes(y, z)
    PROVE  Local(z)
<1>1. CASE Ignores(y, z)
  BY <1>1 DEF Ignores, Local, Shape, Outstanding, Fits, FrameFits, InFlight,
              A!States
<1>2. CASE Leaves(y, z)
  BY <1>2 DEF Leaves, Local, Shape, Outstanding, Fits, FrameFits, InFlight,
              A!States
<1>3. CASE Finishes(y, z)
  BY <1>3 DEF Finishes, Local, Shape, Outstanding, Fits, FrameFits, InFlight,
              A!States
<1>4. CASE Identifies(y, z)
  BY <1>4 DEF Identifies, Local, Shape, Outstanding, Fits, FrameFits, InFlight,
              A!States
<1>5. CASE Resends(y, z)
  BY <1>5 DEF Resends, Local, Shape, Outstanding, Fits, FrameFits, InFlight,
              A!States
<1>6. CASE Calls(y, z)
  BY <1>6 DEF Calls, Local, Shape, Outstanding, Fits, FrameFits, InFlight,
              A!States
<1>7. CASE Queues(y, z)
  <2>1. Suffix(z.lk.tx, z.sent) /\ Len(z.lk.tx) = Len(y.lk.tx) + 1
    BY <1>7, SuffixAppend DEF Queues, Local, Shape
  <2>2. ASSUME y.lk.outstanding \in 1..Len(y.lk.tx)
        PROVE  InFlight(z.lk) = InFlight(y.lk)
    <3>1. SubSeq(z.lk.tx, 1, y.lk.outstanding)
              = SubSeq(y.lk.tx, 1, y.lk.outstanding)
      BY <1>7, <2>2, SuffixAppend DEF Queues, Local, Shape
    <3> QED BY <1>7, <3>1 DEF Queues, InFlight
  <2>3. Shape(z)
    BY <1>7, <2>1 DEF Queues, Local, Shape
  <2>4. Outstanding(z)
    <3>1. Len(y.lk.tx) \in Nat
      BY DEF Local, Shape, Suffix
    <3> QED BY <1>7, <2>1, <2>2, <3>1 DEF Queues, Local, Outstanding
  <2>5. Fits(z)
    BY <1>7 DEF Queues, Local, Fits
  <2> QED BY <2>3, <2>4, <2>5 DEF Local
<1>8. CASE HangsUpNow(y, z)
  BY <1>8 DEF HangsUpNow, Local, Shape, Outstanding, Fits, FrameFits, InFlight,
              A!States
<1> QED BY <1>1, <1>2, <1>3, <1>4, <1>5, <1>6, <1>7, <1>8 DEF OwnMove

-----------------------------------------------------------------------------
(* A frame is heard: the invariant of two sides is kept *)

\* When x's frame is heard y was silent, and what y answers is not hit.
LEMMA HeardFacts ==
    ASSUME NEW x, NEW y, NEW u, NEW z, Pair(x, y), Heard(x, y, u, z)
    PROVE  /\ Local(x) /\ Local(y) /\ Local(u)
           /\ Silent(y) /\ y.air.k = "SILENCE"
           /\ Silent(u) /\ u.air.k = "SILENCE"
           /\ ~u.hit /\ ~z.hit /\ ~x.hit
           /\ u.lk.state = x.lk.state /\ u.told = x.told
           /\ u.lk.disc_repeat_count = x.lk.disc_repeat_count
           /\ SameQueue(x, u) /\ SameFlight(x, u) /\ SameMemory(x, u)
           /\ u.damage = x.damage
<1>1. Local(x) /\ Local(y) /\ Finishes(x, u) /\ Silent(y)
  BY DEF Pair, Heard
<1>2. Local(u)
  BY <1>1, OwnLocal
<1>3. ~u.hit /\ ~z.hit
  BY <1>1 DEF Heard, Meet, Finishes
<1> QED BY <1>1, <1>2, <1>3 DEF Heard, Finishes

\* x's queue and y's memory decide whether they are in step.
LEMMA SameSync ==
    ASSUME NEW x, NEW y, NEW u, NEW z, SameMemory(y, z),
           SameQueue(x, u), u.damage = x.damage
    PROVE  /\ Synced(x, y) => Synced(u, z)
           /\ Confirmed(u) = Confirmed(x)
           /\ Ahead(x, y) /\ SameFlight(x, u) => Ahead(u, z)
BY DEF Synced, Ahead, Confirmed

\* Where nothing was sent nothing is missing.
LEMMA UntouchedFlow ==
    ASSUME NEW x, NEW y, Shape(x), Untouched(x), Untouched(y)
    PROVE  /\ Counted(y.got) /\ Len(y.got) = 0 /\ Confirmed(x) = 0
           /\ x.lk.last_data_acked % 2 = 1 => Synced(x, y)
           /\ x.lk.state \notin {"ISS", "IDLE"} /\ x.air.k # "DATA"
                  => Stream(x, y)
<1>1. Len(x.lk.tx) \in Nat
  BY DEF Shape, Suffix
<1>2. Counted(<<>>)
  BY DEF Counted
<1> QED BY <1>1, <1>2 DEF Untouched, Confirmed, Synced, Stream, Answered

\* What x sends still fits if y remembers what it did and says nothing wrong.
LEMMA InKept ==
    ASSUME NEW x, NEW y, NEW u, NEW z, Pair(x, y), Heard(x, y, u, z),
           Stream(x, y), SameMemory(y, z),
           x.lk.state = "ISS" =>
               /\ z.air.k = "ACK" => Ahead(x, y)
               /\ z.air.k = "NAK" => Synced(x, y)
               /\ z.lk.state = "IRS_TO_ISS" => Synced(x, y),
           x.lk.state = "IRS_TO_ISS" /\ z.lk.state = "IRS_FROM_ISS"
               => y.lk.last_data_to_host = NoType
    PROVE  Stream(u, z)
<1>1. /\ Synced(x, y) => Synced(u, z)
      /\ Ahead(x, y) => Ahead(u, z)
      /\ Confirmed(u) = Confirmed(x) /\ u.lk.state = x.lk.state
      /\ u.air.k = "SILENCE" /\ z.got = y.got
      /\ z.lk.last_data_to_host = y.lk.last_data_to_host
  BY HeardFacts, SameSync
<1> QED BY <1>1 DEF Stream, Answered

\* What y sends still fits if it sends the same queue in a fitting role.
LEMMA OutKept ==
    ASSUME NEW x, NEW y, NEW u, NEW z, Pair(x, y), Heard(x, y, u, z),
           Stream(y, x), SameQueue(y, z), z.damage = y.damage,
           z.lk.state = "ISS" \/ z.air.k = "DATA" =>
               Synced(y, x) \/ (Ahead(y, x) /\ SameFlight(y, z)),
           z.lk.state = "IDLE" => Synced(y, x),
           z.lk.state \notin {"ISS", "IDLE", "DISC"}
               => Len(x.got) = Confirmed(y),
           z.lk.state = "ISS" /\ x.lk.state = "IRS_TO_ISS" => Synced(y, x),
           z.lk.state = "IRS_TO_ISS" /\ x.lk.state = "IRS_FROM_ISS"
               => x.lk.last_data_to_host = NoType
    PROVE  Stream(z, u)
<1>1. /\ Synced(y, x) => Synced(z, u)
      /\ Ahead(y, x) /\ SameFlight(y, z) => Ahead(z, u)
      /\ Confirmed(z) = Confirmed(y) /\ u.lk.state = x.lk.state
      /\ u.air.k = "SILENCE" /\ u.got = x.got
      /\ u.lk.last_data_to_host = x.lk.last_data_to_host
  BY HeardFacts, SameSync
<1> QED BY <1>1 DEF Stream, Answered

\* A station that does not send is not behind, whatever y makes of its frame.
LEMMA InIdle ==
    ASSUME NEW x, NEW y, NEW u, NEW z, Pair(x, y), Heard(x, y, u, z),
           Stream(x, y), z.got = y.got, x.lk.state \notin {"ISS", "IDLE"},
           x.lk.state = "IRS_TO_ISS" /\ z.lk.state = "IRS_FROM_ISS"
               => z.lk.last_data_to_host = NoType
    PROVE  Stream(u, z)
<1>1. /\ Confirmed(u) = Confirmed(x) /\ u.lk.state = x.lk.state
      /\ u.air.k = "SILENCE"
  BY HeardFacts DEF Confirmed
<1> QED BY <1>1 DEF Stream, Answered

\* A data frame that is heard brings the outstanding units; y has seen its
\* type before exactly if it has them already.
LEMMA HeardData ==
    ASSUME NEW x, NEW y, NEW u, NEW z, Pair(x, y), Heard(x, y, u, z),
           x.air.k = "DATA", Stream(x, y)
    PROVE  /\ x.air.ft = x.lk.last_data_sent
           /\ x.air.d = SubSeq(x.lk.tx, 1, x.lk.outstanding)
           /\ x.lk.outstanding \in 1..Len(x.lk.tx)
           /\ x.lk.state \in {"ISS", "DISC"}
           /\ \/ /\ Ahead(x, y)
                 /\ x.air.ft = y.lk.last_data_to_host
                 /\ x.air.ft = y.lk.last_acked_type
              \/ /\ Synced(x, y)
                 /\ x.air.ft # y.lk.last_data_to_host
                 /\ x.damage => x.air.ft # y.lk.last_acked_type
<1>1. /\ x.air = InFlight(x.lk) /\ x.lk.outstanding \in 1..Len(x.lk.tx)
      /\ x.lk.last_data_sent % 2 # x.lk.last_data_acked % 2
      /\ x.lk.state \in {"ISS", "DISC"} /\ x.lk.last_data_sent \in Nat
  BY DEF Pair, Local, Shape, Outstanding, Fits, FrameFits
<1>2. /\ x.air.ft = x.lk.last_data_sent
      /\ x.air.d = SubSeq(x.lk.tx, 1, x.lk.outstanding)
  BY <1>1 DEF InFlight
<1>3. Synced(x, y) \/ Ahead(x, y)
  BY HeardFacts DEF Stream
<1>4. CASE Ahead(x, y)
  BY <1>1, <1>2, <1>4 DEF Ahead
<1>5. CASE Synced(x, y)
  <2>1. x.lk.last_data_sent # NoType
    BY <1>1
  <2>2. x.air.ft # y.lk.last_data_to_host
    BY <1>1, <1>2, <1>5, <2>1 DEF Synced
  <2>3. x.damage => x.air.ft # y.lk.last_acked_type
    BY <1>1, <1>2, <1>5, <2>1 DEF Synced
  <2> QED BY <1>1, <1>2, <1>5, <2>2, <2>3
<1> QED BY <1>3, <1>4, <1>5

\* The roles fit after every frame.
LEMMA HearRoles ==
    ASSUME NEW x, NEW y, NEW u, NEW z, Pair(x, y), Heard(x, y, u, z),
           HearMove(y, z, x.air) \/ DamageMove(y, z, x.air)
    PROVE  RolesOf(u, z) /\ RolesOf(z, u)
<1> USE DEF RolesOf
<1>1. /\ RolesOf(x, y) /\ RolesOf(y, x) /\ FrameFits(x.air.k, x.lk.state)
      /\ u.lk.state = x.lk.state
  BY HeardFacts DEF Pair, Local, Fits
<1>2. CASE Ignores(y, z)
  BY <1>1, <1>2 DEF Ignores, FrameFits
<1>3. CASE Leaves(y, z)
  BY <1>1, <1>3 DEF Leaves, FrameFits
<1>4. CASE EndsAgain(y, z, x.air)
  BY <1>1, <1>4 DEF EndsAgain, FrameFits
<1>5. CASE Accepts(y, z, x.air)
  BY <1>1, <1>5 DEF Accepts, FrameFits
<1>6. CASE Confirms(y, z, x.air)
  BY <1>1, <1>6 DEF Confirms, FrameFits
<1>7. CASE Joins(y, z, x.air)
  BY <1>1, <1>7 DEF Joins, FrameFits
<1>8. CASE Opens(y, z, x.air)
  BY <1>1, <1>8 DEF Opens, FrameFits, SendsNext
<1>9. CASE Yields(y, z, x.air)
  BY <1>1, <1>9 DEF Yields, FrameFits
<1>10. CASE Advances(y, z, x.air)
  BY <1>1, <1>10 DEF Advances, FrameFits, SendsNext
<1>11. CASE SendsMore(y, z, x.air)
  BY <1>1, <1>11 DEF SendsMore, FrameFits, SendsNext
<1>12. CASE TakesOver(y, z, x.air)
  BY <1>1, <1>12 DEF TakesOver, FrameFits, SendsNext
<1>13. CASE Breaks(y, z, x.air)
  BY <1>1, <1>13 DEF Breaks, FrameFits
<1>14. CASE AcksIdle(y, z, x.air)
  BY <1>1, <1>14 DEF AcksIdle, FrameFits
<1>15. CASE Receives(y, z, x.air)
  BY <1>1, <1>15 DEF Receives, FrameFits
<1>16. CASE AcksDamaged(y, z, x.air)
  BY <1>1, <1>16 DEF AcksDamaged, FrameFits
<1>17. CASE NaksDamaged(y, z, x.air)
  BY <1>1, <1>17 DEF NaksDamaged, FrameFits
<1> QED BY <1>2, <1>3, <1>4, <1>5, <1>6, <1>7, <1>8, <1>9, <1>10,
           <1>11, <1>12, <1>13, <1>14, <1>15, <1>16, <1>17 DEF HearMove, DamageMove

\* What y's host has been handed still fits what x sends.
LEMMA HearIn ==
    ASSUME NEW x, NEW y, NEW u, NEW z, Pair(x, y), Heard(x, y, u, z),
           HearMove(y, z, x.air) \/ (x.damage /\ DamageMove(y, z, x.air)),
           Early(x, y, 1) \/ Early(y, x, 1) => Untouched(x) /\ Untouched(y)
    PROVE  Flow(u, z)
<1>1. /\ FrameFits(x.air.k, x.lk.state) /\ Flow(x, y)
      /\ RolesOf(x, y) /\ RolesOf(y, x) /\ Shape(x) /\ Shape(y)
  BY DEF Pair, Local, Fits
<1>2. CASE Ignores(y, z)
  <2>1. z.air.k = "SILENCE"
    BY <1>2, HeardFacts
  <2> QED BY <1>1, <1>2, <2>1, InKept DEF Flow, HungUp, Stream, Answered
<1>3. CASE Leaves(y, z)
  BY <1>1, <1>3, InKept
     DEF Leaves, Flow, HungUp, Stream, Answered, FrameFits, RolesOf
<1>4. CASE EndsAgain(y, z, x.air)
  BY <1>1, <1>4, InKept
     DEF EndsAgain, Flow, HungUp, Stream, Answered, FrameFits, RolesOf
<1>5. CASE Accepts(y, z, x.air)
  BY <1>1, <1>5, InKept
     DEF Accepts, Flow, HungUp, Stream, Answered, FrameFits, RolesOf
<1>6. CASE Confirms(y, z, x.air)
  BY <1>1, <1>6, InKept
     DEF Confirms, Flow, HungUp, Stream, Answered, FrameFits, RolesOf
<1>7. CASE Joins(y, z, x.air)
  <2>1. x.lk.state \notin {"ISS", "IDLE"} /\ x.air.k # "DATA"
    BY <1>1, <1>7 DEF Joins, RolesOf
  <2>2. Untouched(x) /\ Untouched(y) /\ z.got = y.got
    BY <1>7 DEF Joins, Early
  <2> QED BY <1>1, <1>7, <2>1, <2>2, UntouchedFlow, InIdle DEF Joins, Flow
<1>8. CASE Opens(y, z, x.air)
  <2>1. x.lk.state \notin {"ISS", "IDLE"} /\ x.air.k # "DATA"
    BY <1>1, <1>8 DEF Opens, RolesOf
  <2>2. Untouched(x) /\ Untouched(y) /\ z.got = y.got
    BY <1>8 DEF Opens, Early
  <2> QED BY <1>1, <1>8, <2>1, <2>2, UntouchedFlow, InIdle
          DEF Opens, Flow, SendsNext
<1>9. CASE Yields(y, z, x.air)
  BY <1>1, <1>9, InIdle DEF Yields, Flow, HungUp, FrameFits
<1>10. CASE Advances(y, z, x.air)
  BY <1>1, <1>10, InKept
     DEF Advances, Flow, HungUp, Stream, Answered, FrameFits, RolesOf
<1>11. CASE SendsMore(y, z, x.air)
  BY <1>1, <1>11, InKept
     DEF SendsMore, Flow, HungUp, Stream, Answered, FrameFits, RolesOf
<1>12. CASE TakesOver(y, z, x.air)
  BY <1>1, <1>12, InIdle DEF TakesOver, Flow, HungUp, FrameFits, SendsNext
<1>13. CASE Breaks(y, z, x.air)
  <2>1. CASE HungUp(y)
    BY <1>13, <2>1 DEF Breaks, Flow, HungUp
  <2>2. CASE Stream(x, y) /\ x.lk.state = "ISS"
    <3>1. x.air.k = "DATA" /\ Synced(x, y)
      BY <1>1, <1>13, <2>2, HeardData DEF Breaks, FrameFits
    <3> QED BY <1>13, <2>2, <3>1, InKept DEF Breaks, Flow
  <2>3. CASE Stream(x, y) /\ x.lk.state # "ISS"
    BY <1>1, <1>13, <2>3, InKept DEF Breaks, Flow, FrameFits
  <2> QED BY <1>1, <2>1, <2>2, <2>3 DEF Flow
<1>14. CASE AcksIdle(y, z, x.air)
  BY <1>1, <1>14, InKept
     DEF AcksIdle, Flow, HungUp, Stream, Answered, FrameFits, RolesOf
<1>15. CASE Receives(y, z, x.air)
  <2>1. CASE HungUp(y)
    BY <1>15, <2>1 DEF Receives, Flow, HungUp
  <2>2. CASE Stream(x, y)
    <3>1. /\ u.lk.state = x.lk.state /\ u.lk.state \in {"ISS", "DISC"}
          /\ u.air.k = "SILENCE" /\ z.lk.state = "IRS_DATA" /\ z.air.k = "ACK"
          /\ Confirmed(u) = Confirmed(x)
          /\ u.lk.outstanding = x.lk.outstanding
          /\ u.lk.last_data_sent = x.lk.last_data_sent
          /\ z.lk.last_data_to_host = x.lk.last_data_sent
          /\ z.lk.last_acked_type = x.lk.last_data_sent
      BY <1>15, <2>2, HeardFacts, HeardData DEF Receives, Confirmed
    <3>2. Counted(z.got) /\ Len(z.got) = Confirmed(x) + x.lk.outstanding
      <4>1. CASE z.got = y.got /\ Ahead(x, y)
        BY <2>2, <4>1 DEF Stream, Ahead
      <4>2. CASE z.got = y.got \o x.air.d /\ Synced(x, y)
        <5>1. /\ Suffix(x.lk.tx, x.sent) /\ Counted(y.got)
              /\ Len(y.got) = x.sent - Len(x.lk.tx)
              /\ x.lk.outstanding \in 1..Len(x.lk.tx)
              /\ x.air.d = SubSeq(x.lk.tx, 1, x.lk.outstanding)
          BY <1>1, <1>15, <2>2, <4>2, HeardData
             DEF Receives, Shape, Stream, Synced, Confirmed
        <5>2. /\ Counted(y.got \o x.air.d)
              /\ Len(y.got \o x.air.d) = Len(y.got) + x.lk.outstanding
          BY <5>1, OutstandingAppend
        <5> QED BY <4>2, <5>1, <5>2 DEF Confirmed
      <4> QED BY <1>15, <2>2, <4>1, <4>2, HeardData DEF Receives
    <3>3. Ahead(u, z) /\ Confirmed(u) <= Len(z.got)
      <4>1. Confirmed(x) \in Int
        BY <1>1 DEF Shape, Suffix, Confirmed
      <4>2. x.lk.outstanding \in Nat
        BY <1>15, <2>2, HeardData DEF Receives
      <4> QED BY <3>1, <3>2, <4>1, <4>2 DEF Ahead
    <3> QED BY <3>1, <3>2, <3>3 DEF Flow, Stream, Answered
  <2> QED BY <1>1, <2>1, <2>2 DEF Flow
<1>16. CASE x.damage /\ AcksDamaged(y, z, x.air)
  <2>1. CASE HungUp(y)
    BY <1>16, <2>1 DEF AcksDamaged, Flow, HungUp
  <2>2. CASE Stream(x, y)
    <3>1. Ahead(x, y) /\ x.lk.state \in {"ISS", "DISC"}
      BY <1>16, <2>2, HeardData DEF AcksDamaged
    <3> QED BY <1>16, <2>2, <3>1, InKept DEF AcksDamaged, Flow
  <2> QED BY <1>1, <2>1, <2>2 DEF Flow
<1>17. CASE x.damage /\ NaksDamaged(y, z, x.air)
  <2>1. CASE HungUp(y)
    BY <1>17, <2>1 DEF NaksDamaged, Flow, HungUp
  <2>2. CASE Stream(x, y)
    <3>1. Synced(x, y) /\ x.lk.state \in {"ISS", "DISC"}
      BY <1>17, <2>2, HeardData DEF NaksDamaged
    <3> QED BY <1>17, <2>2, <3>1, InKept DEF NaksDamaged, Flow
  <2> QED BY <1>1, <2>1, <2>2 DEF Flow
<1> QED BY <1>2, <1>3, <1>4, <1>5, <1>6, <1>7, <1>8, <1>9, <1>10,
           <1>11, <1>12, <1>13, <1>14, <1>15, <1>16, <1>17 DEF HearMove, DamageMove

\* What y sends still fits what x's host has been handed.
LEMMA HearOut ==
    ASSUME NEW x, NEW y, NEW u, NEW z, Pair(x, y), Heard(x, y, u, z),
           HearMove(y, z, x.air) \/ (x.damage /\ DamageMove(y, z, x.air)),
           Early(x, y, 1) \/ Early(y, x, 1) => Untouched(x) /\ Untouched(y),
           y.damage /\ y.lk.state = "IRS_TO_ISS"
               => x.lk.last_acked_type = NoType
    PROVE  Flow(z, u)
<1>1. /\ FrameFits(x.air.k, x.lk.state) /\ Flow(y, x)
      /\ RolesOf(x, y) /\ RolesOf(y, x) /\ Shape(x) /\ Shape(y)
  BY DEF Pair, Local, Fits
<1>2. y.air.k = "SILENCE"
  BY HeardFacts
<1>3. HungUp(u) <=> HungUp(x)
  BY HeardFacts DEF HungUp
<1>4. x.lk.state = "DISC" /\ x.air.k \in SessionKinds => HungUp(x)
  BY DEF Pair, Local, Shape, Fits, HungUp
<1>5. CASE Ignores(y, z)
  BY <1>1, <1>2, <1>3, <1>5, OutKept
     DEF Ignores, Flow, Stream, Answered, FrameFits, RolesOf
<1>6. CASE Leaves(y, z)
  BY <1>1, <1>2, <1>3, <1>6, OutKept
     DEF Leaves, Flow, Stream, Answered, FrameFits, RolesOf
<1>7. CASE EndsAgain(y, z, x.air)
  BY <1>1, <1>2, <1>3, <1>7, OutKept
     DEF EndsAgain, Flow, Stream, Answered, FrameFits, RolesOf
<1>8. CASE Accepts(y, z, x.air)
  <2>1. Untouched(x) /\ Untouched(y)
    BY <1>8 DEF Accepts, Early
  <2>2. Len(x.got) = 0 /\ Confirmed(y) = 0
    BY <1>1, <2>1, UntouchedFlow
  <2>3. /\ SameQueue(y, z) /\ z.damage = y.damage
        /\ z.lk.state = "IRS_CON_ACK" /\ z.air.k = "CONACK"
    BY <1>8 DEF Accepts
  <2>4. Stream(y, x) => Stream(z, u)
    BY <2>2, <2>3, OutKept
  <2> QED BY <1>1, <1>3, <2>4 DEF Flow
<1>9. CASE Confirms(y, z, x.air)
  BY <1>1, <1>2, <1>3, <1>9, OutKept
     DEF Confirms, Flow, Stream, Answered, FrameFits, RolesOf
<1>10. CASE Joins(y, z, x.air)
  BY <1>1, <1>2, <1>3, <1>10, OutKept
     DEF Joins, Flow, Stream, Answered, FrameFits, RolesOf
<1>11. CASE Opens(y, z, x.air)
  <2>1. Untouched(x) /\ Untouched(y)
    BY <1>11 DEF Opens, Early
  <2>2. Untouched(u) /\ Untouched(z)
    BY <1>11, <2>1, HeardFacts DEF Opens, Untouched
  <2>3. Shape(z)
    BY <1>11, HearLocal DEF Opens, HearMove, Local, Pair
  <2>4. Counted(u.got) /\ Len(u.got) = 0 /\ Confirmed(z) = 0 /\ Synced(z, u)
    BY <1>11, <2>2, <2>3, UntouchedFlow DEF Opens
  <2>5. /\ z.lk.state \in {"ISS", "IDLE"} /\ u.lk.state # "IRS_TO_ISS"
        /\ u.air.k = "SILENCE"
    BY <1>1, <1>11, HeardFacts DEF Opens, SendsNext, FrameFits
  <2> QED BY <2>4, <2>5 DEF Flow, Stream, Answered
<1>12. CASE Yields(y, z, x.air)
  <2>1. CASE HungUp(x)
    BY <1>3, <2>1 DEF Flow
  <2>2. CASE ~HungUp(x)
    <3>1. Stream(y, x) /\ x.lk.state = "IRS_TO_ISS"
      BY <1>1, <1>4, <1>12, <2>2 DEF Flow, Yields, FrameFits
    <3>2. Synced(y, x)
      BY <1>12, <3>1 DEF Yields, Stream, Answered
    <3>3. Len(x.got) = Confirmed(y)
      BY <3>2 DEF Synced
    <3> QED BY <1>12, <3>1, <3>3, OutKept DEF Yields, Flow
  <2> QED BY <2>1, <2>2
<1>13. CASE Advances(y, z, x.air)
  <2>1. CASE HungUp(x)
    BY <1>3, <2>1 DEF Flow
  <2>2. CASE Stream(y, x)
    <3>1. Ahead(y, x)
      BY <1>13, <2>2, HeardFacts DEF Advances, Stream, Answered
    <3>2. Confirmed(z) = Confirmed(y) + y.lk.outstanding
      <4>1. y.lk.outstanding \in 1..Len(y.lk.tx)
        BY <1>13 DEF Advances, Pair, Local, Outstanding
      <4>2. Suffix(y.lk.tx, y.sent) /\ Len(y.lk.tx) \in Nat /\ y.sent \in Nat
        BY <1>1 DEF Shape, Suffix
      <4>3. Len(z.lk.tx) = Len(y.lk.tx) - y.lk.outstanding
        BY <1>13, <4>1, <4>2, SuffixDrop DEF Advances
      <4> QED BY <1>13, <4>1, <4>2, <4>3 DEF Advances, Confirmed
    <3>3. Synced(z, u)
      BY <1>13, <3>1, <3>2, HeardFacts DEF Advances, Ahead, Synced
    <3>4. /\ z.lk.state \in {"ISS", "IDLE"} /\ u.air.k = "SILENCE"
          /\ Counted(u.got) /\ Confirmed(z) = Len(u.got) /\ Len(u.got) \in Int
      BY <1>1, <1>13, <2>2, <3>3, HeardFacts
         DEF Advances, SendsNext, Stream, Synced, Shape
    <3> QED BY <3>3, <3>4 DEF Flow, Stream, Answered
  <2> QED BY <1>1, <2>1, <2>2 DEF Flow
<1>14. CASE SendsMore(y, z, x.air)
  <2>1. CASE HungUp(x)
    BY <1>3, <2>1 DEF Flow
  <2>2. CASE Stream(y, x)
    <3>1. Synced(y, x) /\ z.lk.state \in {"ISS", "IDLE"}
      BY <1>14, <2>2, HeardFacts DEF SendsMore, SendsNext, Stream, Answered
    <3> QED BY <1>14, <2>2, <3>1, OutKept DEF SendsMore, Flow
  <2> QED BY <1>1, <2>1, <2>2 DEF Flow
<1>15. CASE TakesOver(y, z, x.air)
  <2>1. CASE HungUp(x)
    BY <1>3, <2>1 DEF Flow
  <2>2. CASE ~HungUp(x)
    <3>1. Stream(y, x) /\ x.lk.state = "IRS_FROM_ISS"
      BY <1>1, <1>4, <1>15, <2>2 DEF Flow, TakesOver, FrameFits, RolesOf
    <3>2. /\ Len(x.got) = Confirmed(y) /\ Counted(x.got)
          /\ x.lk.last_data_to_host = NoType
      BY <1>15, <3>1 DEF TakesOver, Stream
    <3>3. Synced(z, u) /\ Confirmed(z) = Confirmed(y)
      BY <1>15, <3>2, HeardFacts DEF TakesOver, Synced, Confirmed
    <3>4. /\ z.lk.state \in {"ISS", "IDLE"} /\ u.lk.state = "IRS_FROM_ISS"
          /\ u.air.k = "SILENCE" /\ u.got = x.got /\ Len(x.got) \in Int
      BY <1>1, <1>15, <3>1, HeardFacts DEF TakesOver, SendsNext, Shape
    <3> QED BY <3>2, <3>3, <3>4 DEF Flow, Stream, Answered
  <2> QED BY <2>1, <2>2
<1>16. CASE Breaks(y, z, x.air)
  BY <1>1, <1>2, <1>3, <1>16, OutKept
     DEF Breaks, Flow, Stream, Answered, FrameFits, RolesOf
<1>17. CASE AcksIdle(y, z, x.air)
  BY <1>1, <1>2, <1>3, <1>17, OutKept
     DEF AcksIdle, Flow, Stream, Answered, FrameFits, RolesOf
<1>18. CASE Receives(y, z, x.air)
  BY <1>1, <1>2, <1>3, <1>18, OutKept
     DEF Receives, Flow, Stream, Answered, FrameFits, RolesOf
<1>19. CASE x.damage /\ AcksDamaged(y, z, x.air)
  BY <1>1, <1>2, <1>3, <1>19, OutKept
     DEF AcksDamaged, Flow, Stream, Answered, FrameFits, RolesOf
<1>20. CASE x.damage /\ NaksDamaged(y, z, x.air)
  BY <1>1, <1>2, <1>3, <1>20, OutKept
     DEF NaksDamaged, Flow, Stream, Answered, FrameFits, RolesOf
<1> QED BY <1>5, <1>6, <1>7, <1>8, <1>9, <1>10, <1>11, <1>12, <1>13,
           <1>14, <1>15, <1>16, <1>17, <1>18, <1>19, <1>20 DEF HearMove, DamageMove

\* The invariant of two sides, after a frame is heard.
LEMMA HearPair ==
    ASSUME NEW x, NEW y, NEW u, NEW z, Pair(x, y), Heard(x, y, u, z),
           HearMove(y, z, x.air) \/ (x.damage /\ DamageMove(y, z, x.air)),
           Early(x, y, 1) \/ Early(y, x, 1) => Untouched(x) /\ Untouched(y),
           y.damage /\ y.lk.state = "IRS_TO_ISS"
               => x.lk.last_acked_type = NoType
    PROVE  Pair(u, z)
<1>1. ASSUME x.air.k = "DATA"
      PROVE  x.air.d \in Seq(Int) /\ x.air.ft \in Nat
  <2>1. Local(x)
    BY DEF Pair
  <2>2. x.air = InFlight(x.lk) /\ x.lk.outstanding \in 1..Len(x.lk.tx)
    BY <1>1, <2>1 DEF Local, Outstanding
  <2>3. x.lk.tx \in Seq(Int) /\ x.lk.last_data_sent \in Nat
    BY <2>1 DEF Local, Shape, Suffix
  <2>4. SubSeq(x.lk.tx, 1, x.lk.outstanding) \in Seq(Int)
    BY <2>2, <2>3
  <2>5. /\ x.air.ft = x.lk.last_data_sent
        /\ x.air.d = SubSeq(x.lk.tx, 1, x.lk.outstanding)
    BY <2>2 DEF InFlight
  <2> QED BY <2>3, <2>4, <2>5
<1>2. Local(u) /\ Silent(u)
  BY HeardFacts
<1>3. Local(z)
  BY <1>1, HearLocal DEF Pair
<1>4. RolesOf(u, z) /\ RolesOf(z, u)
  BY HearRoles
<1>5. Flow(u, z) /\ Flow(z, u)
  BY HearIn, HearOut
<1> QED BY <1>2, <1>3, <1>4, <1>5 DEF Pair

-----------------------------------------------------------------------------
(* A station acts on its own, the other's transmission may end *)

LEMMA MeetFacts ==
    ASSUME NEW x, NEW y, NEW u, NEW z, Stays(x, u), Meet(x, y, u, z)
    PROVE  /\ ~u.hit /\ u.air.k # "SILENCE" => ~x.hit /\ u.air = x.air
           /\ ~z.hit /\ z.air.k # "SILENCE" /\ z.air = y.air => ~y.hit
           /\ ~Silent(u) /\ ~Silent(z) => u.hit /\ z.hit
           /\ u.air = x.air \/ u.air.k = "SILENCE"
BY DEF Stays, Meet, Finishes

LEMMA StaysFacts ==
    ASSUME NEW x, NEW u, Stays(x, u)
    PROVE  /\ u.lk.state = x.lk.state /\ u.damage = x.damage
           /\ SameQueue(x, u) /\ SameFlight(x, u) /\ SameMemory(x, u)
           /\ HungUp(u) <=> HungUp(x)
BY DEF Stays, Finishes, HungUp

\* What x sends still fits if y remembers what it did.
LEMMA InStays ==
    ASSUME NEW x, NEW y, NEW u, NEW z, Stays(x, u), Meet(x, y, u, z),
           Stream(x, y), SameMemory(y, z),
           z.lk.state = y.lk.state,
           \/ z.air = y.air
           \/ x.lk.state # "ISS"
           \/ z.air.k \notin {"ACK", "NAK"}
    PROVE  Stream(u, z)
<1>1. /\ Synced(x, y) => Synced(u, z)
      /\ Ahead(x, y) => Ahead(u, z)
      /\ Confirmed(u) = Confirmed(x) /\ u.lk.state = x.lk.state
  BY StaysFacts, SameSync
<1>2. /\ ~u.hit /\ u.air.k = "DATA" => ~x.hit /\ x.air.k = "DATA"
      /\ ~z.hit /\ z.air.k \in {"ACK", "NAK"} /\ z.air = y.air => ~y.hit
  BY MeetFacts
<1>3. Answered(u, z)
  BY <1>1, <1>2 DEF Stream, Answered
<1> QED BY <1>1, <1>2, <1>3 DEF Stream

\* What y sends still fits if its role and the frame in flight are the same.
LEMMA OutStays ==
    ASSUME NEW x, NEW y, NEW u, NEW z, Stays(x, u), Meet(x, y, u, z),
           Stream(y, x), SameFlight(y, z), z.damage = y.damage,
           Confirmed(z) = Confirmed(y),
           z.lk.last_data_acked = y.lk.last_data_acked,
           z.lk.state = y.lk.state \/ z.lk.state = "DISC",
           z.air = y.air \/ y.lk.state = "ISS" \/ z.air.k # "DATA"
    PROVE  Stream(z, u)
<1>1. /\ u.got = x.got /\ u.lk.state = x.lk.state
      /\ u.lk.last_data_to_host = x.lk.last_data_to_host
      /\ u.lk.last_acked_type = x.lk.last_acked_type
  BY StaysFacts
<1>2. /\ Synced(y, x) => Synced(z, u)
      /\ Ahead(y, x) => Ahead(z, u)
  BY <1>1 DEF Synced, Ahead
<1>3. /\ ~z.hit /\ z.air.k = "DATA" /\ z.air = y.air
             => ~y.hit /\ y.air.k = "DATA"
      /\ ~u.hit /\ u.air.k \in {"ACK", "NAK"} => ~x.hit /\ u.air = x.air
  BY MeetFacts
<1>4. Answered(z, u)
  BY <1>1, <1>2, <1>3 DEF Stream, Answered
<1> QED BY <1>1, <1>2, <1>3, <1>4 DEF Stream

\* The invariant of two sides, after a step of one station on its own.
LEMMA OwnPair ==
    ASSUME NEW x, NEW y, NEW u, NEW z, Pair(x, y), Stays(x, u),
           OwnMove(y, z), Meet(x, y, u, z)
    PROVE  Pair(u, z)
<1>1. Local(u) /\ Local(z)
  BY OwnLocal DEF Pair, Stays, OwnMove
<1>2. z.lk.state = y.lk.state \/ z.lk.state = "DISC"
  BY DEF OwnMove, Leaves, Identifies, Resends, Queues, HangsUpNow, Ignores
<1>3. RolesOf(u, z) /\ RolesOf(z, u)
  BY <1>2, StaysFacts DEF Pair, RolesOf
<1>4. ~Silent(u) /\ ~Silent(z) => u.hit /\ z.hit
  BY MeetFacts
<1>5. /\ Flow(x, y) /\ Flow(y, x) /\ (HungUp(u) <=> HungUp(x))
      /\ Outstanding(y) /\ FrameFits(y.lk.out.k, y.lk.state)
      /\ Shape(y)
  BY StaysFacts DEF Pair, Local, Fits
<1>6. Flow(u, z)
  <2>1. CASE Ignores(y, z)
    BY <1>5, <2>1, InStays DEF Flow, HungUp
  <2>2. CASE Leaves(y, z)
    BY <2>2 DEF Leaves, Flow, HungUp
  <2>3. CASE Identifies(y, z)
    BY <1>5, <2>3, InStays DEF Identifies, Flow, HungUp
  <2>4. CASE Resends(y, z)
    <3>1. ~HungUp(y) => z.air.k \notin {"ACK", "NAK"}
      BY <2>4 DEF Pair, Local, Fits, Shape, FrameFits, Resends, HungUp
    <3> QED BY <1>5, <2>4, <3>1, InStays DEF Resends, Flow, HungUp, Shape
  <2>5. CASE Queues(y, z)
    BY <1>5, <2>5, InStays DEF Queues, Flow, HungUp
  <2>6. CASE HangsUpNow(y, z)
    BY <2>6 DEF HangsUpNow, Flow, HungUp
  <2> QED BY <2>1, <2>2, <2>3, <2>4, <2>5, <2>6 DEF OwnMove
<1>7. Flow(z, u)
  <2>1. CASE Ignores(y, z)
    BY <1>5, <2>1, OutStays DEF Flow, Confirmed
  <2>2. CASE Leaves(y, z)
    BY <1>5, <2>2, OutStays DEF Leaves, Flow, Confirmed
  <2>3. CASE Identifies(y, z)
    BY <1>5, <2>3, OutStays DEF Identifies, Flow, Confirmed
  <2>4. CASE Resends(y, z)
    <3>1. z.air.k = "DATA" => y.lk.state = "ISS"
      BY <2>4 DEF Pair, Local, Fits, FrameFits, Resends
    <3> QED BY <1>5, <2>4, <3>1, OutStays DEF Resends, Flow, Confirmed
  <2>5. CASE Queues(y, z)
    <3>1. Len(z.lk.tx) = Len(y.lk.tx) + 1 /\ z.sent = y.sent + 1
      BY <1>5, <2>5, SuffixAppend DEF Queues, Shape
    <3>2. Len(y.lk.tx) \in Nat /\ y.sent \in Nat
      BY <1>5 DEF Shape, Suffix
    <3>3. Confirmed(z) = Confirmed(y)
      BY SMTT(30), <3>1, <3>2 DEF Confirmed
    <3> QED BY <1>5, <2>5, <3>3, OutStays DEF Queues, Flow
  <2>6. CASE HangsUpNow(y, z)
    BY <1>5, <2>6, OutStays DEF HangsUpNow, Flow, Confirmed
  <2> QED BY <2>1, <2>2, <2>3, <2>4, <2>5, <2>6 DEF OwnMove
<1> QED BY <1>1, <1>3, <1>4, <1>6, <1>7 DEF Pair

\* The first call of the session, before anything was sent.
LEMMA CallPair ==
    ASSUME NEW x, NEW y, NEW u, NEW z, Pair(x, y), Ignores(x, u),
           Calls(y, z), Meet(x, y, u, z), x.lk.state = "DISC",
           x.air.k # "DATA", Untouched(x), Untouched(y)
    PROVE  Pair(u, z)
<1>1. Local(u) /\ Local(z)
  BY OwnLocal DEF Pair, OwnMove
<1>2. RolesOf(u, z) /\ RolesOf(z, u)
  BY DEF Calls, Ignores, RolesOf
<1>3. ~Silent(u) /\ ~Silent(z) => u.hit /\ z.hit
  BY MeetFacts DEF Stays
<1>4. Untouched(u) /\ Untouched(z)
  BY DEF Calls, Ignores, Untouched
<1>5. Stream(u, z) /\ Stream(z, u)
  BY <1>1, <1>4, UntouchedFlow DEF Calls, Ignores, Local
<1> QED BY <1>1, <1>2, <1>3, <1>5 DEF Pair, Flow

-----------------------------------------------------------------------------
(* The opening of the session *)

\* The caller's frame is heard by the called station.
LEMMA CalledHears ==
    ASSUME NEW x, NEW y, NEW u, NEW z, NEW c, Pair(x, y), Heard(x, y, u, z),
           HearMove(y, z, x.air) \/ DamageMove(y, z, x.air),
           Opening(x, y, c)
    PROVE  Opening(u, z, c)
<1>1. /\ FrameFits(x.air.k, x.lk.state) /\ RolesOf(x, y) /\ RolesOf(y, x)
      /\ x.air.k \in SessionKinds => x.told # "NONE"
      /\ x.lk.state \in Connected => x.told = "CONNECTED"
      /\ y.lk.state \in Connected => y.told = "CONNECTED"
      /\ u.lk.state = x.lk.state /\ u.told = x.told
      /\ SameQueue(x, u) /\ SameMemory(x, u) /\ u.lk.out = x.lk.out
      /\ u.air.k = "SILENCE" /\ y.air.k = "SILENCE"
  BY HeardFacts DEF Pair, Local, Fits, Heard, Finishes
<1>2. CASE Ignores(y, z)
  BY <1>1, <1>2 DEF Ignores, Opening, Early, Untouched, FrameFits, RolesOf
<1>3. CASE Leaves(y, z)
  BY <1>1, <1>3 DEF Leaves, Opening, Early, Untouched, FrameFits, RolesOf
<1>4. CASE EndsAgain(y, z, x.air)
  BY <1>1, <1>4 DEF EndsAgain, Opening, Early, Untouched, FrameFits, RolesOf
<1>5. CASE Accepts(y, z, x.air)
  BY <1>1, <1>5 DEF Accepts, Opening, Early, Untouched, FrameFits, RolesOf
<1>6. CASE Confirms(y, z, x.air)
  BY <1>1, <1>6 DEF Confirms, Opening, Early, Untouched, FrameFits, RolesOf
<1>7. CASE Joins(y, z, x.air)
  BY <1>1, <1>7 DEF Joins, Opening, Early, Untouched, FrameFits, RolesOf
<1>8. CASE Opens(y, z, x.air)
  BY <1>1, <1>8 DEF Opens, Opening, Early, Untouched, FrameFits, RolesOf, SendsNext, InFlight
<1>9. CASE Yields(y, z, x.air)
  BY <1>1, <1>9 DEF Yields, Opening, Early, Untouched, FrameFits, RolesOf
<1>10. CASE Advances(y, z, x.air)
  BY SMTT(30), <1>1, <1>10 DEF Advances, Opening, Early, Untouched, FrameFits, RolesOf, SendsNext, InFlight
<1>11. CASE SendsMore(y, z, x.air)
  BY <1>1, <1>11 DEF SendsMore, Opening, Early, Untouched, FrameFits, RolesOf, SendsNext, InFlight
<1>12. CASE TakesOver(y, z, x.air)
  BY <1>1, <1>12 DEF TakesOver, Opening, Early, Untouched, FrameFits, RolesOf, SendsNext, InFlight
<1>13. CASE Breaks(y, z, x.air)
  BY <1>1, <1>13 DEF Breaks, Opening, Early, Untouched, FrameFits, RolesOf
<1>14. CASE AcksIdle(y, z, x.air)
  BY <1>1, <1>14 DEF AcksIdle, Opening, Early, Untouched, FrameFits, RolesOf
<1>15. CASE Receives(y, z, x.air)
  BY <1>1, <1>15 DEF Receives, Opening, Early, Untouched, FrameFits, RolesOf
<1>16. CASE AcksDamaged(y, z, x.air)
  BY <1>1, <1>16 DEF AcksDamaged, Opening, Early, Untouched, FrameFits, RolesOf
<1>17. CASE NaksDamaged(y, z, x.air)
  BY <1>1, <1>17 DEF NaksDamaged, Opening, Early, Untouched, FrameFits, RolesOf
<1> QED BY <1>2, <1>3, <1>4, <1>5, <1>6, <1>7, <1>8, <1>9, <1>10,
           <1>11, <1>12, <1>13, <1>14, <1>15, <1>16, <1>17 DEF HearMove, DamageMove

\* The called station's frame is heard by the caller.
LEMMA CallerHears ==
    ASSUME NEW x, NEW y, NEW u, NEW z, NEW c, Pair(x, y), Heard(x, y, u, z),
           HearMove(y, z, x.air) \/ DamageMove(y, z, x.air),
           Opening(y, x, c)
    PROVE  Opening(z, u, c)
<1>1. /\ FrameFits(x.air.k, x.lk.state) /\ RolesOf(x, y) /\ RolesOf(y, x)
      /\ x.air.k \in SessionKinds => x.told # "NONE"
      /\ x.lk.state \in Connected => x.told = "CONNECTED"
      /\ y.lk.state \in Connected => y.told = "CONNECTED"
      /\ u.lk.state = x.lk.state /\ u.told = x.told
      /\ SameQueue(x, u) /\ SameMemory(x, u) /\ u.lk.out = x.lk.out
      /\ u.air.k = "SILENCE" /\ y.air.k = "SILENCE"
  BY HeardFacts DEF Pair, Local, Fits, Heard, Finishes
<1>2. CASE Ignores(y, z)
  BY <1>1, <1>2 DEF Ignores, Opening, Early, Untouched, FrameFits, RolesOf
<1>3. CASE Leaves(y, z)
  BY <1>1, <1>3 DEF Leaves, Opening, Early, Untouched, FrameFits, RolesOf
<1>4. CASE EndsAgain(y, z, x.air)
  BY <1>1, <1>4 DEF EndsAgain, Opening, Early, Untouched, FrameFits, RolesOf
<1>5. CASE Accepts(y, z, x.air)
  BY <1>1, <1>5 DEF Accepts, Opening, Early, Untouched, FrameFits, RolesOf
<1>6. CASE Confirms(y, z, x.air)
  BY <1>1, <1>6 DEF Confirms, Opening, Early, Untouched, FrameFits, RolesOf
<1>7. CASE Joins(y, z, x.air)
  BY <1>1, <1>7 DEF Joins, Opening, Early, Untouched, FrameFits, RolesOf
<1>8. CASE Opens(y, z, x.air)
  BY <1>1, <1>8 DEF Opens, Opening, Early, Untouched, FrameFits, RolesOf, SendsNext, InFlight
<1>9. CASE Yields(y, z, x.air)
  BY <1>1, <1>9 DEF Yields, Opening, Early, Untouched, FrameFits, RolesOf
<1>10. CASE Advances(y, z, x.air)
  BY <1>1, <1>10 DEF Advances, Opening, Early, Untouched, FrameFits, RolesOf, SendsNext, InFlight
<1>11. CASE SendsMore(y, z, x.air)
  BY <1>1, <1>11 DEF SendsMore, Opening, Early, Untouched, FrameFits, RolesOf, SendsNext, InFlight
<1>12. CASE TakesOver(y, z, x.air)
  BY <1>1, <1>12 DEF TakesOver, Opening, Early, Untouched, FrameFits, RolesOf, SendsNext, InFlight
<1>13. CASE Breaks(y, z, x.air)
  BY <1>1, <1>13 DEF Breaks, Opening, Early, Untouched, FrameFits, RolesOf
<1>14. CASE AcksIdle(y, z, x.air)
  BY <1>1, <1>14 DEF AcksIdle, Opening, Early, Untouched, FrameFits, RolesOf
<1>15. CASE Receives(y, z, x.air)
  BY <1>1, <1>15 DEF Receives, Opening, Early, Untouched, FrameFits, RolesOf
<1>16. CASE AcksDamaged(y, z, x.air)
  BY <1>1, <1>16 DEF AcksDamaged, Opening, Early, Untouched, FrameFits, RolesOf
<1>17. CASE NaksDamaged(y, z, x.air)
  BY <1>1, <1>17 DEF NaksDamaged, Opening, Early, Untouched, FrameFits, RolesOf
<1> QED BY <1>2, <1>3, <1>4, <1>5, <1>6, <1>7, <1>8, <1>9, <1>10,
           <1>11, <1>12, <1>13, <1>14, <1>15, <1>16, <1>17 DEF HearMove, DamageMove

\* A step of the called station on its own.
LEMMA CalledMoves ==
    ASSUME NEW x, NEW y, NEW u, NEW z, NEW c, Pair(x, y), Stays(x, u),
           OwnMove(y, z), Opening(x, y, c)
    PROVE  Opening(u, z, c)
<1>1. /\ FrameFits(y.lk.out.k, y.lk.state) /\ Shape(y)
      /\ y.lk.state = "DISC" => ~y.lk.repeat
      /\ u.lk.state = x.lk.state /\ u.told = x.told
      /\ SameQueue(x, u) /\ SameMemory(x, u) /\ u.lk.out = x.lk.out
      /\ u.air = x.air \/ u.air.k = "SILENCE"
  BY DEF Pair, Local, Fits, Stays, Finishes
<1>2. CASE Ignores(y, z)
  BY <1>1, <1>2 DEF Ignores, Opening, Early, Untouched, FrameFits
<1>3. CASE Leaves(y, z)
  BY <1>1, <1>3 DEF Leaves, Opening, Early, Untouched, FrameFits
<1>4. CASE Identifies(y, z)
  BY <1>1, <1>4 DEF Identifies, Opening, Early, Untouched, FrameFits
<1>5. CASE Resends(y, z)
  BY <1>1, <1>5 DEF Resends, Opening, Early, Untouched, FrameFits
<1>6. CASE Queues(y, z)
  <2>1. Len(z.lk.tx) = Len(y.lk.tx) + 1
    BY <1>1, <1>6, SuffixAppend DEF Queues, Shape
  <2> QED BY <1>1, <1>6, <2>1 DEF Queues, Opening, Early, Untouched, FrameFits
<1>7. CASE HangsUpNow(y, z)
  BY <1>1, <1>7 DEF HangsUpNow, Opening, Early, Untouched, FrameFits
<1> QED BY <1>2, <1>3, <1>4, <1>5, <1>6, <1>7 DEF OwnMove

\* A step of the caller on its own.
LEMMA CallerMoves ==
    ASSUME NEW x, NEW y, NEW u, NEW z, NEW c, Pair(x, y), Stays(x, u),
           OwnMove(y, z), Opening(y, x, c)
    PROVE  Opening(z, u, c)
<1>1. /\ FrameFits(y.lk.out.k, y.lk.state) /\ Shape(y)
      /\ y.lk.state = "DISC" => ~y.lk.repeat
      /\ u.lk.state = x.lk.state /\ u.told = x.told
      /\ SameQueue(x, u) /\ SameMemory(x, u) /\ u.lk.out = x.lk.out
      /\ u.air = x.air \/ u.air.k = "SILENCE"
  BY DEF Pair, Local, Fits, Stays, Finishes
<1>2. CASE Ignores(y, z)
  BY <1>1, <1>2 DEF Ignores, Opening, Early, Untouched, FrameFits
<1>3. CASE Leaves(y, z)
  BY <1>1, <1>3 DEF Leaves, Opening, Early, Untouched, FrameFits
<1>4. CASE Identifies(y, z)
  BY <1>1, <1>4 DEF Identifies, Opening, Early, Untouched, FrameFits
<1>5. CASE Resends(y, z)
  BY <1>1, <1>5 DEF Resends, Opening, Early, Untouched, FrameFits
<1>6. CASE Queues(y, z)
  <2>1. Len(z.lk.tx) = Len(y.lk.tx) + 1
    BY <1>1, <1>6, SuffixAppend DEF Queues, Shape
  <2> QED BY <1>1, <1>6, <2>1 DEF Queues, Opening, Early, Untouched, FrameFits
<1>7. CASE HangsUpNow(y, z)
  BY <1>1, <1>7 DEF HangsUpNow, Opening, Early, Untouched, FrameFits
<1> QED BY <1>2, <1>3, <1>4, <1>5, <1>6, <1>7 DEF OwnMove

\* The caller calls.
LEMMA CallerCalls ==
    ASSUME NEW x, NEW y, NEW u, NEW z, Pair(x, y), Ignores(x, u),
           Calls(y, z), Opening(y, x, 0)
    PROVE  Opening(z, u, 1)
<1>1. FrameFits(x.lk.out.k, x.lk.state) /\ x.lk.state = "DISC"
  BY DEF Pair, Local, Fits, Opening
<1> QED BY <1>1 DEF Calls, Ignores, Opening, Early, Untouched, FrameFits, Pair, Local, Fits

\* Payloads are damaged in one direction: the caller is heard.
LEMMA OneWayCalledHears ==
    ASSUME NEW x, NEW y, NEW u, NEW z, Pair(x, y), Heard(x, y, u, z),
           HearMove(y, z, x.air) \/ DamageMove(y, z, x.air),
           OneWay(x, y)
    PROVE  OneWay(u, z)
<1>1. u.damage = x.damage /\ u.lk.state = x.lk.state /\ SameMemory(x, u)
  BY HeardFacts
<1>2. z.sent = y.sent
  BY DEF HearMove, DamageMove, Leaves, EndsAgain, Accepts, Confirms, Joins,
         Opens, Yields, Advances, SendsMore, TakesOver, Breaks, AcksIdle,
         Receives, AcksDamaged, NaksDamaged
<1> QED BY <1>1, <1>2 DEF OneWay

\* The called station, which has nothing to send, is heard.
LEMMA OneWayCallerHears ==
    ASSUME NEW x, NEW y, NEW u, NEW z, NEW c, Pair(x, y), Heard(x, y, u, z),
           HearMove(y, z, x.air) \/ DamageMove(y, z, x.air),
           Opening(y, x, c), OneWay(y, x)
    PROVE  OneWay(z, u)
<1>1. Local(x)
  BY DEF Pair
<1>2. x.air.k = "DATA" => x.lk.outstanding \in 1..Len(x.lk.tx)
  BY <1>1 DEF Local, Outstanding
<1>3. Len(x.lk.tx) \in Nat /\ Len(x.lk.tx) <= x.sent
  BY <1>1 DEF Local, Shape, Suffix
<1>4. /\ x.air.k = "DATA" => x.sent # 0
      /\ y.lk.state # "IRS_CON_ACK" /\ u.sent = x.sent
  BY <1>2, <1>3, HeardFacts DEF Opening
<1>5. CASE Ignores(y, z)
  BY <1>4, <1>5 DEF Ignores, OneWay
<1>6. CASE Leaves(y, z)
  BY <1>4, <1>6 DEF Leaves, OneWay
<1>7. CASE EndsAgain(y, z, x.air)
  BY <1>4, <1>7 DEF EndsAgain, OneWay
<1>8. CASE Accepts(y, z, x.air)
  BY <1>4, <1>8 DEF Accepts, OneWay
<1>9. CASE Confirms(y, z, x.air)
  BY <1>4, <1>9 DEF Confirms, OneWay
<1>10. CASE Joins(y, z, x.air)
  BY <1>4, <1>10 DEF Joins, OneWay
<1>11. CASE Opens(y, z, x.air)
  BY <1>4, <1>11 DEF Opens, OneWay, SendsNext, InFlight
<1>12. CASE Yields(y, z, x.air)
  BY <1>4, <1>12 DEF Yields, OneWay
<1>13. CASE Advances(y, z, x.air)
  BY <1>4, <1>13 DEF Advances, OneWay, SendsNext, InFlight
<1>14. CASE SendsMore(y, z, x.air)
  BY <1>4, <1>14 DEF SendsMore, OneWay, SendsNext, InFlight
<1>15. CASE TakesOver(y, z, x.air)
  BY <1>4, <1>15 DEF TakesOver, OneWay, SendsNext, InFlight
<1>16. CASE Breaks(y, z, x.air)
  BY <1>4, <1>16 DEF Breaks, OneWay
<1>17. CASE AcksIdle(y, z, x.air)
  BY <1>4, <1>17 DEF AcksIdle, OneWay
<1>18. CASE Receives(y, z, x.air)
  BY <1>4, <1>18 DEF Receives, OneWay
<1>19. CASE AcksDamaged(y, z, x.air)
  BY <1>4, <1>19 DEF AcksDamaged, OneWay
<1>20. CASE NaksDamaged(y, z, x.air)
  BY <1>4, <1>20 DEF NaksDamaged, OneWay
<1> QED BY <1>5, <1>6, <1>7, <1>8, <1>9, <1>10, <1>11, <1>12, <1>13,
           <1>14, <1>15, <1>16, <1>17, <1>18, <1>19, <1>20 DEF HearMove, DamageMove

\* Payloads are damaged in one direction: a step of one station on its own.
LEMMA OneWayMoves ==
    ASSUME NEW x, NEW y, NEW u, NEW z, Stays(x, u),
           OwnMove(y, z) \/ Calls(y, z)
    PROVE  /\ OneWay(y, x) => OneWay(z, u)
           /\ OneWay(x, y) /\ (x.damage => z.sent = y.sent) => OneWay(u, z)
<1>1. /\ u.damage = x.damage /\ u.lk.state = x.lk.state
      /\ SameMemory(x, u) /\ u.sent = x.sent
  BY StaysFacts
<1>2. /\ z.damage = y.damage /\ SameMemory(y, z)
      /\ z.lk.state \in {y.lk.state, "DISC", "ISS_CON_REQ"}
  BY DEF OwnMove, Leaves, Identifies, Resends, Queues, HangsUpNow, Calls
<1> QED BY <1>1, <1>2 DEF OneWay

-----------------------------------------------------------------------------
(* Every handler of Link makes one of the moves *)

\* What iss_send_next does to the struct l: r goes on the air.
NextFrom(l, r) ==
    /\ DOMAIN r = Fields /\ r.mode = l.mode /\ r.mode_ptr = l.mode_ptr
    /\ r.tx = l.tx /\ r.last_data_acked = l.last_data_acked
    /\ r.last_data_to_host = l.last_data_to_host
    /\ r.last_acked_type = l.last_acked_type
    /\ r.disc_repeat_count = l.disc_repeat_count
    /\ r.repeat
    /\ \/ /\ l.tx = <<>> /\ r.state = "IDLE" /\ r.out = Frame("IDLE")
          /\ r.last_data_sent = l.last_data_sent
       \/ /\ l.tx # <<>> /\ r.state = "ISS"
          /\ r.outstanding \in 1..Len(r.tx)
          /\ r.last_data_sent \in Nat
          /\ r.last_data_sent % 2 # r.last_data_acked % 2
          /\ r.out = InFlight(r)

\* A data frame takes the head of the queue.
LEMMA FirstUnitsHead ==
    ASSUME NEW s \in Seq(Int), s # <<>>, NEW n \in Nat \ {0}
    PROVE  /\ Len(A!FirstUnits(s, n)) \in 1..Len(s)
           /\ A!FirstUnits(s, n) = SubSeq(s, 1, Len(A!FirstUnits(s, n)))
<1>1. Len(s) \in Nat \ {0} /\ s = SubSeq(s, 1, Len(s))
  OBVIOUS
<1>2. CASE n < Len(s)
  <2>1. Len(SubSeq(s, 1, n)) = n
    BY <1>2
  <2> QED BY <1>2, <2>1 DEF A!FirstUnits
<1>3. CASE ~(n < Len(s))
  BY <1>1, <1>3 DEF A!FirstUnits
<1> QED BY <1>2, <1>3

\* The parity of a data frame's type differs from the last one acknowledged.
LEMMA NextParity ==
    ASSUME NEW m \in Nat, NEW a \in Nat
    PROVE  /\ 2 * m + (1 - (a % 2)) \in Nat
           /\ (2 * m + (1 - (a % 2))) % 2 # a % 2
<1>1. CASE a % 2 = 0
  BY <1>1
<1>2. CASE a % 2 = 1
  BY <1>2
<1> QED BY <1>1, <1>2

LEMMA SendNext ==
    ASSUME NEW l, DOMAIN l = Fields, l.tx \in Seq(Int),
           l.mode_ptr \in 0..(Modes - 1), l.last_data_acked \in Nat
    PROVE  NextFrom(l, A!iss_send_next(l)) /\ NextFrom(l, B!iss_send_next(l))
<1> DEFINE r == A!iss_send_next(l)
<1>1. B!iss_send_next(l) = r
  BY DEF A!iss_send_next, B!iss_send_next, A!arm_repeat, B!arm_repeat,
         A!send_control, B!send_control, A!NextType, B!NextType,
         A!FirstUnits, B!FirstUnits, B!Frame, B!DataFrame, B!NoType
<1>2. ASSUME l.tx = <<>>
      PROVE  NextFrom(l, r)
  <2>1. r = [l EXCEPT !.out = Frame("IDLE"), !.state = "IDLE",
                      !.repeat = TRUE, !.repeat_type = "IDLE"]
    BY <1>2 DEF A!iss_send_next, A!arm_repeat, A!send_control, Fields
  <2> HIDE DEF r
  <2>2. /\ DOMAIN r = Fields /\ r.tx = l.tx
        /\ r.mode = l.mode /\ r.mode_ptr = l.mode_ptr
        /\ r.last_data_acked = l.last_data_acked
        /\ r.last_data_to_host = l.last_data_to_host
        /\ r.last_acked_type = l.last_acked_type
        /\ r.disc_repeat_count = l.disc_repeat_count
        /\ r.repeat /\ r.state = "IDLE" /\ r.out = Frame("IDLE")
        /\ r.last_data_sent = l.last_data_sent
    BY <2>1 DEF Fields
  <2> QED BY <1>2, <2>2 DEF NextFrom
<1>3. ASSUME l.tx # <<>>
      PROVE  NextFrom(l, r)
  <2> DEFINE take == A!FirstUnits(l.tx, Cap[l.mode_ptr])
  <2>1. /\ Cap[l.mode_ptr] \in Nat \ {0} /\ l.mode_ptr \in Nat
    BY PairAssumption
  <2>2. Len(take) \in 1..Len(l.tx) /\ take = SubSeq(l.tx, 1, Len(take))
    BY <1>3, <2>1, FirstUnitsHead
  <2>3. /\ A!NextType(l) \in Nat
        /\ A!NextType(l) % 2 # l.last_data_acked % 2
    BY <2>1, NextParity DEF A!NextType
  <2> HIDE DEF take
  <2>4. r = [l EXCEPT !.last_data_sent = A!NextType(l),
                      !.outstanding = Len(take), !.state = "ISS",
                      !.out = DataFrame(A!NextType(l), take),
                      !.repeat = TRUE, !.repeat_type = "DATA"]
    BY <1>3 DEF A!iss_send_next, A!arm_repeat, take, Fields
  <2> HIDE DEF r
  <2>5. /\ DOMAIN r = Fields /\ r.tx = l.tx
        /\ r.mode = l.mode /\ r.mode_ptr = l.mode_ptr
        /\ r.last_data_acked = l.last_data_acked
        /\ r.last_data_to_host = l.last_data_to_host
        /\ r.last_acked_type = l.last_acked_type
        /\ r.disc_repeat_count = l.disc_repeat_count
        /\ r.repeat /\ r.state = "ISS"
        /\ r.outstanding = Len(take) /\ r.last_data_sent = A!NextType(l)
        /\ r.out = DataFrame(A!NextType(l), take)
    BY <2>4 DEF Fields
  <2>6. r.out = InFlight(r)
    BY <2>2, <2>5 DEF InFlight
  <2> QED BY <1>3, <2>2, <2>3, <2>5, <2>6 DEF NextFrom
<1> QED BY <1>1, <1>2, <1>3

\* tx_dequeue of what is outstanding leaves the rest of the queue.
LEMMA QueueRest ==
    ASSUME NEW s \in Seq(Int), NEW n \in 1..Len(s)
    PROVE  (IF n < Len(s) THEN SubSeq(s, n + 1, Len(s)) ELSE <<>>)
               = SubSeq(s, n + 1, Len(s))
<1>1. CASE n = Len(s)
  <2>1. Len(s) \in Nat
    OBVIOUS
  <2>2. Len(SubSeq(s, n + 1, Len(s))) = 0
    BY <1>1, <2>1
  <2>3. SubSeq(s, n + 1, Len(s)) = <<>>
    BY <2>2
  <2> QED BY <1>1, <2>1, <2>3
<1>2. CASE n < Len(s)
  BY <1>2
<1> QED BY <1>1, <1>2

\* What a frame makes A's station do.
LEMMA RxA ==
    ASSUME Shape(sideA), Outstanding(sideA), NEW f, A!Rx(f), f.k \notin {"CONREJ", "PING"},
           sc' = sc, sentA' = sentA, gotA' = gotA \o rxA'
    PROVE  HearMove(sideA, sideA', f)
<1> DEFINE h == A!Heard
<1>1. /\ DOMAIN lkA = Fields /\ lkA.mode = "ARQ"
      /\ lkA.mode_ptr \in 0..(Modes - 1)
      /\ lkA.last_data_sent \in Nat /\ lkA.last_data_acked \in Nat
      /\ lkA.disc_repeat_count \in Nat
      /\ lkA.tx \in Seq(Int) /\ gotA \in Seq(Int)
  BY DEF Shape, Suffix, sideA, Side
<1>2. rxA' = <<>> => gotA' = gotA
  BY <1>1
<1>3. /\ DOMAIN h = Fields /\ h.mode = "ARQ" /\ h.state = lkA.state
      /\ h.mode_ptr = lkA.mode_ptr /\ h.tx = lkA.tx
      /\ h.last_data_sent = lkA.last_data_sent
      /\ h.last_data_acked = lkA.last_data_acked
      /\ h.outstanding = lkA.outstanding
      /\ h.last_data_to_host = lkA.last_data_to_host
      /\ h.last_acked_type = lkA.last_acked_type
      /\ h.disc_repeat_count = lkA.disc_repeat_count
      /\ h.repeat = lkA.repeat /\ h.out = lkA.out
  <2>1. h = lkA \/ h = [lkA EXCEPT !.stall = TRUE]
    BY DEF A!Heard, A!arm_stall
  <2> QED BY <1>1, <2>1 DEF Fields
<1> HIDE DEF h
<1> USE DEF A!Send, A!Keep, A!Quiet, A!Notify, A!Deliver, A!InArq,
            A!send_control, A!arm_repeat, A!arm_idle, A!arm_stall,
            A!reset_to_disc, A!Frame, A!NoType, sideA, Side, Fields
<1>4. ASSUME A!RxLateDisc(f)
     PROVE  EndsAgain(sideA, sideA', f)
  BY <1>1, <1>2, <1>3, <1>4 DEF A!RxLateDisc, EndsAgain
<1>5. ASSUME A!RxConreqAccept(f)
     PROVE  Accepts(sideA, sideA', f)
  BY <1>1, <1>2, <1>3, <1>5 DEF A!RxConreqAccept, Accepts
<1>6. ASSUME A!RxConackAtCaller(f)
     PROVE  Confirms(sideA, sideA', f)
  BY <1>1, <1>2, <1>3, <1>6 DEF A!RxConackAtCaller, Confirms, h
<1>7. ASSUME A!RxConackAtTarget(f)
     PROVE  Joins(sideA, sideA', f)
  BY <1>1, <1>2, <1>3, <1>7 DEF A!RxConackAtTarget, Joins
<1>8. ASSUME A!RxDisc(f)
     PROVE  Leaves(sideA, sideA')
  BY <1>1, <1>2, <1>3, <1>8 DEF A!RxDisc, Leaves, h
<1>9. ASSUME A!RxEnd(f)
     PROVE  Leaves(sideA, sideA')
  BY <1>1, <1>2, <1>3, <1>9 DEF A!RxEnd, Leaves, h
<1>10. ASSUME A!RxBreak(f)
     PROVE  Yields(sideA, sideA', f)
  BY <1>1, <1>2, <1>3, <1>10 DEF A!RxBreak, Yields, h, A!iss_yield_on_break
<1>11. ASSUME A!RxHandshakeAck(f)
     PROVE  Opens(sideA, sideA', f)
  <2> DEFINE l == A!arm_idle(A!arm_stall(
                    A!iss_begin_sending([lkA EXCEPT !.pending = FALSE])))
  <2>1. /\ DOMAIN l = Fields /\ l.mode = "ARQ"
        /\ l.mode_ptr \in 0..(Modes - 1)
        /\ l.tx = lkA.tx /\ l.last_data_acked = 1
        /\ l.last_data_sent = lkA.last_data_sent
        /\ l.last_data_to_host = lkA.last_data_to_host
        /\ l.last_acked_type = lkA.last_acked_type
        /\ l.disc_repeat_count = lkA.disc_repeat_count
    BY <1>1, <1>3, PairAssumption DEF A!iss_begin_sending
  <2>2. lkA' = A!iss_send_next(l)
    BY <1>11 DEF A!RxHandshakeAck, h
  <2>3. l.tx \in Seq(Int) /\ l.last_data_acked \in Nat
    BY <1>1, <2>1
  <2> HIDE DEF l
  <2>4. NextFrom(l, lkA')
    BY <2>1, <2>2, <2>3, SendNext
  <2>5. /\ airA' = lkA'.out /\ toldA' = "CONNECTED"
        /\ f.k = "ACK" /\ lkA.state = "ISS_CON_ACK" /\ gotA' = gotA
    BY <1>2, <1>11 DEF A!RxHandshakeAck
  <2>6. SendsNext(sideA')
    BY <1>1, <2>1, <2>4, <2>5 DEF NextFrom, SendsNext, InFlight
  <2> QED BY <1>1, <2>1, <2>4, <2>5, <2>6 DEF Opens, NextFrom
<1>12. ASSUME A!RxIdleAck(f)
     PROVE  SendsMore(sideA, sideA', f)
  <2> DEFINE l == h
  <2>1. /\ DOMAIN l = Fields /\ l.mode = "ARQ"
        /\ l.mode_ptr \in 0..(Modes - 1)
        /\ l.tx = lkA.tx /\ l.last_data_acked = lkA.last_data_acked
        /\ l.last_data_sent = lkA.last_data_sent
        /\ l.last_data_to_host = lkA.last_data_to_host
        /\ l.last_acked_type = lkA.last_acked_type
        /\ l.disc_repeat_count = lkA.disc_repeat_count
    BY <1>1, <1>3, PairAssumption DEF h
  <2>2. lkA' = A!iss_send_next(l)
    BY <1>12 DEF A!RxIdleAck, h
  <2>3. l.tx \in Seq(Int) /\ l.last_data_acked \in Nat
    BY <1>1, <2>1
  <2> HIDE DEF l
  <2>4. NextFrom(l, lkA')
    BY <2>1, <2>2, <2>3, SendNext
  <2>5. /\ airA' = lkA'.out /\ toldA' = toldA
        /\ f.k = "ACK" /\ lkA.state = "IDLE" /\ gotA' = gotA
    BY <1>2, <1>12 DEF A!RxIdleAck
  <2>6. SendsNext(sideA')
    BY <1>1, <2>1, <2>4, <2>5 DEF NextFrom, SendsNext, InFlight
  <2> QED BY <1>1, <2>1, <2>4, <2>5, <2>6 DEF SendsMore, NextFrom
<1>13. ASSUME A!RxBreakAck(f)
     PROVE  TakesOver(sideA, sideA', f)
  <2> DEFINE l == [A!iss_begin_sending(h) EXCEPT !.last_data_to_host = NoType]
  <2>1. /\ DOMAIN l = Fields /\ l.mode = "ARQ"
        /\ l.mode_ptr \in 0..(Modes - 1)
        /\ l.tx = lkA.tx /\ l.last_data_acked = 1
        /\ l.last_data_sent = lkA.last_data_sent
        /\ l.last_data_to_host = NoType
        /\ l.last_acked_type = lkA.last_acked_type
        /\ l.disc_repeat_count = lkA.disc_repeat_count
    BY <1>1, <1>3, PairAssumption DEF A!iss_begin_sending
  <2>2. lkA' = A!iss_send_next(l)
    BY <1>13 DEF A!RxBreakAck, h
  <2>3. l.tx \in Seq(Int) /\ l.last_data_acked \in Nat
    BY <1>1, <2>1
  <2> HIDE DEF l
  <2>4. NextFrom(l, lkA')
    BY <2>1, <2>2, <2>3, SendNext
  <2>5. /\ airA' = lkA'.out /\ toldA' = toldA
        /\ f.k = "ACK" /\ lkA.state = "IRS_TO_ISS" /\ gotA' = gotA
    BY <1>2, <1>13 DEF A!RxBreakAck
  <2>6. SendsNext(sideA')
    BY <1>1, <2>1, <2>4, <2>5 DEF NextFrom, SendsNext, InFlight
  <2> QED BY <1>1, <2>1, <2>4, <2>5, <2>6 DEF TakesOver, NextFrom
<1>14. ASSUME A!RxDataAck(f)
     PROVE  Advances(sideA, sideA', f)
  <2> DEFINE k == [A!tx_dequeue(h, h.outstanding) EXCEPT
                       !.last_data_acked = lkA.last_data_sent,
                       !.outstanding = 0]
  <2> DEFINE q == SubSeq(lkA.tx, lkA.outstanding + 1, Len(lkA.tx))
  <2>1. lkA.outstanding \in 1..Len(lkA.tx) /\ Len(lkA.tx) \in Nat
    BY <1>1, <1>14 DEF Outstanding, A!RxDataAck
  <2>2. q \in Seq(Int)
    BY <1>1, <2>1
  <2>3. (IF lkA.outstanding < Len(lkA.tx)
         THEN SubSeq(lkA.tx, lkA.outstanding + 1, Len(lkA.tx))
         ELSE <<>>) = q
    BY <1>1, <2>1, QueueRest
  <2> HIDE DEF q
  <2>4. /\ DOMAIN k = Fields /\ k.mode = "ARQ" /\ k.tx = q
        /\ k.mode_ptr = lkA.mode_ptr
        /\ k.last_data_sent = lkA.last_data_sent
        /\ k.last_data_acked = lkA.last_data_sent
        /\ k.last_data_to_host = lkA.last_data_to_host
        /\ k.last_acked_type = lkA.last_acked_type
        /\ k.disc_repeat_count = lkA.disc_repeat_count
    <3>1. k = [h EXCEPT !.tx = q, !.last_data_acked = lkA.last_data_sent,
                        !.outstanding = 0]
      BY <1>3, <2>3 DEF A!tx_dequeue, q
    <3> HIDE DEF k
    <3> QED BY <1>3, <3>1
  <2>5. PICK m \in A!gearshift(k) :
            lkA' = A!iss_send_next([A!arm_idle(k) EXCEPT !.mode_ptr = m])
    BY <1>14 DEF A!RxDataAck, h
  <2>6. m \in 0..(Modes - 1)
    BY <2>5 DEF A!gearshift
  <2> HIDE DEF k
  <2> DEFINE l == [A!arm_idle(k) EXCEPT !.mode_ptr = m]
  <2>7. /\ DOMAIN l = Fields /\ l.mode = "ARQ"
        /\ l.mode_ptr \in 0..(Modes - 1)
        /\ l.tx = q /\ l.last_data_acked = lkA.last_data_sent
        /\ l.last_data_sent = lkA.last_data_sent
        /\ l.last_data_to_host = lkA.last_data_to_host
        /\ l.last_acked_type = lkA.last_acked_type
        /\ l.disc_repeat_count = lkA.disc_repeat_count
    BY <1>1, <1>3, PairAssumption, <2>4, <2>6 DEF A!arm_idle
  <2>8. lkA' = A!iss_send_next(l)
    BY <1>14, <2>5 DEF A!RxDataAck, k, h
  <2>9. l.tx \in Seq(Int) /\ l.last_data_acked \in Nat
    BY <1>1, <2>7, <2>2
  <2> HIDE DEF l
  <2>10. NextFrom(l, lkA')
    BY <2>7, <2>8, <2>9, SendNext
  <2>11. /\ airA' = lkA'.out /\ toldA' = toldA
         /\ f.k = "ACK" /\ lkA.state = "ISS" /\ gotA' = gotA
    BY <1>2, <1>14, <2>5 DEF A!RxDataAck
  <2>12. SendsNext(sideA')
    BY <1>1, <2>7, <2>10, <2>11 DEF NextFrom, SendsNext, InFlight
  <2> QED BY <1>1, <2>7, <2>10, <2>11, <2>12 DEF Advances, NextFrom, q
<1>15. ASSUME A!RxDataNak(f)
     PROVE  Ignores(sideA, sideA') \/ SendsMore(sideA, sideA', f)
  <2>1. PICK m \in A!gearshift(lkA) :
            IF m = lkA.mode_ptr THEN A!Keep(h)
            ELSE A!Send(A!iss_send_next([h EXCEPT !.mode_ptr = m]))
    BY <1>15 DEF A!RxDataNak, h
  <2>2. CASE m = lkA.mode_ptr
    BY <1>1, <1>2, <1>3, <1>15, <2>1, <2>2 DEF A!RxDataNak
  <2>3. CASE m # lkA.mode_ptr
    <3> DEFINE l == [h EXCEPT !.mode_ptr = m]
    <3>1. /\ DOMAIN l = Fields /\ l.mode = "ARQ"
          /\ l.mode_ptr \in 0..(Modes - 1)
          /\ l.tx = lkA.tx /\ l.last_data_acked = lkA.last_data_acked
          /\ l.last_data_sent = lkA.last_data_sent
          /\ l.last_data_to_host = lkA.last_data_to_host
          /\ l.last_acked_type = lkA.last_acked_type
          /\ l.disc_repeat_count = lkA.disc_repeat_count
      BY <1>1, <1>3, <2>1 DEF A!gearshift
    <3>2. lkA' = A!iss_send_next(l) /\ airA' = lkA'.out
      BY <2>1, <2>3
    <3> HIDE DEF l
    <3>3. NextFrom(l, lkA')
      BY <1>1, <3>1, <3>2, SendNext
    <3>4. /\ f.k = "NAK" /\ lkA.state = "ISS"
          /\ toldA' = toldA /\ gotA' = gotA
      BY <1>2, <1>15 DEF A!RxDataNak
    <3>5. SendsNext(sideA')
      BY <1>1, <3>1, <3>2, <3>3 DEF NextFrom, SendsNext, InFlight
    <3> QED BY <1>1, <3>1, <3>2, <3>3, <3>4, <3>5 DEF SendsMore, NextFrom
  <2> QED BY <2>2, <2>3
<1>16. ASSUME A!RxIdle(f)
     PROVE  Breaks(sideA, sideA', f) \/ AcksIdle(sideA, sideA', f)
  <2>1. /\ f.k = "IDLE" /\ lkA.state \in {"IRS_DATA", "IRS_FROM_ISS"}
        /\ toldA' = toldA /\ gotA' = gotA
        /\ \/ lkA.state = "IRS_DATA" /\ A!Send(A!send_break(h))
           \/ A!Send(A!send_control(h, "ACK"))
    BY <1>2, <1>16 DEF A!RxIdle, h
  <2>2. CASE lkA.state = "IRS_DATA" /\ A!Send(A!send_break(h))
    BY <1>1, <1>3, <2>1, <2>2 DEF A!send_break, Breaks
  <2>3. CASE A!Send(A!send_control(h, "ACK"))
    BY <1>1, <1>3, <2>1, <2>3 DEF AcksIdle
  <2> QED BY <2>1, <2>2, <2>3
<1>17. ASSUME A!RxData(f)
     PROVE  Breaks(sideA, sideA', f) \/ Receives(sideA, sideA', f)
  <2>1. f.k = "DATA" /\ lkA.state \in {"IRS_DATA", "IRS_FROM_ISS"}
    BY <1>17 DEF A!RxData
  <2>2. CASE A!BreaksOn(f)
    <3>1. /\ A!Send(A!send_break(A!arm_idle(h)))
          /\ toldA' = toldA /\ gotA' = gotA
          /\ lkA.state = "IRS_DATA" /\ f.ft # lkA.last_acked_type
      BY <1>2, <1>17, <2>2 DEF A!RxData, A!BreaksOn, h
    <3> QED BY <1>1, <1>3, <2>1, <3>1 DEF A!send_break, Breaks
  <2>3. CASE ~A!BreaksOn(f)
    <3>1. /\ A!Send([A!send_control(A!arm_idle(h), "ACK") EXCEPT
                          !.last_data_to_host = f.ft,
                          !.last_acked_type = f.ft,
                          !.state = "IRS_DATA"])
          /\ toldA' = toldA
          /\ IF f.ft # lkA.last_data_to_host
             THEN gotA' = gotA \o f.d ELSE gotA' = gotA
      BY <1>2, <1>17, <2>3 DEF A!RxData, h
    <3> QED BY <1>1, <1>3, <2>1, <3>1 DEF Receives
  <2> QED BY <2>2, <2>3
<1>18. ASSUME A!RxIgnored(f)
     PROVE  Ignores(sideA, sideA')
  BY <1>1, <1>2, <1>3, <1>18 DEF A!RxIgnored, h
<1>19. /\ ~A!RxConreqReject(f) /\ ~A!RxConrej(f) /\ ~A!RxPing(f)
      /\ ~A!RxFec(f) /\ ~A!RxRxo(f)
  BY <1>1 DEF A!RxConreqReject, A!RxConrej, A!RxPing, A!RxFec, A!RxRxo
<1> HIDE DEF sideA
<1> QED
  BY <1>4, <1>5, <1>6, <1>7, <1>8, <1>9, <1>10, <1>11, <1>12, <1>13, 
       <1>14, <1>15, <1>16, <1>17, <1>18, <1>19
  DEF A!Rx, HearMove

\* What a damaged payload makes A's station do.
LEMMA RxBadA ==
    ASSUME Shape(sideA), NEW f, A!RxBad(f),
           sc' = sc, sentA' = sentA, gotA' = gotA \o rxA'
    PROVE  DamageMove(sideA, sideA', f)
<1>1. /\ DOMAIN lkA = Fields /\ lkA.mode = "ARQ"
      /\ lkA.mode_ptr \in 0..(Modes - 1) /\ gotA \in Seq(Int)
  BY DEF Shape, sideA, Side
<1>2. rxA' = <<>> => gotA' = gotA
  BY <1>1
<1> USE DEF A!RxBad, A!RxBadData, A!Send, A!Quiet, A!InArq,
            A!send_control, A!Frame, A!NoType, sideA, Side, Fields
<1>3. CASE f.ft = lkA.last_acked_type
  BY <1>1, <1>2, <1>3 DEF DamageMove, AcksDamaged
<1>4. CASE f.ft # lkA.last_acked_type
  BY ZenonT(60), <1>1, <1>2, <1>4 DEF DamageMove, NaksDamaged
<1> QED BY <1>3, <1>4

\* What a frame makes B's station do.
LEMMA RxB ==
    ASSUME Shape(sideB), Outstanding(sideB), NEW f, B!Rx(f), f.k \notin {"CONREJ", "PING"},
           sc' = sc, sentB' = sentB, gotB' = gotB \o rxB'
    PROVE  HearMove(sideB, sideB', f)
<1> DEFINE h == B!Heard
<1>1. /\ DOMAIN lkB = Fields /\ lkB.mode = "ARQ"
      /\ lkB.mode_ptr \in 0..(Modes - 1)
      /\ lkB.last_data_sent \in Nat /\ lkB.last_data_acked \in Nat
      /\ lkB.disc_repeat_count \in Nat
      /\ lkB.tx \in Seq(Int) /\ gotB \in Seq(Int)
  BY DEF Shape, Suffix, sideB, Side
<1>2. rxB' = <<>> => gotB' = gotB
  BY <1>1
<1>3. /\ DOMAIN h = Fields /\ h.mode = "ARQ" /\ h.state = lkB.state
      /\ h.mode_ptr = lkB.mode_ptr /\ h.tx = lkB.tx
      /\ h.last_data_sent = lkB.last_data_sent
      /\ h.last_data_acked = lkB.last_data_acked
      /\ h.outstanding = lkB.outstanding
      /\ h.last_data_to_host = lkB.last_data_to_host
      /\ h.last_acked_type = lkB.last_acked_type
      /\ h.disc_repeat_count = lkB.disc_repeat_count
      /\ h.repeat = lkB.repeat /\ h.out = lkB.out
  <2>1. h = lkB \/ h = [lkB EXCEPT !.stall = TRUE]
    BY DEF B!Heard, B!arm_stall
  <2> QED BY <1>1, <2>1 DEF Fields
<1> HIDE DEF h
<1> USE DEF B!Send, B!Keep, B!Quiet, B!Notify, B!Deliver, B!InArq,
            B!send_control, B!arm_repeat, B!arm_idle, B!arm_stall,
            B!reset_to_disc, B!Frame, B!NoType, sideB, Side, Fields
<1>4. ASSUME B!RxLateDisc(f)
     PROVE  EndsAgain(sideB, sideB', f)
  BY <1>1, <1>2, <1>3, <1>4 DEF B!RxLateDisc, EndsAgain
<1>5. ASSUME B!RxConreqAccept(f)
     PROVE  Accepts(sideB, sideB', f)
  BY <1>1, <1>2, <1>3, <1>5 DEF B!RxConreqAccept, Accepts
<1>6. ASSUME B!RxConackAtCaller(f)
     PROVE  Confirms(sideB, sideB', f)
  BY <1>1, <1>2, <1>3, <1>6 DEF B!RxConackAtCaller, Confirms, h
<1>7. ASSUME B!RxConackAtTarget(f)
     PROVE  Joins(sideB, sideB', f)
  BY <1>1, <1>2, <1>3, <1>7 DEF B!RxConackAtTarget, Joins
<1>8. ASSUME B!RxDisc(f)
     PROVE  Leaves(sideB, sideB')
  BY <1>1, <1>2, <1>3, <1>8 DEF B!RxDisc, Leaves, h
<1>9. ASSUME B!RxEnd(f)
     PROVE  Leaves(sideB, sideB')
  BY <1>1, <1>2, <1>3, <1>9 DEF B!RxEnd, Leaves, h
<1>10. ASSUME B!RxBreak(f)
     PROVE  Yields(sideB, sideB', f)
  BY <1>1, <1>2, <1>3, <1>10 DEF B!RxBreak, Yields, h, B!iss_yield_on_break
<1>11. ASSUME B!RxHandshakeAck(f)
     PROVE  Opens(sideB, sideB', f)
  <2> DEFINE l == B!arm_idle(B!arm_stall(
                    B!iss_begin_sending([lkB EXCEPT !.pending = FALSE])))
  <2>1. /\ DOMAIN l = Fields /\ l.mode = "ARQ"
        /\ l.mode_ptr \in 0..(Modes - 1)
        /\ l.tx = lkB.tx /\ l.last_data_acked = 1
        /\ l.last_data_sent = lkB.last_data_sent
        /\ l.last_data_to_host = lkB.last_data_to_host
        /\ l.last_acked_type = lkB.last_acked_type
        /\ l.disc_repeat_count = lkB.disc_repeat_count
    BY <1>1, <1>3, PairAssumption DEF B!iss_begin_sending
  <2>2. lkB' = B!iss_send_next(l)
    BY <1>11 DEF B!RxHandshakeAck, h
  <2>3. l.tx \in Seq(Int) /\ l.last_data_acked \in Nat
    BY <1>1, <2>1
  <2> HIDE DEF l
  <2>4. NextFrom(l, lkB')
    BY <2>1, <2>2, <2>3, SendNext
  <2>5. /\ airB' = lkB'.out /\ toldB' = "CONNECTED"
        /\ f.k = "ACK" /\ lkB.state = "ISS_CON_ACK" /\ gotB' = gotB
    BY <1>2, <1>11 DEF B!RxHandshakeAck
  <2>6. SendsNext(sideB')
    BY <1>1, <2>1, <2>4, <2>5 DEF NextFrom, SendsNext, InFlight
  <2> QED BY <1>1, <2>1, <2>4, <2>5, <2>6 DEF Opens, NextFrom
<1>12. ASSUME B!RxIdleAck(f)
     PROVE  SendsMore(sideB, sideB', f)
  <2> DEFINE l == h
  <2>1. /\ DOMAIN l = Fields /\ l.mode = "ARQ"
        /\ l.mode_ptr \in 0..(Modes - 1)
        /\ l.tx = lkB.tx /\ l.last_data_acked = lkB.last_data_acked
        /\ l.last_data_sent = lkB.last_data_sent
        /\ l.last_data_to_host = lkB.last_data_to_host
        /\ l.last_acked_type = lkB.last_acked_type
        /\ l.disc_repeat_count = lkB.disc_repeat_count
    BY <1>1, <1>3, PairAssumption DEF h
  <2>2. lkB' = B!iss_send_next(l)
    BY <1>12 DEF B!RxIdleAck, h
  <2>3. l.tx \in Seq(Int) /\ l.last_data_acked \in Nat
    BY <1>1, <2>1
  <2> HIDE DEF l
  <2>4. NextFrom(l, lkB')
    BY <2>1, <2>2, <2>3, SendNext
  <2>5. /\ airB' = lkB'.out /\ toldB' = toldB
        /\ f.k = "ACK" /\ lkB.state = "IDLE" /\ gotB' = gotB
    BY <1>2, <1>12 DEF B!RxIdleAck
  <2>6. SendsNext(sideB')
    BY <1>1, <2>1, <2>4, <2>5 DEF NextFrom, SendsNext, InFlight
  <2> QED BY <1>1, <2>1, <2>4, <2>5, <2>6 DEF SendsMore, NextFrom
<1>13. ASSUME B!RxBreakAck(f)
     PROVE  TakesOver(sideB, sideB', f)
  <2> DEFINE l == [B!iss_begin_sending(h) EXCEPT !.last_data_to_host = NoType]
  <2>1. /\ DOMAIN l = Fields /\ l.mode = "ARQ"
        /\ l.mode_ptr \in 0..(Modes - 1)
        /\ l.tx = lkB.tx /\ l.last_data_acked = 1
        /\ l.last_data_sent = lkB.last_data_sent
        /\ l.last_data_to_host = NoType
        /\ l.last_acked_type = lkB.last_acked_type
        /\ l.disc_repeat_count = lkB.disc_repeat_count
    BY <1>1, <1>3, PairAssumption DEF B!iss_begin_sending
  <2>2. lkB' = B!iss_send_next(l)
    BY <1>13 DEF B!RxBreakAck, h
  <2>3. l.tx \in Seq(Int) /\ l.last_data_acked \in Nat
    BY <1>1, <2>1
  <2> HIDE DEF l
  <2>4. NextFrom(l, lkB')
    BY <2>1, <2>2, <2>3, SendNext
  <2>5. /\ airB' = lkB'.out /\ toldB' = toldB
        /\ f.k = "ACK" /\ lkB.state = "IRS_TO_ISS" /\ gotB' = gotB
    BY <1>2, <1>13 DEF B!RxBreakAck
  <2>6. SendsNext(sideB')
    BY <1>1, <2>1, <2>4, <2>5 DEF NextFrom, SendsNext, InFlight
  <2> QED BY <1>1, <2>1, <2>4, <2>5, <2>6 DEF TakesOver, NextFrom
<1>14. ASSUME B!RxDataAck(f)
     PROVE  Advances(sideB, sideB', f)
  <2> DEFINE k == [B!tx_dequeue(h, h.outstanding) EXCEPT
                       !.last_data_acked = lkB.last_data_sent,
                       !.outstanding = 0]
  <2> DEFINE q == SubSeq(lkB.tx, lkB.outstanding + 1, Len(lkB.tx))
  <2>1. lkB.outstanding \in 1..Len(lkB.tx) /\ Len(lkB.tx) \in Nat
    BY <1>1, <1>14 DEF Outstanding, B!RxDataAck
  <2>2. q \in Seq(Int)
    BY <1>1, <2>1
  <2>3. (IF lkB.outstanding < Len(lkB.tx)
         THEN SubSeq(lkB.tx, lkB.outstanding + 1, Len(lkB.tx))
         ELSE <<>>) = q
    BY <1>1, <2>1, QueueRest
  <2> HIDE DEF q
  <2>4. /\ DOMAIN k = Fields /\ k.mode = "ARQ" /\ k.tx = q
        /\ k.mode_ptr = lkB.mode_ptr
        /\ k.last_data_sent = lkB.last_data_sent
        /\ k.last_data_acked = lkB.last_data_sent
        /\ k.last_data_to_host = lkB.last_data_to_host
        /\ k.last_acked_type = lkB.last_acked_type
        /\ k.disc_repeat_count = lkB.disc_repeat_count
    <3>1. k = [h EXCEPT !.tx = q, !.last_data_acked = lkB.last_data_sent,
                        !.outstanding = 0]
      BY <1>3, <2>3 DEF B!tx_dequeue, q
    <3> HIDE DEF k
    <3> QED BY <1>3, <3>1
  <2>5. PICK m \in B!gearshift(k) :
            lkB' = B!iss_send_next([B!arm_idle(k) EXCEPT !.mode_ptr = m])
    BY <1>14 DEF B!RxDataAck, h
  <2>6. m \in 0..(Modes - 1)
    BY <2>5 DEF B!gearshift
  <2> HIDE DEF k
  <2> DEFINE l == [B!arm_idle(k) EXCEPT !.mode_ptr = m]
  <2>7. /\ DOMAIN l = Fields /\ l.mode = "ARQ"
        /\ l.mode_ptr \in 0..(Modes - 1)
        /\ l.tx = q /\ l.last_data_acked = lkB.last_data_sent
        /\ l.last_data_sent = lkB.last_data_sent
        /\ l.last_data_to_host = lkB.last_data_to_host
        /\ l.last_acked_type = lkB.last_acked_type
        /\ l.disc_repeat_count = lkB.disc_repeat_count
    BY <1>1, <1>3, PairAssumption, <2>4, <2>6 DEF B!arm_idle
  <2>8. lkB' = B!iss_send_next(l)
    BY <1>14, <2>5 DEF B!RxDataAck, k, h
  <2>9. l.tx \in Seq(Int) /\ l.last_data_acked \in Nat
    BY <1>1, <2>7, <2>2
  <2> HIDE DEF l
  <2>10. NextFrom(l, lkB')
    BY <2>7, <2>8, <2>9, SendNext
  <2>11. /\ airB' = lkB'.out /\ toldB' = toldB
         /\ f.k = "ACK" /\ lkB.state = "ISS" /\ gotB' = gotB
    BY <1>2, <1>14, <2>5 DEF B!RxDataAck
  <2>12. SendsNext(sideB')
    BY <1>1, <2>7, <2>10, <2>11 DEF NextFrom, SendsNext, InFlight
  <2> QED BY <1>1, <2>7, <2>10, <2>11, <2>12 DEF Advances, NextFrom, q
<1>15. ASSUME B!RxDataNak(f)
     PROVE  Ignores(sideB, sideB') \/ SendsMore(sideB, sideB', f)
  <2>1. PICK m \in B!gearshift(lkB) :
            IF m = lkB.mode_ptr THEN B!Keep(h)
            ELSE B!Send(B!iss_send_next([h EXCEPT !.mode_ptr = m]))
    BY <1>15 DEF B!RxDataNak, h
  <2>2. CASE m = lkB.mode_ptr
    BY <1>1, <1>2, <1>3, <1>15, <2>1, <2>2 DEF B!RxDataNak
  <2>3. CASE m # lkB.mode_ptr
    <3> DEFINE l == [h EXCEPT !.mode_ptr = m]
    <3>1. /\ DOMAIN l = Fields /\ l.mode = "ARQ"
          /\ l.mode_ptr \in 0..(Modes - 1)
          /\ l.tx = lkB.tx /\ l.last_data_acked = lkB.last_data_acked
          /\ l.last_data_sent = lkB.last_data_sent
          /\ l.last_data_to_host = lkB.last_data_to_host
          /\ l.last_acked_type = lkB.last_acked_type
          /\ l.disc_repeat_count = lkB.disc_repeat_count
      BY <1>1, <1>3, <2>1 DEF B!gearshift
    <3>2. lkB' = B!iss_send_next(l) /\ airB' = lkB'.out
      BY <2>1, <2>3
    <3> HIDE DEF l
    <3>3. NextFrom(l, lkB')
      BY <1>1, <3>1, <3>2, SendNext
    <3>4. /\ f.k = "NAK" /\ lkB.state = "ISS"
          /\ toldB' = toldB /\ gotB' = gotB
      BY <1>2, <1>15 DEF B!RxDataNak
    <3>5. SendsNext(sideB')
      BY <1>1, <3>1, <3>2, <3>3 DEF NextFrom, SendsNext, InFlight
    <3> QED BY <1>1, <3>1, <3>2, <3>3, <3>4, <3>5 DEF SendsMore, NextFrom
  <2> QED BY <2>2, <2>3
<1>16. ASSUME B!RxIdle(f)
     PROVE  Breaks(sideB, sideB', f) \/ AcksIdle(sideB, sideB', f)
  <2>1. /\ f.k = "IDLE" /\ lkB.state \in {"IRS_DATA", "IRS_FROM_ISS"}
        /\ toldB' = toldB /\ gotB' = gotB
        /\ \/ lkB.state = "IRS_DATA" /\ B!Send(B!send_break(h))
           \/ B!Send(B!send_control(h, "ACK"))
    BY <1>2, <1>16 DEF B!RxIdle, h
  <2>2. CASE lkB.state = "IRS_DATA" /\ B!Send(B!send_break(h))
    BY <1>1, <1>3, <2>1, <2>2 DEF B!send_break, Breaks
  <2>3. CASE B!Send(B!send_control(h, "ACK"))
    BY <1>1, <1>3, <2>1, <2>3 DEF AcksIdle
  <2> QED BY <2>1, <2>2, <2>3
<1>17. ASSUME B!RxData(f)
     PROVE  Breaks(sideB, sideB', f) \/ Receives(sideB, sideB', f)
  <2>1. f.k = "DATA" /\ lkB.state \in {"IRS_DATA", "IRS_FROM_ISS"}
    BY <1>17 DEF B!RxData
  <2>2. CASE B!BreaksOn(f)
    <3>1. /\ B!Send(B!send_break(B!arm_idle(h)))
          /\ toldB' = toldB /\ gotB' = gotB
          /\ lkB.state = "IRS_DATA" /\ f.ft # lkB.last_acked_type
      BY <1>2, <1>17, <2>2 DEF B!RxData, B!BreaksOn, h
    <3> QED BY <1>1, <1>3, <2>1, <3>1 DEF B!send_break, Breaks
  <2>3. CASE ~B!BreaksOn(f)
    <3>1. /\ B!Send([B!send_control(B!arm_idle(h), "ACK") EXCEPT
                          !.last_data_to_host = f.ft,
                          !.last_acked_type = f.ft,
                          !.state = "IRS_DATA"])
          /\ toldB' = toldB
          /\ IF f.ft # lkB.last_data_to_host
             THEN gotB' = gotB \o f.d ELSE gotB' = gotB
      BY <1>2, <1>17, <2>3 DEF B!RxData, h
    <3> QED BY <1>1, <1>3, <2>1, <3>1 DEF Receives
  <2> QED BY <2>2, <2>3
<1>18. ASSUME B!RxIgnored(f)
     PROVE  Ignores(sideB, sideB')
  BY <1>1, <1>2, <1>3, <1>18 DEF B!RxIgnored, h
<1>19. /\ ~B!RxConreqReject(f) /\ ~B!RxConrej(f) /\ ~B!RxPing(f)
      /\ ~B!RxFec(f) /\ ~B!RxRxo(f)
  BY <1>1 DEF B!RxConreqReject, B!RxConrej, B!RxPing, B!RxFec, B!RxRxo
<1> HIDE DEF sideB
<1> QED
  BY <1>4, <1>5, <1>6, <1>7, <1>8, <1>9, <1>10, <1>11, <1>12, <1>13, 
       <1>14, <1>15, <1>16, <1>17, <1>18, <1>19
  DEF B!Rx, HearMove

\* What a damaged payload makes B's station do.
LEMMA RxBadB ==
    ASSUME Shape(sideB), NEW f, B!RxBad(f),
           sc' = sc, sentB' = sentB, gotB' = gotB \o rxB'
    PROVE  DamageMove(sideB, sideB', f)
<1>1. /\ DOMAIN lkB = Fields /\ lkB.mode = "ARQ"
      /\ lkB.mode_ptr \in 0..(Modes - 1) /\ gotB \in Seq(Int)
  BY DEF Shape, sideB, Side
<1>2. rxB' = <<>> => gotB' = gotB
  BY <1>1
<1> USE DEF B!RxBad, B!RxBadData, B!Send, B!Quiet, B!InArq,
            B!send_control, B!Frame, B!NoType, sideB, Side, Fields
<1>3. CASE f.ft = lkB.last_acked_type
  BY <1>1, <1>2, <1>3 DEF DamageMove, AcksDamaged
<1>4. CASE f.ft # lkB.last_acked_type
  BY ZenonT(60), <1>1, <1>2, <1>4 DEF DamageMove, NaksDamaged
<1> QED BY <1>3, <1>4

\* What A's station does on its own; h says what its host queues.
LEMMA OwnA ==
    ASSUME Shape(sideA), sc' = sc, gotA' = gotA \o rxA'
    PROVE  /\ sentA' = sentA =>
                  /\ A!TxDone => Finishes(sideA, sideA')
                  /\ A!Repeat => Resends(sideA, sideA')
                  /\ A!RepeatGivesUp \/ A!PendingTimeout \/ A!StallTimeout
                         => Leaves(sideA, sideA')
                  /\ A!FinalId => Identifies(sideA, sideA')
                  /\ A!HostConnect => Calls(sideA, sideA')
                  /\ A!HostDisconnect => HangsUpNow(sideA, sideA')
                  /\ A!HostBreak => Ignores(sideA, sideA')
                  /\ rxA' = <<>> /\ UNCHANGED <<lkA, airA, toldA>>
                         => Ignores(sideA, sideA')
           /\ sentA' = sentA + 1 /\ sentA < MaxData
                  /\ A!HostSendData(<<sentA + 1>>)
                  => Queues(sideA, sideA')
<1>1. /\ DOMAIN lkA = Fields /\ lkA.mode = "ARQ"
      /\ lkA.mode_ptr \in 0..(Modes - 1)
      /\ lkA.disc_repeat_count \in Nat
      /\ lkA.tx \in Seq(Int) /\ Len(lkA.tx) <= sentA /\ sentA \in Nat
      /\ gotA \in Seq(Int)
  BY DEF Shape, Suffix, sideA, Side
<1>2. rxA' = <<>> => gotA' = gotA
  BY <1>1
<1> USE DEF A!Send, A!Keep, A!Quiet, A!Notify, A!send_control,
            A!arm_repeat, A!arm_idle, A!reset_to_disc, A!Frame, A!NoType,
            A!Disconnecting, sideA, Side, Fields
<1>3. ASSUME sentA' = sentA, A!TxDone
      PROVE  Finishes(sideA, sideA')
  BY <1>1, <1>2, <1>3 DEF A!TxDone, Finishes, A!Silence
<1>4. ASSUME sentA' = sentA, A!Repeat
      PROVE  Resends(sideA, sideA')
  <2> DEFINE n == lkA.disc_repeat_count
             m == IF A!Disconnecting(lkA) THEN n + 1 ELSE n
  <2>1. m \in Nat /\ (m > 0 <=> n > 0)
    BY <1>1
  <2>2. lkA' = [lkA EXCEPT !.disc_repeat_count = m]
    BY <1>1, <1>4 DEF A!Repeat
  <2> HIDE DEF m
  <2>3. /\ lkA.repeat /\ toldA' = toldA /\ gotA' = gotA
        /\ airA' = lkA.out \/ airA' = Frame("JUNK")
    BY <1>2, <1>4 DEF A!Repeat, A!Resent
  <2> QED BY <1>1, <1>4, <2>1, <2>2, <2>3 DEF Resends
<1>5. ASSUME sentA' = sentA,
             A!RepeatGivesUp \/ A!PendingTimeout \/ A!StallTimeout
      PROVE  Leaves(sideA, sideA')
  <2>1. CASE A!RepeatGivesUp
    BY <1>1, <1>2, <1>5, <2>1 DEF A!RepeatGivesUp, Leaves
  <2>2. CASE A!PendingTimeout
    BY <1>1, <1>2, <1>5, <2>2 DEF A!PendingTimeout, Leaves
  <2>3. CASE A!StallTimeout
    BY <1>1, <1>2, <1>5, <2>3 DEF A!StallTimeout, Leaves
  <2> QED BY <1>5, <2>1, <2>2, <2>3
<1>6. ASSUME sentA' = sentA, A!FinalId
      PROVE  Identifies(sideA, sideA')
  BY <1>1, <1>2, <1>6 DEF A!FinalId, Identifies
<1>7. ASSUME sentA' = sentA, A!HostConnect
      PROVE  Calls(sideA, sideA')
  BY <1>1, <1>2, <1>7 DEF A!HostConnect, Calls
<1>8. ASSUME sentA' = sentA, A!HostDisconnect
      PROVE  HangsUpNow(sideA, sideA')
  BY <1>1, <1>2, <1>8 DEF A!HostDisconnect, A!step_host_disconnect, HangsUpNow
<1>9. ASSUME sentA' = sentA, A!HostBreak
      PROVE  Ignores(sideA, sideA')
  BY <1>1, <1>2, <1>9 DEF A!HostBreak
<1>10. ASSUME sentA' = sentA, rxA' = <<>>, UNCHANGED <<lkA, airA, toldA>>
       PROVE  Ignores(sideA, sideA')
  BY <1>1, <1>2, <1>10
<1>11. ASSUME sentA' = sentA + 1, sentA < MaxData,
              A!HostSendData(<<sentA + 1>>)
       PROVE  Queues(sideA, sideA')
  <2>1. /\ Len(lkA.tx) \in Nat /\ MaxData \in Nat
        /\ Len(lkA.tx \o <<sentA + 1>>) = Len(lkA.tx) + 1
    BY <1>1, PairAssumption
  <2>2. /\ Len(lkA.tx) < MaxData
        /\ ~(MaxData < Len(lkA.tx \o <<sentA + 1>>))
    BY <1>1, <1>11, <2>1
  <2>3. A!FirstUnits(lkA.tx \o <<sentA + 1>>, MaxData)
            = lkA.tx \o <<sentA + 1>>
    BY <2>2 DEF A!FirstUnits
  <2>4. lkA' = A!arm_idle([lkA EXCEPT !.tx = lkA.tx \o <<sentA + 1>>])
    BY <1>1, <1>11, <2>2, <2>3 DEF A!HostSendData
  <2>5. airA' = airA /\ toldA' = toldA /\ gotA' = gotA
    BY <1>2, <1>11 DEF A!HostSendData
  <2> QED BY <1>1, <1>11, <2>4, <2>5 DEF Queues
<1> QED BY <1>3, <1>4, <1>5, <1>6, <1>7, <1>8, <1>9, <1>10, <1>11

\* What B's station does on its own; h says what its host queues.
LEMMA OwnB ==
    ASSUME Shape(sideB), sc' = sc, gotB' = gotB \o rxB'
    PROVE  /\ sentB' = sentB =>
                  /\ B!TxDone => Finishes(sideB, sideB')
                  /\ B!Repeat => Resends(sideB, sideB')
                  /\ B!RepeatGivesUp \/ B!PendingTimeout \/ B!StallTimeout
                         => Leaves(sideB, sideB')
                  /\ B!FinalId => Identifies(sideB, sideB')
                  /\ B!HostConnect => Calls(sideB, sideB')
                  /\ B!HostDisconnect => HangsUpNow(sideB, sideB')
                  /\ B!HostBreak => Ignores(sideB, sideB')
                  /\ rxB' = <<>> /\ UNCHANGED <<lkB, airB, toldB>>
                         => Ignores(sideB, sideB')
           /\ sentB' = sentB + 1 /\ sentB < MaxData
                  /\ B!HostSendData(<<sentB + 1>>)
                  => Queues(sideB, sideB')
<1>1. /\ DOMAIN lkB = Fields /\ lkB.mode = "ARQ"
      /\ lkB.mode_ptr \in 0..(Modes - 1)
      /\ lkB.disc_repeat_count \in Nat
      /\ lkB.tx \in Seq(Int) /\ Len(lkB.tx) <= sentB /\ sentB \in Nat
      /\ gotB \in Seq(Int)
  BY DEF Shape, Suffix, sideB, Side
<1>2. rxB' = <<>> => gotB' = gotB
  BY <1>1
<1> USE DEF B!Send, B!Keep, B!Quiet, B!Notify, B!send_control,
            B!arm_repeat, B!arm_idle, B!reset_to_disc, B!Frame, B!NoType,
            B!Disconnecting, sideB, Side, Fields
<1>3. ASSUME sentB' = sentB, B!TxDone
      PROVE  Finishes(sideB, sideB')
  BY <1>1, <1>2, <1>3 DEF B!TxDone, Finishes, B!Silence
<1>4. ASSUME sentB' = sentB, B!Repeat
      PROVE  Resends(sideB, sideB')
  <2> DEFINE n == lkB.disc_repeat_count
             m == IF B!Disconnecting(lkB) THEN n + 1 ELSE n
  <2>1. m \in Nat /\ (m > 0 <=> n > 0)
    BY <1>1
  <2>2. lkB' = [lkB EXCEPT !.disc_repeat_count = m]
    BY <1>1, <1>4 DEF B!Repeat
  <2> HIDE DEF m
  <2>3. /\ lkB.repeat /\ toldB' = toldB /\ gotB' = gotB
        /\ airB' = lkB.out \/ airB' = Frame("JUNK")
    BY <1>2, <1>4 DEF B!Repeat, B!Resent
  <2> QED BY <1>1, <1>4, <2>1, <2>2, <2>3 DEF Resends
<1>5. ASSUME sentB' = sentB,
             B!RepeatGivesUp \/ B!PendingTimeout \/ B!StallTimeout
      PROVE  Leaves(sideB, sideB')
  <2>1. CASE B!RepeatGivesUp
    BY <1>1, <1>2, <1>5, <2>1 DEF B!RepeatGivesUp, Leaves
  <2>2. CASE B!PendingTimeout
    BY <1>1, <1>2, <1>5, <2>2 DEF B!PendingTimeout, Leaves
  <2>3. CASE B!StallTimeout
    BY <1>1, <1>2, <1>5, <2>3 DEF B!StallTimeout, Leaves
  <2> QED BY <1>5, <2>1, <2>2, <2>3
<1>6. ASSUME sentB' = sentB, B!FinalId
      PROVE  Identifies(sideB, sideB')
  BY <1>1, <1>2, <1>6 DEF B!FinalId, Identifies
<1>7. ASSUME sentB' = sentB, B!HostConnect
      PROVE  Calls(sideB, sideB')
  BY <1>1, <1>2, <1>7 DEF B!HostConnect, Calls
<1>8. ASSUME sentB' = sentB, B!HostDisconnect
      PROVE  HangsUpNow(sideB, sideB')
  BY <1>1, <1>2, <1>8 DEF B!HostDisconnect, B!step_host_disconnect, HangsUpNow
<1>9. ASSUME sentB' = sentB, B!HostBreak
      PROVE  Ignores(sideB, sideB')
  BY <1>1, <1>2, <1>9 DEF B!HostBreak
<1>10. ASSUME sentB' = sentB, rxB' = <<>>, UNCHANGED <<lkB, airB, toldB>>
       PROVE  Ignores(sideB, sideB')
  BY <1>1, <1>2, <1>10
<1>11. ASSUME sentB' = sentB + 1, sentB < MaxData,
              B!HostSendData(<<sentB + 1>>)
       PROVE  Queues(sideB, sideB')
  <2>1. /\ Len(lkB.tx) \in Nat /\ MaxData \in Nat
        /\ Len(lkB.tx \o <<sentB + 1>>) = Len(lkB.tx) + 1
    BY <1>1, PairAssumption
  <2>2. /\ Len(lkB.tx) < MaxData
        /\ ~(MaxData < Len(lkB.tx \o <<sentB + 1>>))
    BY <1>1, <1>11, <2>1
  <2>3. B!FirstUnits(lkB.tx \o <<sentB + 1>>, MaxData)
            = lkB.tx \o <<sentB + 1>>
    BY <2>2 DEF B!FirstUnits
  <2>4. lkB' = B!arm_idle([lkB EXCEPT !.tx = lkB.tx \o <<sentB + 1>>])
    BY <1>1, <1>11, <2>2, <2>3 DEF B!HostSendData
  <2>5. airB' = airB /\ toldB' = toldB /\ gotB' = gotB
    BY <1>2, <1>11 DEF B!HostSendData
  <2> QED BY <1>1, <1>11, <2>4, <2>5 DEF Queues
<1> QED BY <1>3, <1>4, <1>5, <1>6, <1>7, <1>8, <1>9, <1>10, <1>11

-----------------------------------------------------------------------------
(* A step of the two sides is a step of the stream from x to y's host, or   *)
(* none                                                                     *)

SameCounts(x, u) == u.sent = x.sent /\ Confirmed(u) = Confirmed(x)

Extends(g, h) ==
    Len(g) \in Nat /\ Len(h) \in Nat /\ Len(g) <= Len(h)
    /\ SubSeq(h, 1, Len(g)) = g

Rests(x, y, u, z) ==
    SameCounts(x, u) /\ z.got = y.got /\ (HungUp(z) <=> HungUp(y))

Queued(x, y, u, z) ==
    /\ u.sent = x.sent + 1 /\ Confirmed(u) = Confirmed(x)
    /\ z.got = y.got /\ (HungUp(z) <=> HungUp(y))

Delivered(x, y, u, z) ==
    /\ ~HungUp(y) /\ ~HungUp(z) /\ SameCounts(x, u)
    /\ Counted(z.got) /\ Len(z.got) \in (Len(y.got) + 1)..x.sent

Acknowledged(x, y, u, z) ==
    /\ ~HungUp(y) /\ ~HungUp(z) /\ u.sent = x.sent /\ z.got = y.got
    /\ Confirmed(u) \in (Confirmed(x) + 1)..Len(y.got)

HungUpOn(x, y, u, z) ==
    ~HungUp(y) /\ HungUp(z) /\ SameCounts(x, u) /\ z.got = y.got

CalledAgain(x, y, u, z) ==
    /\ HungUp(y) /\ ~HungUp(z) /\ SameCounts(x, u)
    /\ Confirmed(x) = 0 /\ y.got = <<>> /\ z.got = <<>>

Trailed(x, y, u, z) ==
    /\ HungUp(y) /\ HungUp(z) /\ u.sent = x.sent
    /\ Confirmed(u) \in Confirmed(x)..x.sent
    /\ Extends(y.got, z.got)

Carries(x, y, u, z) ==
    \/ Rests(x, y, u, z) \/ Queued(x, y, u, z) \/ Delivered(x, y, u, z)
    \/ Acknowledged(x, y, u, z) \/ HungUpOn(x, y, u, z)
    \/ CalledAgain(x, y, u, z) \/ Trailed(x, y, u, z)

\* A queue that is a suffix of what was sent leaves a number of units out.
LEMMA ConfirmedNat ==
    ASSUME NEW x, Shape(x)
    PROVE  Confirmed(x) \in Nat /\ Confirmed(x) <= x.sent
BY DEF Shape, Suffix, Confirmed

\* y hears x: what y's host is handed.
LEMMA HearDelivers ==
    ASSUME NEW x, NEW y, NEW u, NEW z, Pair(x, y), Pair(u, z),
           Heard(x, y, u, z),
           HearMove(y, z, x.air) \/ (x.damage /\ DamageMove(y, z, x.air)),
           Early(x, y, 1) \/ Early(y, x, 1) => Untouched(x) /\ Untouched(y)
    PROVE  Carries(x, y, u, z)
<1>1. /\ SameCounts(x, u) /\ Flow(x, y) /\ Flow(u, z)
      /\ Shape(x) /\ Shape(y) /\ Shape(z)
  BY HeardFacts DEF SameCounts, Confirmed, Pair, Local
<1>2. CASE \/ Ignores(y, z) \/ EndsAgain(y, z, x.air)
           \/ Accepts(y, z, x.air) \/ Confirms(y, z, x.air)
           \/ Yields(y, z, x.air) \/ Advances(y, z, x.air)
           \/ SendsMore(y, z, x.air) \/ TakesOver(y, z, x.air)
           \/ Breaks(y, z, x.air) \/ AcksIdle(y, z, x.air)
           \/ DamageMove(y, z, x.air)
  <2>1. z.got = y.got /\ (HungUp(z) <=> HungUp(y))
    BY <1>2 DEF HungUp, EndsAgain, Accepts, Confirms, Yields, Advances,
                SendsMore, TakesOver, Breaks, AcksIdle, DamageMove,
                AcksDamaged, NaksDamaged
  <2> QED BY <1>1, <2>1 DEF Carries, Rests
<1>3. CASE Leaves(y, z)
  <2>1. z.got = y.got /\ HungUp(z)
    BY <1>3 DEF Leaves, HungUp
  <2> QED BY <1>1, <2>1 DEF Carries, Rests, HungUpOn
<1>4. CASE Joins(y, z, x.air) \/ Opens(y, z, x.air)
  <2>1. z.got = y.got /\ Untouched(x) /\ Untouched(y)
    BY <1>4 DEF Joins, Opens, Early
  <2>2. Confirmed(x) = 0 /\ y.got = <<>> /\ z.got = <<>>
    BY <1>1, <2>1, UntouchedFlow DEF Untouched
  <2>3. HungUp(z) => HungUp(y)
    BY <1>4 DEF Joins, Opens, HungUp
  <2> QED BY <1>1, <2>2, <2>3 DEF Carries, Rests, CalledAgain
<1>5. CASE Receives(y, z, x.air)
  <2>1. HungUp(z) <=> HungUp(y)
    BY <1>5 DEF Receives, HungUp
  <2>2. CASE z.got = y.got
    BY <1>1, <2>1, <2>2 DEF Carries, Rests
  <2>3. CASE z.got # y.got
    <3>1. z.got = y.got \o x.air.d /\ x.air.k = "DATA"
          /\ x.air.ft # y.lk.last_data_to_host
      BY <1>5, <2>3 DEF Receives
    <3>2. /\ x.lk.outstanding \in 1..Len(x.lk.tx)
          /\ x.air.d = SubSeq(x.lk.tx, 1, x.lk.outstanding)
      BY <3>1 DEF Pair, Local, Outstanding, InFlight
    <3>3. Suffix(x.lk.tx, x.sent) /\ y.got \in Seq(Int)
      BY <1>1 DEF Shape
    <3>4. CASE HungUp(y)
      <4>1. x.air.d \in Seq(Int)
        BY <3>2, <3>3 DEF Suffix
      <4> DEFINE g == y.got
                 d == x.air.d
      <4>2. Extends(g, g \o d)
        <5>1. g \in Seq(Int) /\ d \in Seq(Int)
          BY <3>3, <4>1
        <5> HIDE DEF g, d
        <5>2. /\ Len(g) \in Nat /\ Len(g \o d) \in Nat
              /\ Len(g) <= Len(g \o d) /\ SubSeq(g \o d, 1, Len(g)) = g
          BY <5>1
        <5> QED BY <5>2 DEF Extends
      <4>3. Confirmed(u) \in Confirmed(x)..x.sent
        BY <1>1, ConfirmedNat, <3>3 DEF SameCounts, Suffix
      <4> QED BY <1>1, <2>1, <3>1, <3>4, <4>2, <4>3
              DEF Carries, Trailed, SameCounts
    <3>5. CASE ~HungUp(y)
      <4>1. Stream(x, y) /\ Counted(y.got)
        BY <1>1, <3>5 DEF Flow, Stream
      <4>2. Synced(x, y)
        BY <3>1, <4>1, HeardData
      <4>3. Len(y.got) = x.sent - Len(x.lk.tx)
        BY <4>2 DEF Synced, Confirmed
      <4>4. /\ Counted(z.got)
            /\ Len(z.got) = Len(y.got) + x.lk.outstanding
        BY <3>1, <3>2, <3>3, <4>1, <4>3, OutstandingAppend
      <4>5. Len(x.lk.tx) \in Nat /\ x.sent \in Nat /\ Len(x.lk.tx) <= x.sent
        BY <3>3 DEF Suffix
      <4>6. Len(z.got) \in (Len(y.got) + 1)..x.sent
        BY <3>2, <4>3, <4>4, <4>5
      <4> QED BY <1>1, <2>1, <3>5, <4>4, <4>6 DEF Carries, Delivered
    <3> QED BY <3>4, <3>5
  <2> QED BY <2>2, <2>3
<1> QED BY <1>2, <1>3, <1>4, <1>5 DEF HearMove

\* y hears x: what y takes for confirmed.
LEMMA HearConfirms ==
    ASSUME NEW x, NEW y, NEW u, NEW z, Pair(x, y), Pair(u, z),
           Heard(x, y, u, z),
           HearMove(y, z, x.air) \/ (x.damage /\ DamageMove(y, z, x.air))
    PROVE  Carries(y, x, z, u)
<1>1. /\ u.got = x.got /\ (HungUp(u) <=> HungUp(x))
      /\ Shape(y) /\ Shape(z) /\ Flow(z, u) /\ Outstanding(y)
  BY HeardFacts DEF HungUp, Pair, Local
<1>2. CASE Advances(y, z, x.air)
  <2>1. /\ y.lk.outstanding \in 1..Len(y.lk.tx) /\ Suffix(y.lk.tx, y.sent)
        /\ z.sent = y.sent
    BY <1>1, <1>2 DEF Advances, Outstanding, Shape
  <2>2. Len(z.lk.tx) = Len(y.lk.tx) - y.lk.outstanding
    BY <1>2, <2>1, SuffixDrop DEF Advances
  <2>3. /\ Confirmed(z) = Confirmed(y) + y.lk.outstanding
        /\ y.lk.outstanding \in Nat /\ y.lk.outstanding > 0
    BY <2>1, <2>2 DEF Confirmed, Suffix
  <2>4. /\ Confirmed(y) \in Nat /\ Confirmed(z) \in Nat
        /\ Confirmed(z) <= z.sent /\ y.sent \in Nat
    BY <1>1, <2>1, ConfirmedNat DEF Suffix
  <2>5. CASE HungUp(x)
    <3>1. Extends(x.got, u.got)
      <4>1. x.got \in Seq(Int)
        BY DEF Pair, Local, Shape
      <4>2. Len(x.got) \in Nat /\ SubSeq(x.got, 1, Len(x.got)) = x.got
        BY <4>1
      <4> QED BY <1>1, <4>2 DEF Extends
    <3>2. Confirmed(z) \in Confirmed(y)..y.sent
      BY <2>1, <2>3, <2>4
    <3> QED BY <1>1, <2>1, <2>5, <3>1, <3>2 DEF Carries, Trailed
  <2>6. CASE ~HungUp(x)
    <3>1. Confirmed(z) <= Len(x.got) /\ Len(x.got) \in Int
      BY <1>1, <2>6 DEF Flow, Stream, Counted
    <3>2. Confirmed(z) \in (Confirmed(y) + 1)..Len(x.got)
      BY <2>3, <2>4, <3>1
    <3> QED BY <1>1, <2>1, <2>6, <3>2 DEF Carries, Acknowledged
  <2> QED BY <2>5, <2>6
<1>3. CASE ~Advances(y, z, x.air)
  <2>1. z.lk.tx = y.lk.tx /\ z.sent = y.sent
    BY <1>3 DEF HearMove, Leaves, EndsAgain, Accepts, Confirms, Joins, Opens,
                Yields, SendsMore, TakesOver, Breaks, AcksIdle, Receives,
                DamageMove, AcksDamaged, NaksDamaged
  <2> QED BY <1>1, <2>1 DEF Carries, Rests, SameCounts, Confirmed
<1> QED BY <1>2, <1>3

\* y acts on its own.
LEMMA OwnCarries ==
    ASSUME NEW x, NEW y, NEW u, NEW z, Pair(x, y), Stays(x, u),
           OwnMove(y, z) \/ Calls(y, z)
    PROVE  Carries(x, y, u, z) /\ Carries(y, x, z, u)
<1>1. /\ SameCounts(x, u) /\ u.got = x.got /\ (HungUp(u) <=> HungUp(x))
      /\ z.got = y.got /\ Shape(y)
  BY StaysFacts DEF SameCounts, Confirmed, Pair, Local, OwnMove, Leaves,
                    Identifies, Resends, Queues, HangsUpNow, Calls
<1>2. CASE Queues(y, z)
  <2>1. Len(z.lk.tx) = Len(y.lk.tx) + 1 /\ z.sent = y.sent + 1
    BY <1>1, <1>2, SuffixAppend DEF Queues, Shape
  <2>2. Len(y.lk.tx) \in Nat /\ y.sent \in Nat
    BY <1>1 DEF Shape, Suffix
  <2>3. Confirmed(z) = Confirmed(y)
    BY <2>1, <2>2 DEF Confirmed
  <2>4. HungUp(z) <=> HungUp(y)
    BY <1>2 DEF Queues, HungUp
  <2> QED BY <1>1, <2>1, <2>3, <2>4 DEF Carries, Rests, Queued
<1>3. CASE ~Queues(y, z)
  <2>1. SameCounts(y, z)
    BY <1>3 DEF SameCounts, Confirmed, OwnMove, Leaves, Identifies, Resends,
                HangsUpNow, Calls
  <2>2. HungUp(y) => HungUp(z)
    BY <1>1, <1>3 DEF HungUp, OwnMove, Leaves, Identifies, Resends,
                      HangsUpNow, Calls, Shape
  <2> QED BY <1>1, <2>1, <2>2 DEF Carries, Rests, HungUpOn
<1> QED BY <1>2, <1>3

-----------------------------------------------------------------------------
(* The invariant of the two stations *)

\* A step of the stations is a step of either stream, or none.
StreamsStep ==
    /\ Carries(sideA, sideB, sideA', sideB')
    /\ Carries(sideB, sideA, sideB', sideA')

LEMMA CollideMeets ==
    ASSUME Collide
    PROVE  /\ Meet(sideA, sideB, sideA', sideB')
           /\ Meet(sideB, sideA, sideB', sideA')
BY DEF Collide, Meet, sideA, sideB, Side

\* Before the first data frame nothing was sent, whichever way one looks.
LEMMA OpeningEarly ==
    ASSUME NEW a, NEW b, NEW c, Opening(a, b, c)
    PROVE  Early(a, b, 1) \/ Early(b, a, 1) => Untouched(a) /\ Untouched(b)
BY DEF Opening, Early

\* B hears A.
LEMMA HeardByB ==
    ASSUME PairInv, Heard(sideA, sideB, sideA', sideB'),
           \/ HearMove(sideB, sideB', airA)
           \/ sc.bad > 0 /\ DamageMove(sideB, sideB', airA),
           UNCHANGED <<sc, calls, sentA, sentB>>, bad' \in Nat
    PROVE  PairInv' /\ StreamsStep
<1>1. /\ Pair(sideA, sideB) /\ Opening(sideA, sideB, calls)
      /\ OneWay(sideA, sideB)
  BY DEF PairInv
<1>2. /\ sideA.air = airA /\ (sideA.damage <=> sc.bad > 0)
      /\ sideB.damage => sideA.lk.last_acked_type = NoType
  BY <1>1 DEF OneWay, sideA, sideB, Side
<1>3. Pair(sideA', sideB')
  BY <1>1, <1>2, OpeningEarly, HearPair
<1>4. Opening(sideA', sideB', calls)
  BY <1>1, <1>2, CalledHears
<1>5. OneWay(sideA', sideB')
  BY <1>1, <1>2, OneWayCalledHears
<1>6. StreamsStep
  BY <1>1, <1>2, <1>3, OpeningEarly, HearDelivers, HearConfirms DEF StreamsStep
<1> QED BY <1>3, <1>4, <1>5, <1>6 DEF PairInv

\* A hears B.
LEMMA HeardByA ==
    ASSUME PairInv, Heard(sideB, sideA, sideB', sideA'),
           \/ HearMove(sideA, sideA', airB)
           \/ sc.bad > 0 /\ DamageMove(sideA, sideA', airB),
           UNCHANGED <<sc, calls, sentA, sentB>>, bad' \in Nat
    PROVE  PairInv' /\ StreamsStep
<1>1. /\ Pair(sideB, sideA) /\ Opening(sideA, sideB, calls)
      /\ OneWay(sideA, sideB)
  BY DEF PairInv, Pair
<1>2. /\ sideB.air = airB /\ (sideB.damage <=> sc.bad > 0)
      /\ ~(sideA.damage /\ sideA.lk.state = "IRS_TO_ISS")
  BY <1>1 DEF OneWay, sideA, sideB, Side
<1>3. Pair(sideB', sideA')
  BY <1>1, <1>2, OpeningEarly, HearPair
<1>4. Opening(sideA', sideB', calls)
  BY <1>1, <1>2, CallerHears
<1>5. OneWay(sideA', sideB')
  BY <1>1, <1>2, OneWayCallerHears
<1>6. Pair(sideA', sideB')
  BY <1>3 DEF Pair
<1>7. StreamsStep
  BY <1>1, <1>2, <1>3, OpeningEarly, HearDelivers, HearConfirms DEF StreamsStep
<1> QED BY <1>4, <1>5, <1>6, <1>7 DEF PairInv

\* B acts on its own, or A's transmission ends and is not heard.
LEMMA MovesOfB ==
    ASSUME PairInv, Stays(sideA, sideA'), OwnMove(sideB, sideB'),
           Meet(sideA, sideB, sideA', sideB'),
           UNCHANGED <<sc, calls, sentA>>, bad' \in Nat,
           sentB' <= sc.dataB, sc.bad > 0 => sentB' = sentB
    PROVE  PairInv' /\ StreamsStep
<1>1. /\ Pair(sideA, sideB) /\ Opening(sideA, sideB, calls)
      /\ OneWay(sideA, sideB)
  BY DEF PairInv
<1>2. sideA.damage => sideB'.sent = sideB.sent
  BY DEF sideA, sideB, Side
<1>3. Pair(sideA', sideB')
  BY <1>1, OwnPair
<1>4. Opening(sideA', sideB', calls)
  BY <1>1, CalledMoves
<1>5. OneWay(sideA', sideB')
  BY <1>1, <1>2, OneWayMoves
<1>6. StreamsStep
  BY <1>1, OwnCarries DEF StreamsStep
<1> QED BY <1>3, <1>4, <1>5, <1>6 DEF PairInv

\* A acts on its own, or B's transmission ends and is not heard.
LEMMA MovesOfA ==
    ASSUME PairInv, Stays(sideB, sideB'), OwnMove(sideA, sideA'),
           Meet(sideB, sideA, sideB', sideA'),
           UNCHANGED <<sc, calls, sentB>>, bad' \in Nat, sentA' <= sc.dataA
    PROVE  PairInv' /\ StreamsStep
<1>1. /\ Pair(sideB, sideA) /\ Opening(sideA, sideB, calls)
      /\ OneWay(sideA, sideB)
  BY DEF PairInv, Pair
<1>2. Pair(sideB', sideA')
  BY <1>1, OwnPair
<1>3. Opening(sideA', sideB', calls)
  BY <1>1, CallerMoves
<1>4. OneWay(sideA', sideB')
  BY <1>1, OneWayMoves
<1>5. Pair(sideA', sideB')
  BY <1>2 DEF Pair
<1>6. StreamsStep
  BY <1>1, OwnCarries DEF StreamsStep
<1> QED BY <1>3, <1>4, <1>5, <1>6 DEF PairInv

\* A calls, the first and only time.
LEMMA CallOfA ==
    ASSUME PairInv, OneSession, Ignores(sideB, sideB'), Calls(sideA, sideA'),
           Meet(sideB, sideA, sideB', sideA'),
           calls < sc.calls, calls' = calls + 1,
           UNCHANGED <<sc, sentA, sentB, bad>>
    PROVE  PairInv' /\ StreamsStep
<1>1. /\ Pair(sideB, sideA) /\ Opening(sideA, sideB, calls)
      /\ OneWay(sideA, sideB)
  BY DEF PairInv, Pair
<1>2. calls = 0 /\ calls' = 1
  BY <1>1, PairAssumption DEF OneSession, PairInv, Opening
<1>3. /\ sideB.lk.state = "DISC" /\ sideB.air.k # "DATA"
      /\ Untouched(sideA) /\ Untouched(sideB)
  BY <1>1, <1>2 DEF Opening, Early
<1>4. Pair(sideB', sideA')
  BY <1>1, <1>3, CallPair
<1>5. Opening(sideA', sideB', 1)
  BY <1>1, <1>2, CallerCalls
<1>6. OneWay(sideA', sideB')
  BY <1>1, OneWayMoves DEF Stays
<1>7. Pair(sideA', sideB')
  BY <1>4 DEF Pair
<1>8. StreamsStep
  BY <1>1, OwnCarries DEF StreamsStep, Stays
<1> QED BY <1>2, <1>5, <1>6, <1>7, <1>8 DEF PairInv

LEMMA PairInit == Init => PairInv
<1> SUFFICES ASSUME Init PROVE PairInv
  OBVIOUS
<1>1. /\ lkA = A!ardop_link_init /\ lkB = B!ardop_link_init
      /\ airA = Silence /\ airB = Silence
      /\ toldA = "NONE" /\ toldB = "NONE" /\ ~hitA /\ ~hitB
      /\ sentA = 0 /\ sentB = 0 /\ gotA = <<>> /\ gotB = <<>>
      /\ sc \in Scenarios /\ calls = 0 /\ bad = 0
  BY DEF Init, A!Init, B!Init, B!Silence, B!Frame, B!NoType
<1>2. A!ardop_link_init = B!ardop_link_init
  BY DEF A!ardop_link_init, B!ardop_link_init, B!Silence, B!Frame, B!NoType
<1> DEFINE Fresh(x) ==
        /\ DOMAIN x.lk = Fields /\ x.lk.mode = "ARQ" /\ x.lk.state = "DISC"
        /\ x.lk.mode_ptr = 0 /\ x.lk.tx = <<>> /\ ~x.lk.repeat
        /\ x.lk.last_data_sent = 0 /\ x.lk.last_data_acked = 0
        /\ x.lk.last_data_to_host = NoType /\ x.lk.last_acked_type = NoType
        /\ x.lk.disc_repeat_count = 0 /\ x.lk.out = Silence
        /\ x.air = Silence /\ x.told = "NONE" /\ x.sent = 0 /\ x.got = <<>>
<1>3. Fresh(sideA) /\ Fresh(sideB)
  BY <1>1, <1>2 DEF sideA, sideB, Side, A!ardop_link_init, Fields
<1> HIDE DEF Fresh
<1>4. ASSUME NEW x, Fresh(x)
      PROVE  Local(x) /\ Untouched(x)
  <2>1. Shape(x)
    BY <1>4, PairAssumption DEF Fresh, Shape, Suffix, A!States
  <2>2. Outstanding(x) /\ Fits(x) /\ Untouched(x)
    BY <1>4 DEF Fresh, Outstanding, Fits, FrameFits, Untouched
  <2> QED BY <2>1, <2>2 DEF Local
<1>5. ASSUME NEW x, NEW y, Fresh(x), Fresh(y)
      PROVE  RolesOf(x, y) /\ Flow(x, y)
  <2>1. Stream(x, y)
    BY <1>4, <1>5, UntouchedFlow DEF Fresh, Local
  <2> QED BY <1>5, <2>1 DEF Fresh, RolesOf, Flow
<1>6. Pair(sideA, sideB)
  BY <1>3, <1>4, <1>5 DEF Pair, Fresh
<1>7. Opening(sideA, sideB, calls)
  BY <1>1, <1>3, <1>4 DEF Opening, Fresh
<1>8. OneWay(sideA, sideB)
  BY <1>3 DEF OneWay, Fresh
<1> QED BY <1>1, <1>6, <1>7, <1>8, PairAssumption DEF PairInv

LEMMA PairUnchanged == PairInv /\ UNCHANGED vars => PairInv'
BY DEF PairInv, vars, stationA, stationB, sideA, sideB, Side

\* A frame ends and the channel brings it to the other station, or not.
LEMMA ChannelStep ==
    ASSUME PairInv, Happens(Channel)
    PROVE  PairInv' /\ StreamsStep
<1>1. /\ Pair(sideA, sideB) /\ Local(sideA) /\ Local(sideB)
      /\ Shape(sideA) /\ Shape(sideB)
      /\ Outstanding(sideA) /\ Outstanding(sideB)
  BY DEF PairInv, Pair, Local
<1>2. /\ UNCHANGED <<sc, calls, sentA, sentB>>
      /\ gotA' = gotA \o rxA' /\ gotB' = gotB \o rxB'
      /\ Meet(sideA, sideB, sideA', sideB')
      /\ Meet(sideB, sideA, sideB', sideA')
  BY CollideMeets DEF Happens, Channel, Delivers
<1>3. /\ airA.k \notin {"CONREJ", "PING"} /\ airB.k \notin {"CONREJ", "PING"}
      /\ bad \in Nat /\ sc.bad \in Nat /\ bad + 1 \in Nat
      /\ sentA <= sc.dataA /\ sentB <= sc.dataB
  BY <1>1, PairAssumption DEF PairInv, Fits, FrameFits, Local, sideA, sideB, Side
<1>4. CASE AtoB
  <2>1. Heard(sideA, sideB, sideA', sideB')
    BY <1>1, <1>2, <1>4, OwnA DEF AtoB, Heard, sideA, Side
  <2>2. HearMove(sideB, sideB', airA) /\ bad' = bad
    BY <1>1, <1>2, <1>3, <1>4, RxB DEF AtoB, Clean
  <2> QED BY <1>2, <1>3, <2>1, <2>2, HeardByB
<1>5. CASE BtoA
  <2>1. Heard(sideB, sideA, sideB', sideA')
    BY <1>1, <1>2, <1>5, OwnB DEF BtoA, Heard, sideB, Side
  <2>2. HearMove(sideA, sideA', airB) /\ bad' = bad
    BY <1>1, <1>2, <1>3, <1>5, RxA DEF BtoA, Clean
  <2> QED BY <1>2, <1>3, <2>1, <2>2, HeardByA
<1>6. CASE AtoNobody
  <2>1. Stays(sideA, sideA')
    BY <1>1, <1>2, <1>6, OwnA DEF AtoNobody, Stays
  <2>2. OwnMove(sideB, sideB')
    BY <1>1, <1>2, <1>6, OwnB DEF AtoNobody, OwnMove
  <2>3. bad' \in Nat
    BY <1>3, <1>6 DEF AtoNobody, Unheard, Clean
  <2> QED BY <1>2, <1>3, <2>1, <2>2, <2>3, MovesOfB
<1>7. CASE BtoNobody
  <2>1. Stays(sideB, sideB')
    BY <1>1, <1>2, <1>7, OwnB DEF BtoNobody, Stays
  <2>2. OwnMove(sideA, sideA')
    BY <1>1, <1>2, <1>7, OwnA DEF BtoNobody, OwnMove
  <2>3. bad' \in Nat
    BY <1>3, <1>7 DEF BtoNobody, Unheard, Clean
  <2> QED BY <1>2, <1>3, <2>1, <2>2, <2>3, MovesOfA
<1>8. CASE AtoBdamaged
  <2>1. Heard(sideA, sideB, sideA', sideB')
    BY <1>1, <1>2, <1>8, OwnA DEF AtoBdamaged, A!TxDone, Heard, sideA, Side
  <2>2. DamageMove(sideB, sideB', airA)
    BY <1>1, <1>2, <1>8, RxBadB DEF AtoBdamaged
  <2>3. sc.bad > 0 /\ bad' \in Nat
    BY <1>3, <1>8 DEF AtoBdamaged
  <2> QED BY <1>2, <2>1, <2>2, <2>3, HeardByB
<1>9. CASE BtoAdamaged
  <2>1. Heard(sideB, sideA, sideB', sideA')
    BY <1>1, <1>2, <1>9, OwnB
       DEF BtoAdamaged, B!TxDone, B!Silence, B!Frame, B!NoType, Heard, sideB, Side
  <2>2. DamageMove(sideA, sideA', airB)
    BY <1>1, <1>2, <1>9, RxBadA DEF BtoAdamaged
  <2>3. sc.bad > 0 /\ bad' \in Nat
    BY <1>3, <1>9 DEF BtoAdamaged
  <2> QED BY <1>2, <2>1, <2>2, <2>3, HeardByA
<1> QED BY <1>4, <1>5, <1>6, <1>7, <1>8, <1>9 DEF Happens, Channel

\* A step of station A on its own.
LEMMA StepOfA ==
    ASSUME PairInv, OneSession,
           Happens(RepeatA \/ TimerA \/ SilenceA \/ CallA \/ SendA \/ BreakA
                   \/ HangUpA)
    PROVE  PairInv' /\ StreamsStep
<1>1. Shape(sideA) /\ Shape(sideB)
  BY DEF PairInv, Pair, Local
<1>2. /\ UNCHANGED <<sc, bad, sentB>> /\ bad' \in Nat
      /\ rxB' = <<>> /\ UNCHANGED <<lkB, airB, toldB>>
      /\ gotA' = gotA \o rxA' /\ gotB' = gotB \o rxB'
      /\ Meet(sideB, sideA, sideB', sideA')
      /\ sentA <= sc.dataA /\ sc.dataA \in 0..MaxData /\ MaxData \in Nat
  BY CollideMeets, PairAssumption
     DEF Happens, Delivers, OnlyA, RepeatA, TimerA, SilenceA, CallA, SendA,
         BreakA, HangUpA, PairInv
<1>3. Ignores(sideB, sideB')
  BY <1>1, <1>2, OwnB
<1>4. CASE CallA
  <2>1. Calls(sideA, sideA')
    BY <1>1, <1>2, <1>4, OwnA DEF CallA
  <2> QED BY <1>2, <1>3, <1>4, <2>1, CallOfA DEF CallA
<1>5. CASE SendA
  <2>1. /\ sentA \in Nat /\ sentA < MaxData /\ sentA' = sentA + 1
        /\ sentA' <= sc.dataA
    <3>1. sentA \in Nat
      BY <1>1 DEF Shape, Suffix, sideA, Side
    <3>2. sentA < sc.dataA /\ sentA' = sentA + 1
      BY <1>5 DEF SendA
    <3> QED BY <1>2, <3>1, <3>2
  <2>2. Queues(sideA, sideA')
    BY <1>1, <1>2, <1>5, <2>1, OwnA DEF SendA
  <2> QED BY <1>2, <1>3, <1>5, <2>1, <2>2, MovesOfA DEF SendA, OwnMove, Stays
<1>6. CASE RepeatA \/ TimerA \/ SilenceA \/ BreakA \/ HangUpA
  <2>1. OwnMove(sideA, sideA')
    BY <1>1, <1>2, <1>6, OwnA
       DEF RepeatA, TimerA, SilenceA, BreakA, HangUpA, OwnMove
  <2> QED BY <1>2, <1>3, <1>6, <2>1, MovesOfA
          DEF RepeatA, TimerA, SilenceA, BreakA, HangUpA, Stays
<1> QED BY <1>4, <1>5, <1>6 DEF Happens

\* A step of station B on its own.
LEMMA StepOfB ==
    ASSUME PairInv, OneSession,
           Happens(RepeatB \/ TimerB \/ SilenceB \/ SendB \/ BreakB \/ HangUpB)
    PROVE  PairInv' /\ StreamsStep
<1>1. Shape(sideA) /\ Shape(sideB)
  BY DEF PairInv, Pair, Local
<1>2. /\ UNCHANGED <<sc, bad, calls, sentA>> /\ bad' \in Nat
      /\ rxA' = <<>> /\ UNCHANGED <<lkA, airA, toldA>>
      /\ gotA' = gotA \o rxA' /\ gotB' = gotB \o rxB'
      /\ Meet(sideA, sideB, sideA', sideB')
      /\ sentB <= sc.dataB /\ sc.dataB \in 0..MaxData /\ MaxData \in Nat
      /\ sc.bad \in Nat
  BY CollideMeets, PairAssumption
     DEF Happens, Delivers, OnlyB, RepeatB, TimerB, SilenceB, SendB,
         BreakB, HangUpB, PairInv
<1>3. Ignores(sideA, sideA')
  BY <1>1, <1>2, OwnA
<1>4. CASE SendB
  <2>1. /\ sentB \in Nat /\ sentB < MaxData /\ sentB' = sentB + 1
        /\ sentB' <= sc.dataB
    <3>1. sentB \in Nat
      BY <1>1 DEF Shape, Suffix, sideB, Side
    <3>2. sentB < sc.dataB /\ sentB' = sentB + 1
      BY <1>4 DEF SendB
    <3> QED BY <1>2, <3>1, <3>2
  <2>2. ~(sc.bad > 0)
    BY <1>2, <1>4, <2>1 DEF SendB, OneSession, PairInv
  <2>3. Queues(sideB, sideB')
    BY <1>1, <1>2, <1>4, <2>1, OwnB DEF SendB
  <2> QED BY <1>2, <1>3, <2>1, <2>2, <2>3, MovesOfB DEF OwnMove, Stays
<1>5. CASE RepeatB \/ TimerB \/ SilenceB \/ BreakB \/ HangUpB
  <2>1. OwnMove(sideB, sideB') /\ sentB' = sentB
    BY <1>1, <1>2, <1>5, OwnB
       DEF RepeatB, TimerB, SilenceB, BreakB, HangUpB, OwnMove
  <2> QED BY <1>2, <1>3, <2>1, MovesOfB DEF Stays
<1> QED BY <1>4, <1>5 DEF Happens

LEMMA PairNext ==
    OneSession /\ PairInv /\ [Next]_vars => PairInv' /\ StreamsStep
<1> SUFFICES ASSUME OneSession, PairInv, [Next]_vars
             PROVE  PairInv' /\ StreamsStep
  OBVIOUS
<1>1. CASE UNCHANGED vars
  <2>1. UNCHANGED <<sideA, sideB>>
    BY <1>1 DEF vars, stationA, stationB, sideA, sideB, Side
  <2> QED BY <1>1, <2>1, PairUnchanged
          DEF StreamsStep, Carries, Rests, SameCounts
<1>2. CASE Happens(Channel)
  BY <1>2, ChannelStep
<1>3. CASE Happens(RepeatA \/ TimerA \/ SilenceA \/ CallA \/ SendA \/ BreakA
                   \/ HangUpA)
  BY <1>3, StepOfA
<1>4. CASE Happens(RepeatB \/ TimerB \/ SilenceB \/ SendB \/ BreakB \/ HangUpB)
  BY <1>4, StepOfB
<1> QED BY <1>1, <1>2, <1>3, <1>4 DEF Next, Happens

-----------------------------------------------------------------------------
(* What the invariant says of a session *)

LEMMA PairInvHolds ==
    ASSUME OneSession
    PROVE  Spec => []PairInv
<1>1. PairInv /\ [Next]_vars => PairInv'
  BY PairNext
<1> QED BY <1>1, PairInit, PTL DEF Spec

\* Each host is handed the other's units 1, 2, 3, ... in this order, however
\* frames are lost, hit or damaged, timers fire and the link is turned over
\* (deliver_data, iss_send_next, iss_yield_on_break).
THEOREM PairInOrderOnce ==
    ASSUME OneSession
    PROVE  Spec => []InOrderOnce
<1>1. PairInv => InOrderOnce
  <2> SUFFICES ASSUME PairInv PROVE InOrderOnce
    OBVIOUS
  <2>1. /\ Flow(sideA, sideB) /\ Flow(sideB, sideA)
        /\ gotA \in Seq(Int) /\ gotB \in Seq(Int)
    BY DEF PairInv, Pair, Local, Shape, sideA, sideB, Side
  <2>2. /\ HungUp(sideB) \/ Counted(gotB)
        /\ HungUp(sideA) \/ Counted(gotA)
    BY <2>1 DEF Flow, Stream, sideA, sideB, Side
  <2>3. DOMAIN gotA = 1..Len(gotA) /\ DOMAIN gotB = 1..Len(gotB)
    BY <2>1
  <2>4. (HungUp(sideA) => HangsUp(toldA, lkA))
        /\ (HungUp(sideB) => HangsUp(toldB, lkB))
    BY DEF HungUp, HangsUp, sideA, sideB, Side
  <2> QED BY <2>2, <2>3, <2>4 DEF InOrderOnce, Counted
<1> QED BY <1>1, PairInvHolds, PTL

\* A unit leaves a queue only when the other host has it: a DataACK answers
\* the frame that is outstanding (step_iss_data_rx), and a turnover keeps the
\* queue.
THEOREM PairNoSilentLoss ==
    ASSUME OneSession
    PROVE  Spec => []NoSilentLoss
<1>1. PairInv => NoSilentLoss
  BY DEF PairInv, Pair, Flow, Stream, Confirmed, HungUp, NoSilentLoss, HangsUp,
         sideA, sideB, Side
<1> QED BY <1>1, PairInvHolds, PTL

\* The two stations never both hold the sender's role, and the calling host
\* is told of the session only after the called one.
THEOREM PairRolesFit ==
    ASSUME OneSession
    PROVE  Spec => []RolesFit
<1>1. PairInv => RolesFit
  BY DEF PairInv, Pair, RolesOf, Opening, RolesFit, OneSender,
         CallerConnectsLast, sideA, sideB, Side
<1> QED BY <1>1, PairInvHolds, PTL

\* A counted sequence is the first units.
LEMMA CountedUnits ==
    ASSUME NEW g, Counted(g)
    PROVE  Len(g) \in Nat /\ g = [i \in 1..Len(g) |-> i]
<1>1. g \in Seq(Int) /\ \A i \in 1..Len(g) : g[i] = i
  BY DEF Counted
<1>2. Len(g) \in Nat /\ g = [i \in 1..Len(g) |-> g[i]]
  BY <1>1
<1>3. [i \in 1..Len(g) |-> g[i]] = [i \in 1..Len(g) |-> i]
  BY <1>1
<1> QED BY <1>2, <1>3, Zenon

\* What ToB and ToA call sent, confirmed, got and over, in terms of the sides.
LEMMA StreamViews ==
    /\ sideA.sent = sentA /\ Confirmed(sideA) = sentA - Len(lkA.tx)
    /\ sideB.sent = sentB /\ Confirmed(sideB) = sentB - Len(lkB.tx)
    /\ sideA.got = gotA /\ sideB.got = gotB
    /\ HungUp(sideA) = HangsUp(toldA, lkA) /\ HungUp(sideB) = HangsUp(toldB, lkB)
    /\ sideA'.sent = sentA' /\ Confirmed(sideA') = sentA' - Len(lkA'.tx)
    /\ sideB'.sent = sentB' /\ Confirmed(sideB') = sentB' - Len(lkB'.tx)
    /\ sideA'.got = gotA' /\ sideB'.got = gotB'
    /\ HungUp(sideA') = HangsUp(toldA, lkA)'
    /\ HungUp(sideB') = HangsUp(toldB, lkB)'
BY DEF sideA, sideB, Side, Confirmed, HungUp, HangsUp

LEMMA StreamToB ==
    ASSUME Carries(sideA, sideB, sideA', sideB')
    PROVE  [ToB!Next]_(ToB!stream)
<1> DEFINE c == sentA - Len(lkA.tx)
           o == HangsUp(toldB, lkB)
<1>1. o \in BOOLEAN /\ o' \in BOOLEAN
  BY DEF HangsUp
<1> USE StreamViews DEF SameCounts
<1>2. CASE Rests(sideA, sideB, sideA', sideB')
  <2>1. sentA' = sentA /\ c' = c /\ gotB' = gotB /\ o' = o
    BY <1>1, <1>2 DEF Rests
  <2> QED BY <2>1 DEF ToB!stream
<1>3. CASE Queued(sideA, sideB, sideA', sideB')
  <2>1. sentA' = sentA + 1 /\ c' = c /\ gotB' = gotB /\ o' = o
    BY <1>1, <1>3 DEF Queued
  <2> QED BY <2>1 DEF ToB!Next, ToB!Queue
<1>4. CASE Delivered(sideA, sideB, sideA', sideB')
  <2>1. sentA' = sentA /\ c' = c /\ ~o /\ o' = o
    BY <1>1, <1>4 DEF Delivered
  <2>2. /\ Len(gotB') \in (Len(gotB) + 1)..sentA
        /\ gotB' = ToB!UnitsTo(Len(gotB'))
    <3>1. Counted(gotB') /\ Len(gotB') \in (Len(gotB) + 1)..sentA
      BY <1>4 DEF Delivered
    <3> QED BY <3>1, CountedUnits DEF ToB!UnitsTo
  <2> QED BY <2>1, <2>2 DEF ToB!Next, ToB!Deliver
<1>5. CASE Acknowledged(sideA, sideB, sideA', sideB')
  <2>1. /\ sentA' = sentA /\ gotB' = gotB /\ ~o /\ o' = o
        /\ c' \in (c + 1)..Len(gotB)
    BY <1>1, <1>5 DEF Acknowledged
  <2> QED BY <2>1 DEF ToB!Next, ToB!Confirm
<1>6. CASE HungUpOn(sideA, sideB, sideA', sideB')
  <2>1. sentA' = sentA /\ c' = c /\ gotB' = gotB /\ ~o /\ o' = TRUE
    BY <1>1, <1>6 DEF HungUpOn
  <2> QED BY <2>1 DEF ToB!Next, ToB!HangUp
<1>7. CASE CalledAgain(sideA, sideB, sideA', sideB')
  <2>1. /\ sentA' = sentA /\ c' = c /\ gotB' = gotB /\ o /\ o' = FALSE
        /\ c = 0 /\ gotB = <<>>
    BY <1>1, <1>7 DEF CalledAgain
  <2> QED BY <2>1 DEF ToB!Next, ToB!CallAgain
<1>8. CASE Trailed(sideA, sideB, sideA', sideB')
  <2>1. /\ sentA' = sentA /\ o /\ o' = o /\ c' \in c..sentA
        /\ Len(gotB) <= Len(gotB') /\ SubSeq(gotB', 1, Len(gotB)) = gotB
    BY <1>1, <1>8 DEF Trailed, Extends
  <2> QED BY <2>1 DEF ToB!Next, ToB!Trail
<1> QED BY <1>2, <1>3, <1>4, <1>5, <1>6, <1>7, <1>8 DEF Carries

LEMMA StreamToA ==
    ASSUME Carries(sideB, sideA, sideB', sideA')
    PROVE  [ToA!Next]_(ToA!stream)
<1> DEFINE c == sentB - Len(lkB.tx)
           o == HangsUp(toldA, lkA)
<1>1. o \in BOOLEAN /\ o' \in BOOLEAN
  BY DEF HangsUp
<1> USE StreamViews DEF SameCounts
<1>2. CASE Rests(sideB, sideA, sideB', sideA')
  <2>1. sentB' = sentB /\ c' = c /\ gotA' = gotA /\ o' = o
    BY <1>1, <1>2 DEF Rests
  <2> QED BY <2>1 DEF ToA!stream
<1>3. CASE Queued(sideB, sideA, sideB', sideA')
  <2>1. sentB' = sentB + 1 /\ c' = c /\ gotA' = gotA /\ o' = o
    BY <1>1, <1>3 DEF Queued
  <2> QED BY <2>1 DEF ToA!Next, ToA!Queue
<1>4. CASE Delivered(sideB, sideA, sideB', sideA')
  <2>1. sentB' = sentB /\ c' = c /\ ~o /\ o' = o
    BY <1>1, <1>4 DEF Delivered
  <2>2. /\ Len(gotA') \in (Len(gotA) + 1)..sentB
        /\ gotA' = ToA!UnitsTo(Len(gotA'))
    <3>1. Counted(gotA') /\ Len(gotA') \in (Len(gotA) + 1)..sentB
      BY <1>4 DEF Delivered
    <3> QED BY <3>1, CountedUnits DEF ToA!UnitsTo
  <2> QED BY <2>1, <2>2 DEF ToA!Next, ToA!Deliver
<1>5. CASE Acknowledged(sideB, sideA, sideB', sideA')
  <2>1. /\ sentB' = sentB /\ gotA' = gotA /\ ~o /\ o' = o
        /\ c' \in (c + 1)..Len(gotA)
    BY <1>1, <1>5 DEF Acknowledged
  <2> QED BY <2>1 DEF ToA!Next, ToA!Confirm
<1>6. CASE HungUpOn(sideB, sideA, sideB', sideA')
  <2>1. sentB' = sentB /\ c' = c /\ gotA' = gotA /\ ~o /\ o' = TRUE
    BY <1>1, <1>6 DEF HungUpOn
  <2> QED BY <2>1 DEF ToA!Next, ToA!HangUp
<1>7. CASE CalledAgain(sideB, sideA, sideB', sideA')
  <2>1. /\ sentB' = sentB /\ c' = c /\ gotA' = gotA /\ o /\ o' = FALSE
        /\ c = 0 /\ gotA = <<>>
    BY <1>1, <1>7 DEF CalledAgain
  <2> QED BY <2>1 DEF ToA!Next, ToA!CallAgain
<1>8. CASE Trailed(sideB, sideA, sideB', sideA')
  <2>1. /\ sentB' = sentB /\ o /\ o' = o /\ c' \in c..sentB
        /\ Len(gotA) <= Len(gotA') /\ SubSeq(gotA', 1, Len(gotA)) = gotA
    BY <1>1, <1>8 DEF Trailed, Extends
  <2> QED BY <2>1 DEF ToA!Next, ToA!Trail
<1> QED BY <1>2, <1>3, <1>4, <1>5, <1>6, <1>7, <1>8 DEF Carries

\* Two stations and a channel that loses, damages and collides frames are two
\* streams, as the two hosts see it: what either is handed are the next units
\* of the other, and what leaves a queue has been handed over (deliver_data,
\* step_iss_data_rx, iss_yield_on_break).
THEOREM PairCarriesStreams ==
    ASSUME OneSession
    PROVE  Spec => CarriesStreams
<1>1. Init => ToB!Init /\ ToA!Init
  <2> SUFFICES ASSUME Init PROVE ToB!Init /\ ToA!Init
    OBVIOUS
  <2>1. /\ sentA = 0 /\ sentB = 0 /\ gotA = <<>> /\ gotB = <<>>
        /\ toldA = "NONE" /\ toldB = "NONE"
        /\ lkA.tx = <<>> /\ lkB.tx = <<>>
        /\ lkA.disc_repeat_count = 0 /\ lkB.disc_repeat_count = 0
    BY DEF Init, A!Init, B!Init, A!ardop_link_init, B!ardop_link_init
  <2>2. sentA - Len(lkA.tx) = 0 /\ sentB - Len(lkB.tx) = 0
    <3>1. Len(lkA.tx) = 0 /\ Len(lkB.tx) = 0
      BY <2>1
    <3>2. sentA = 0 /\ sentB = 0 /\ 0 - 0 = 0
      BY <2>1
    <3> QED BY <3>1, <3>2, Zenon
  <2>3. HangsUp(toldA, lkA) = FALSE /\ HangsUp(toldB, lkB) = FALSE
    BY <2>1 DEF HangsUp
  <2>4. ToB!Init
    BY <2>1, <2>2, <2>3 DEF ToB!Init
  <2>5. ToA!Init
    BY <2>1, <2>2, <2>3 DEF ToA!Init
  <2> QED BY <2>4, <2>5
<1>2. PairInv /\ [Next]_vars
          => [ToB!Next]_(ToB!stream) /\ [ToA!Next]_(ToA!stream)
  BY PairNext, StreamToB, StreamToA DEF StreamsStep
<1> QED BY <1>1, <1>2, PairInvHolds, PTL
        DEF Spec, CarriesStreams, ToB!Spec, ToA!Spec

-----------------------------------------------------------------------------
(* Calling: how two stations come to a session, whatever they are called.   *)

CllSpec == CllInit /\ [][CllNext]_cll

\* The record has its fields.
CllShape ==
    cll = [a |-> cll.a, b |-> cll.b, aBw |-> cll.aBw, bBw |-> cll.bBw, aLad |-> cll.aLad,
           names |-> cll.names, target |-> cll.target, aSess |-> cll.aSess,
           bSess |-> cll.bSess, aHz |-> cll.aHz, bHz |-> cll.bHz, asked |-> cll.asked,
           answered |-> cll.answered, air |-> cll.air, said |-> cll.said,
           tries |-> cll.tries]

CllTypes ==
    /\ CllShape
    /\ cll.a \in {"DISC", "ISS_CON_REQ", "ISS_CON_ACK", "CONNECTED"}
    /\ cll.b \in {"DISC", "IRS_CON_ACK", "CONNECTED"}
    /\ cll.bBw \in CllSettings /\ cll.aLad \in CllLadders
    /\ cll.asked \in CllSettings \cup {CllUndefined}
    /\ cll.answered \in CllSettings \cup {CllUndefined}

\* The number of the call at hand, as A computes it from what was typed.
CllNumber == CllSession(CllMe, IdnFromStr(cll.target))
CllWidth == CllNegotiate(cll.answered, cll.asked)

\* A request on the air is that of A's last call, and is not answered yet.
CllAsks ==
    cll.air.kind = "conreq" =>
        /\ cll.a \in {"DISC", "ISS_CON_REQ"}
        /\ cll.air = [kind |-> "conreq", bw |-> cll.asked, caller |-> CllMe.wire,
                      target |-> IdnFromStr(cll.target).wire]
        /\ cll.asked \in CllSettings \ {CllUndefined}

\* A width on the air is the one negotiated of A's last call.
CllAnswers ==
    /\ cll.air.kind = "conack" =>
          /\ cll.said = "TARGET"
          /\ cll.air = [kind |-> "conack", hz |-> CllWidth, sess |-> cll.air.sess,
                        to |-> cll.air.to]
    /\ cll.air.kind \in {"none", "conreq", "conack", "conrej", "dataack"}
    /\ cll.air.kind = "none" => cll.air = CllNoFrame

\* What A and B know of A's last call, whatever became of the one before.
CllKnown ==
    /\ cll.a # "DISC" => cll.aSess = CllNumber /\ cll.asked # CllUndefined
    /\ cll.a \in {"ISS_CON_ACK", "CONNECTED"} => cll.said = "TARGET" /\ cll.aHz = CllWidth
    /\ (cll.b # "DISC" /\ cll.said = "TARGET") => cll.bSess = CllNumber /\ cll.bHz = CllWidth
    /\ cll.said = "TARGET" => CllWidth # 0 /\ cll.asked # CllUndefined
    /\ cll.said = "REJECTEDBW" => CllWidth = 0 /\ cll.asked # CllUndefined

\* What B's host was told of a call is true of the bytes of the names.
CllTaken ==
    \E t \in cll.names : IdnFromStr(t).wire = IdnFromStr(cll.target).wire
CllHeard ==
    /\ cll.names \in CllNames /\ cll.target \in Seq(Nat)
    /\ cll.said # "nothing" =>
          /\ IdnValid(IdnFromStr(cll.target))
          /\ cll.said \in {"TARGET", "REJECTEDBW"} <=> CllTaken

\* The strengthening of CllSetUp, with CllHeard.
CllInv == CllTypes /\ CllAsks /\ CllAnswers /\ CllKnown

(* The negotiation and the ladders. *)

CllReal == [hz : CllHz, forced : BOOLEAN]

LEMMA NegotiatesWidest ==
    ASSUME NEW local \in CllReal \cup {CllUndefined}, NEW req \in CllReal
    PROVE  LET n == CllNegotiate(local, req)
               both == CllWidths(req) \cap CllWidths(local)
           IN  /\ n = 0 => both = {}
               /\ n # 0 => n \in both /\ n \in CllHz /\ \A w \in both : w <= n
  <1>1. req \in [hz : CllHz, forced : BOOLEAN]
    BY DEF CllReal
  <1>2. CASE local = CllUndefined
    BY <1>1, <1>2 DEF CllNegotiate, CllWidths, CllUndefined, CllHz
  <1>3. CASE local \in CllReal /\ local # CllUndefined
    BY <1>1, <1>3 DEF CllNegotiate, CllWidths, CllUndefined, CllHz, CllReal
  <1> QED BY <1>2, <1>3

LEMMA LaddersFit ==
    ASSUME NEW hz \in CllHz, NEW s \in CllLadders
    PROVE  LET modes == CllModes(hz, s)
           IN  /\ modes # <<>>
               /\ \A i \in 1..Len(modes) : CllWidthOf(modes[i]) <= hz
               /\ Len(modes) <= Len(CllThresholds(hz, s))
  <1> USE DEF CllModes, CllThresholds, CllWidthOf
  <1>1. s.fsk \in BOOLEAN /\ s.use600 \in BOOLEAN /\ s.tuning \in Nat
    BY CllAssumption
  <1>2. CASE hz = 200
    BY <1>1, <1>2
  <1>3. CASE hz = 500
    BY <1>1, <1>3
  <1>4. CASE hz = 1000
    BY <1>1, <1>4
  <1>5. CASE hz = 2000
    BY <1>1, <1>5
  <1> QED BY <1>2, <1>3, <1>4, <1>5 DEF CllHz

(* Names: what is read from six bytes has them, or is nobody. *)

LEMMA BytesKept ==
    ASSUME NEW w
    PROVE  IdnFromBytes(w) = IdnNobody \/ IdnFromBytes(w).wire = w
  BY DEF IdnFromBytes

LEMMA NobodyInvalid == ~IdnValid(IdnNobody)
  BY DEF IdnValid, IdnNobody

\* A name that is typed is what its bytes are read as.
LEMMA TypedIsRead ==
    ASSUME NEW t, IdnValid(IdnFromStr(t))
    PROVE  IdnFromStr(t) = IdnFromBytes(IdnFromStr(t).wire)
  <1>1. PICK w : IdnFromStr(t) \in {IdnNobody, IdnFromBytes(w)}
    BY DEF IdnFromStr
  <1>2. IdnFromStr(t) # IdnNobody
    BY NobodyInvalid
  <1> QED BY <1>1, <1>2, BytesKept

\* The number B computes from the two names it reads is A's, whichever of its
\* own names matched and however each was typed.
LEMMA NumbersAgree ==
    ASSUME NEW names, NEW mine, NEW t,
           IdnValid(IdnFromBytes(IdnFromStr(mine).wire)), IdnValid(IdnFromBytes(IdnFromStr(t).wire)),
           NEW n \in CllToMe(IdnFromBytes(IdnFromStr(t).wire), {IdnFromStr(x) : x \in names})
    PROVE  CllSession(IdnFromBytes(IdnFromStr(mine).wire), n)
              = CllSession(IdnFromStr(mine), IdnFromStr(t))
  <1>1. ASSUME NEW x, IdnValid(IdnFromBytes(IdnFromStr(x).wire))
        PROVE  IdnValid(IdnFromStr(x)) /\ IdnFromStr(x) = IdnFromBytes(IdnFromStr(x).wire)
    <2>1. IdnFromBytes(IdnFromStr(x).wire).wire = IdnFromStr(x).wire
      BY <1>1, BytesKept, NobodyInvalid
    <2>2. IdnValid(IdnFromStr(x))
      BY <1>1, <2>1 DEF IdnValid
    <2> QED BY <2>2, TypedIsRead
  <1>2. IdnFromStr(mine) = IdnFromBytes(IdnFromStr(mine).wire)
    BY <1>1
  <1>3. IdnFromStr(t) = IdnFromBytes(IdnFromStr(t).wire) /\ IdnValid(IdnFromStr(t))
    BY <1>1
  <1>4. PICK x \in names : n = IdnFromStr(x)
    BY DEF CllToMe
  <1>5. n.wire = IdnFromStr(t).wire
    BY <1>3 DEF CllToMe, IdnSame
  <1>6. IdnValid(n)
    BY <1>3, <1>5 DEF IdnValid
  <1>7. n = IdnFromStr(t)
    BY <1>3, <1>4, <1>5, <1>6, TypedIsRead
  <1> QED BY <1>2, <1>7

(* Names: two texts have the same bytes exactly if they denote one node. *)

\* What is packed of a valid text: the callsign, and the number of the SSID.
NmCall(t) == IdnParse(t).call
NmNumber(t) == IdnSsid(IdnParse(t).ssid)
NmPlace(c, i) == IF i <= Len(c) THEN c[i] ELSE IdnSpace

LEMMA SixBelow ==
    ASSUME NEW c \in Nat
    PROVE  IdnUpper(c) \in Nat /\ IdnSix(c) \in 0..63
  BY DEF IdnUpper, IdnSix, IdnPackable, IdnLowers

\* Three bytes hold four codes.
LEMMA SplitByte ==
    ASSUME NEW n \in Nat, NEW m \in Nat, n \div 256 = m \div 256, n % 256 = m % 256
    PROVE  n = m
  BY SMT

LEMMA ThreeBytes ==
    ASSUME NEW n \in Nat, NEW m \in Nat,
           n \div 65536 = m \div 65536,
           (n \div 256) % 256 = (m \div 256) % 256, n % 256 = m % 256
    PROVE  n = m
  <1>1. \A k \in Nat : k \div 256 \in Nat /\ k \div 65536 = (k \div 256) \div 256
    BY SMT
  <1>2. n \div 256 = m \div 256
    BY <1>1, SplitByte, SMT
  <1> QED BY <1>2, SplitByte, SMT

LEMMA WordHolds ==
    ASSUME NEW q \in [1..4 -> Nat], NEW r \in [1..4 -> Nat]
    PROVE  /\ IdnWord(q) \in Nat /\ IdnWord(r) \in Nat
           /\ IdnWord(q) = IdnWord(r) <=> \A i \in 1..4 : IdnSix(q[i]) = IdnSix(r[i])
  <1>1. \A i \in 1..4 : q[i] \in Nat /\ r[i] \in Nat
    OBVIOUS
  <1>2. 1 \in 1..4 /\ 2 \in 1..4 /\ 3 \in 1..4 /\ 4 \in 1..4
        /\ \A i \in 1..4 : i = 1 \/ i = 2 \/ i = 3 \/ i = 4
    OBVIOUS
  <1>3. PICK a \in 0..63, b \in 0..63, c \in 0..63, d \in 0..63 :
           a = IdnSix(q[1]) /\ b = IdnSix(q[2]) /\ c = IdnSix(q[3]) /\ d = IdnSix(q[4])
    BY <1>1, <1>2, SixBelow
  <1>4. PICK x \in 0..63, y \in 0..63, z \in 0..63, u \in 0..63 :
           x = IdnSix(r[1]) /\ y = IdnSix(r[2]) /\ z = IdnSix(r[3]) /\ u = IdnSix(r[4])
    BY <1>1, <1>2, SixBelow
  <1>5. /\ IdnWord(q) = 64 * (64 * (64 * a + b) + c) + d
        /\ IdnWord(r) = 64 * (64 * (64 * x + y) + z) + u
    BY <1>3, <1>4 DEF IdnWord
  <1>6. IdnWord(q) \in Nat /\ IdnWord(r) \in Nat
    BY <1>5, SMT
  <1>7. IdnWord(q) = IdnWord(r) => a = x /\ b = y /\ c = z /\ d = u
    <2>1. SUFFICES ASSUME 64 * (64 * (64 * a + b) + c) + d = 64 * (64 * (64 * x + y) + z) + u
                   PROVE  a = x /\ b = y /\ c = z /\ d = u
      BY <1>5
    <2> QED BY <2>1, SMT
  <1>8. (a = x /\ b = y /\ c = z /\ d = u) => IdnWord(q) = IdnWord(r)
    BY <1>5
  <1> QED BY <1>2, <1>3, <1>4, <1>6, <1>7, <1>8

LEMMA FourToThreeHolds ==
    ASSUME NEW q \in [1..4 -> Nat], NEW r \in [1..4 -> Nat]
    PROVE  IdnFourToThree(q) = IdnFourToThree(r)
              <=> \A i \in 1..4 : IdnSix(q[i]) = IdnSix(r[i])
  <1>1. PICK n \in Nat, m \in Nat : n = IdnWord(q) /\ m = IdnWord(r)
    BY WordHolds
  <1>2. ASSUME IdnFourToThree(q) = IdnFourToThree(r) PROVE n = m
    <2>1. <<n \div 65536, (n \div 256) % 256, n % 256>> = <<m \div 65536, (m \div 256) % 256, m % 256>>
      BY <1>1, <1>2 DEF IdnFourToThree
    <2>2. n \div 65536 = m \div 65536 /\ (n \div 256) % 256 = (m \div 256) % 256 /\ n % 256 = m % 256
      BY <2>1, SMT
    <2> QED BY <2>2, ThreeBytes, SMT
  <1>3. ASSUME n = m PROVE IdnFourToThree(q) = IdnFourToThree(r)
    BY <1>1, <1>3 DEF IdnFourToThree
  <1> QED BY <1>1, <1>2, <1>3, WordHolds

\* A tuple of n items, by its places.
LEMMA Places ==
    ASSUME NEW S, NEW n \in Nat, NEW f \in [1..n -> S]
    PROVE  f \in Seq(S) /\ Len(f) = n
  <1>1. f \in Seq(S)
    BY SeqDef
  <1>2. Len(f) \in Nat /\ 1..Len(f) = 1..n
    BY <1>1, LenProperties
  <1>3. Len(f) <= n
    <2>1. Len(f) > 0 => Len(f) \in 1..n
      BY <1>2
    <2> QED BY <1>2, <2>1
  <1>4. n <= Len(f)
    <2>1. n > 0 => n \in 1..Len(f)
      BY <1>2
    <2> QED BY <1>2, <2>1
  <1> QED BY <1>1, <1>2, <1>3, <1>4

LEMMA HalvesHold ==
    ASSUME NEW p \in Seq(Int), NEW q \in Seq(Int), NEW x \in Seq(Int), NEW y \in Seq(Int),
           Len(p) = Len(x), p \o q = x \o y
    PROVE  p = x /\ q = y
  <1>1. p = x
    <2>1. Len(p) \in Nat /\ Len(q) \in Nat /\ Len(x) \in Nat /\ Len(y) \in Nat
      BY LenProperties
    <2>2. \A i \in 1..Len(p) : p[i] = (p \o q)[i]
      BY <2>1, ConcatProperties
    <2>3. \A i \in 1..Len(x) : x[i] = (x \o y)[i]
      BY <2>1, ConcatProperties
    <2>4. \A i \in 1..Len(p) : p[i] = x[i]
      BY <2>2, <2>3
    <2> QED BY <2>4, SeqEqual
  <1> QED BY <1>1, ConcatSimplifications

LEMMA PackHolds ==
    ASSUME NEW s \in [1..8 -> Nat], NEW t \in [1..8 -> Nat]
    PROVE  IdnPack(s).wire = IdnPack(t).wire <=> \A i \in 1..8 : IdnSix(s[i]) = IdnSix(t[i])
  <1> DEFINE Low(f) == SubSeq(f, 1, 4)
             High(f) == SubSeq(f, 5, 8)
  <1>1. ASSUME NEW f \in [1..8 -> Nat]
        PROVE  /\ IdnPack(f).wire = IdnFourToThree(Low(f)) \o IdnFourToThree(High(f))
               /\ Low(f) \in [1..4 -> Nat] /\ \A i \in 1..4 : Low(f)[i] = f[i]
               /\ High(f) \in [1..4 -> Nat] /\ \A i \in 1..4 : High(f)[i] = f[i + 4]
    <2>1. Len(f) = 8
      BY Places
    <2>2. IdnPadded(f) = f
      BY <2>1 DEF IdnPadded
    <2>3. /\ Low(f) \in Seq(Nat) /\ Len(Low(f)) = 4
          /\ \A i \in 1..4 : Low(f)[i] = f[1 + i - 1]
      <3>1. \A i \in 1..4 : f[i] \in Nat
        OBVIOUS
      <3> QED BY <3>1, SubSeqProperties
    <2>4. /\ High(f) \in Seq(Nat) /\ Len(High(f)) = 4
          /\ \A i \in 1..4 : High(f)[i] = f[5 + i - 1]
      <3>1. \A i \in 5..8 : f[i] \in Nat
        OBVIOUS
      <3> QED BY <3>1, SubSeqProperties
    <2>5. \A i \in 1..4 : 1 + i - 1 = i /\ 5 + i - 1 = i + 4
      OBVIOUS
    <2>6. IdnPack(f).wire = IdnFourToThree(Low(f)) \o IdnFourToThree(High(f))
      BY <2>2 DEF IdnPack
    <2> HIDE DEF Low, High
    <2>7. Low(f) \in [1..4 -> Nat]
      BY <2>3, LenProperties
    <2>8. High(f) \in [1..4 -> Nat]
      BY <2>4, LenProperties
    <2> QED BY <2>3, <2>4, <2>5, <2>6, <2>7, <2>8
  <1> HIDE DEF Low, High
  <1>2. ASSUME NEW q \in [1..4 -> Nat]
        PROVE  IdnFourToThree(q) \in Seq(Int) /\ Len(IdnFourToThree(q)) = 3
    <2>1. PICK n \in Nat : n = IdnWord(q)
      BY WordHolds
    <2> DEFINE a == n \div 65536
               b == (n \div 256) % 256
               c == n % 256
    <2>2. a \in Int /\ b \in Int /\ c \in Int
      BY SMT
    <2>3. IdnFourToThree(q) = <<a, b, c>>
      BY <2>1 DEF IdnFourToThree
    <2> HIDE DEF a, b, c
    <2> QED BY <2>2, <2>3
  <1>3. IdnPack(s).wire = IdnPack(t).wire
           <=> IdnFourToThree(Low(s)) = IdnFourToThree(Low(t))
                /\ IdnFourToThree(High(s)) = IdnFourToThree(High(t))
    <2> DEFINE ls == IdnFourToThree(Low(s))
               hs == IdnFourToThree(High(s))
               lt == IdnFourToThree(Low(t))
               ht == IdnFourToThree(High(t))
    <2>1. /\ ls \in Seq(Int) /\ hs \in Seq(Int) /\ lt \in Seq(Int) /\ ht \in Seq(Int)
          /\ Len(ls) = Len(lt)
      BY <1>1, <1>2
    <2>2. IdnPack(s).wire = ls \o hs /\ IdnPack(t).wire = lt \o ht
      BY <1>1
    <2> HIDE DEF ls, hs, lt, ht
    <2>3. ls \o hs = lt \o ht => ls = lt /\ hs = ht
      BY <2>1, HalvesHold
    <2>4. IdnPack(s).wire = IdnPack(t).wire <=> ls = lt /\ hs = ht
      BY <2>2, <2>3
    <2> QED BY <2>4 DEF ls, hs, lt, ht
  <1>4. /\ IdnFourToThree(Low(s)) = IdnFourToThree(Low(t))
             <=> \A i \in 1..4 : IdnSix(s[i]) = IdnSix(t[i])
        /\ IdnFourToThree(High(s)) = IdnFourToThree(High(t))
             <=> \A i \in 1..4 : IdnSix(s[i + 4]) = IdnSix(t[i + 4])
    <2>1. Low(s) \in [1..4 -> Nat] /\ Low(t) \in [1..4 -> Nat]
          /\ High(s) \in [1..4 -> Nat] /\ High(t) \in [1..4 -> Nat]
      BY <1>1
    <2>2. /\ IdnFourToThree(Low(s)) = IdnFourToThree(Low(t))
             <=> \A i \in 1..4 : IdnSix(Low(s)[i]) = IdnSix(Low(t)[i])
          /\ IdnFourToThree(High(s)) = IdnFourToThree(High(t))
             <=> \A i \in 1..4 : IdnSix(High(s)[i]) = IdnSix(High(t)[i])
      BY <2>1, FourToThreeHolds
    <2>3. \A i \in 1..4 : /\ Low(s)[i] = s[i] /\ Low(t)[i] = t[i]
                          /\ High(s)[i] = s[i + 4] /\ High(t)[i] = t[i + 4]
      BY <1>1
    <2> QED BY <2>2, <2>3
  <1>5. /\ \A i \in 1..8 : i \in 1..4 \/ (i - 4 \in 1..4 /\ i = (i - 4) + 4)
        /\ \A i \in 1..4 : i \in 1..8 /\ i + 4 \in 1..8
    OBVIOUS
  <1> QED BY <1>3, <1>4, <1>5

(* The SSID. *)

\* The node a number stands for: letters and "10" to "15" apart.
NmNode(v) == IF v >= 36 THEN <<"ten", v - 36>> ELSE <<"one", v>>
NmNodeOf(s) == IF Len(s) > 1 /\ s[1] = 49 THEN <<"ten", s[2] - 48>>
               ELSE IF s = <<>> THEN <<"one", 0>>
               ELSE <<"one", IdnDigit(s[Len(s)])>>

LEMMA NodesApart ==
    ASSUME NEW v \in 0..41, NEW w \in 0..41
    PROVE  NmNode(v) = NmNode(w) <=> v = w
  BY DEF NmNode

LEMMA DigitRange ==
    ASSUME NEW c \in Nat
    PROVE  /\ IdnDigit(c) \in 0..36
           /\ IdnDigit(c) = 0 => c = 48
           /\ IdnDigit(c) = 1 => c = 49
           /\ IdnDigit(c) <= 9 => c = 48 + IdnDigit(c)
           /\ c \in 48..57 => IdnDigit(c) = c - 48
  BY DEF IdnDigit, IdnDigits, IdnUpper, IdnLowers, IdnUppers

\* What is read of an SSID that is written, and the node it denotes.
LEMMA SsidRead ==
    ASSUME NEW s \in Seq(Nat), Len(s) > 0, Len(s) <= 2, IdnSsid(s) # -1
    PROVE  IdnSsid(s) \in 0..41 /\ NmNodeOf(s) = NmNode(IdnSsid(s))
  <1> DEFINE signed == s[1] \in IdnBlanks \cup {43, IdnDash}
  <1>1. s # <<>> /\ s[1] \in Nat /\ (Len(s) > 1 => s[2] \in Nat) /\ Len(s) \in Nat
    <2>1. Len(s) # 0 /\ Len(s) \in Nat
      BY LenProperties
    <2>2. 1 \in 1..Len(s) /\ (Len(s) > 1 => 2 \in 1..Len(s))
      BY <2>1
    <2> QED BY <2>1, <2>2, ElementOfSeq, EmptySeq
  <1>2. CASE ~(Len(s) > 1)
    <2>1. ~signed
      <3>1. SUFFICES ASSUME signed PROVE FALSE
        OBVIOUS
      <3>2. Tail(s) = <<>>
        <4>1. Tail(s) \in Seq(Nat) /\ Len(Tail(s)) = Len(s) - 1
          BY <1>1, HeadTailProperties
        <4>2. ~(Len(Tail(s)) > 0)
          BY <1>1, <1>2, <4>1
        <4>3. Tail(s) # <<>> => Len(Tail(s)) \in Nat \ {0}
          BY <4>1, EmptySeq
        <4> QED BY <4>2, <4>3
      <3> QED BY <1>1, <3>1, <3>2 DEF IdnSsid
    <2> HIDE DEF signed
    <2>2. 1 \in 1..Len(s) /\ Len(s) < 2
      BY <1>1, <1>2
    <2>3. IdnDigit(s[1]) # 36 /\ IdnSsid(s) = IdnDigit(s[1])
      BY <1>1, <2>1, <2>2 DEF IdnSsid, signed
    <2>4. IdnDigit(s[1]) \in 0..35
      <3>1. IdnDigit(s[1]) \in 0..36
        BY <1>1, DigitRange
      <3> QED BY <2>3, <3>1
    <2>5. NmNodeOf(s) = <<"one", IdnDigit(s[1])>>
      <3>1. \A n \in Nat : n > 0 /\ n < 2 => s[n] = s[1]
        OBVIOUS
      <3>2. s[Len(s)] = s[1]
        BY <1>1, <2>2, <3>1
      <3> QED BY <1>1, <1>2, <3>2 DEF NmNodeOf
    <2>6. PICK a \in 0..35 : a = IdnDigit(s[1])
      BY <2>4
    <2>7. IdnSsid(s) = a /\ NmNodeOf(s) = <<"one", a>>
      BY <2>3, <2>5, <2>6
    <2> QED BY <2>7 DEF NmNode
  <1>3. CASE Len(s) > 1 /\ signed
    <2>1. Tail(s)[1] = s[2] /\ Tail(s) # <<>> /\ Len(Tail(s)) < 2 /\ 1 \in 1..Len(Tail(s))
      <3>1. Tail(s) \in Seq(Nat) /\ Len(Tail(s)) = Len(s) - 1
            /\ \A i \in 1..Len(Tail(s)) : Tail(s)[i] = s[i + 1]
        BY <1>1, HeadTailProperties
      <3>2. 1 \in 1..Len(Tail(s)) /\ 1 + 1 = 2 /\ Len(Tail(s)) < 2
        BY <1>1, <1>3, <3>1
      <3>3. Tail(s) # <<>>
        <4>1. Len(Tail(s)) # Len(<<>>)
          BY <3>1, <3>2, EmptySeq
        <4> QED BY <4>1
      <3> QED BY <3>1, <3>2, <3>3
    <2>2. IdnDigit(s[2]) # 36 /\ IdnSsid(s) = IdnDigit(s[2])
      BY <1>1, <1>3, <2>1 DEF IdnSsid
    <2>3. IdnDigit(s[2]) \in 0..35
      <3>1. IdnDigit(s[2]) \in 0..36
        BY <1>1, <1>3, DigitRange
      <3> QED BY <2>2, <3>1
    <2>4. s[1] # 49
      BY <1>3 DEF IdnBlanks, IdnSpace, IdnDash
    <2>5. s[Len(s)] = s[2]
      <3>1. \A n \in Nat : n > 1 /\ n <= 2 => s[n] = s[2]
        OBVIOUS
      <3> QED BY <1>1, <1>3, <3>1
    <2>6. NmNodeOf(s) = <<"one", IdnDigit(s[2])>>
      BY <1>1, <1>3, <2>4, <2>5 DEF NmNodeOf
    <2>7. PICK a \in 0..35 : a = IdnDigit(s[2])
      BY <2>3
    <2>8. IdnSsid(s) = a /\ NmNodeOf(s) = <<"one", a>>
      BY <2>2, <2>6, <2>7
    <2> QED BY <2>8 DEF NmNode
  <1>4. CASE Len(s) > 1 /\ ~signed
    <2>1. /\ IdnDigit(s[1]) # 36 /\ IdnDigit(s[2]) # 36
          /\ IdnSsid(s) = 36 * IdnDigit(s[1]) + IdnDigit(s[2])
          /\ ~(36 * IdnDigit(s[1]) + IdnDigit(s[2]) > 41)
      <3>1. 1 \in 1..Len(s) /\ 2 \in 1..Len(s) /\ ~(Len(s) < 2)
        BY <1>1, <1>4
      <3> HIDE DEF signed
      <3> QED BY <1>1, <1>4, <3>1 DEF IdnSsid, signed
    <2>2. IdnDigit(s[1]) \in 0..35 /\ IdnDigit(s[2]) \in 0..35
      <3>1. IdnDigit(s[1]) \in 0..36 /\ IdnDigit(s[2]) \in 0..36
        BY <1>1, <1>4, DigitRange
      <3> QED BY <2>1, <3>1
    <2>3. PICK a \in 0..35, b \in 0..35 : a = IdnDigit(s[1]) /\ b = IdnDigit(s[2])
      BY <2>2
    <2>4. a \in 0..1 /\ IdnSsid(s) = 36 * a + b /\ 36 * a + b <= 41
      <3>1. IdnSsid(s) = 36 * a + b /\ ~(36 * a + b > 41)
        BY <2>1, <2>3
      <3> QED BY <3>1
    <2>5. s[Len(s)] = s[2]
      <3>1. \A n \in Nat : n > 1 /\ n <= 2 => s[n] = s[2]
        OBVIOUS
      <3> QED BY <1>1, <1>4, <3>1
    <2>6. CASE a = 0
      <3>1. s[1] = 48 /\ IdnSsid(s) = b
        <4>1. IdnDigit(s[1]) = 0
          BY <2>3, <2>6
        <4>2. s[1] = 48
          BY <1>1, <4>1, DigitRange
        <4> QED BY <2>4, <2>6, <4>2
      <3>2. NmNodeOf(s) = <<"one", b>>
        BY <1>1, <2>3, <2>5, <3>1 DEF NmNodeOf
      <3> QED BY <3>1, <3>2 DEF NmNode
    <2>7. CASE a = 1
      <3>1. s[1] = 49 /\ IdnSsid(s) = 36 + b /\ b <= 5
        <4>1. IdnDigit(s[1]) = 1
          BY <2>3, <2>7
        <4>2. s[1] = 49
          BY <1>1, <4>1, DigitRange
        <4> QED BY <2>4, <2>7, <4>2
      <3>2. s[2] - 48 = b
        BY <1>1, <1>4, <2>3, <3>1, DigitRange
      <3>3. NmNodeOf(s) = <<"ten", b>>
        BY <1>1, <1>4, <3>1, <3>2 DEF NmNodeOf
      <3>4. IdnSsid(s) - 36 = b /\ IdnSsid(s) >= 36 /\ IdnSsid(s) \in 0..41
        BY <3>1
      <3> QED BY <3>3, <3>4 DEF NmNode
    <2> QED BY <2>4, <2>6, <2>7
  <1> QED BY <1>1, <1>2, <1>3, <1>4

(* The text: its callsign and its SSID. *)

\* The eight characters that are packed.
NmWork(c, b) == [i \in 1..8 |-> IF i = 8 THEN b ELSE NmPlace(c, i)]

LEMMA AppendPlaces ==
    ASSUME NEW S, NEW n \in Nat, NEW h \in [1..n -> S], NEW b \in S
    PROVE  h \o <<b>> = [i \in 1..n + 1 |-> IF i = n + 1 THEN b ELSE h[i]]
  <1> DEFINE a == Append(h, b)
  <1>1. h \in Seq(S) /\ Len(h) = n
    BY Places
  <1>2. h \o <<b>> = a
    BY <1>1, AppendIsConcat
  <1>3. /\ a \in Seq(S) /\ Len(a) = n + 1
        /\ \A i \in 1..n : a[i] = h[i]
        /\ a[n + 1] = b
    BY <1>1, AppendProperties
  <1> HIDE DEF a
  <1>4. a \in [1..n + 1 -> S]
    BY <1>3, LenProperties
  <1>5. \A i \in 1..n + 1 : i = n + 1 \/ i \in 1..n
    OBVIOUS
  <1>6. \A i \in 1..n + 1 : a[i] = IF i = n + 1 THEN b ELSE h[i]
    BY <1>3, <1>5
  <1> QED BY <1>2, <1>4, <1>6

LEMMA HeadAndOne ==
    ASSUME NEW S, NEW n \in Nat, NEW m \in Nat, NEW p \in [1..m -> S], n <= m, NEW b \in S
    PROVE  SubSeq(p, 1, n) \o <<b>> = [i \in 1..n + 1 |-> IF i = n + 1 THEN b ELSE p[i]]
  <1> DEFINE h == SubSeq(p, 1, n)
  <1>1. \A i \in 1..n : p[i] \in S
    OBVIOUS
  <1>2. /\ h \in Seq(S) /\ Len(h) = (IF 1 <= n THEN n - 1 + 1 ELSE 0)
        /\ \A i \in 1..n - 1 + 1 : h[i] = p[1 + i - 1]
    BY <1>1, SubSeqProperties
  <1> HIDE DEF h
  <1>3. Len(h) = n /\ \A i \in 1..n : h[i] = p[i]
    BY <1>2
  <1>4. h \in [1..n -> S]
    BY <1>2, <1>3, LenProperties
  <1>5. h \o <<b>> = [i \in 1..n + 1 |-> IF i = n + 1 THEN b ELSE h[i]]
    BY <1>4, AppendPlaces
  <1>6. \A i \in 1..n + 1 : i = n + 1 \/ i \in 1..n
    OBVIOUS
  <1>7. h \o <<b>> = [i \in 1..n + 1 |-> IF i = n + 1 THEN b ELSE p[i]]
    BY <1>3, <1>5, <1>6
  <1> QED BY <1>7 DEF h

LEMMA WorkPlaced ==
    ASSUME NEW c \in Seq(Nat), NEW b \in Nat
    PROVE  /\ NmWork(c, b) \in [1..8 -> Nat]
           /\ SubSeq(IdnPadded(c), 1, 7) \o <<b>> = NmWork(c, b)
  <1> DEFINE p == IdnPadded(c)
             h == SubSeq(p, 1, 7)
  <1>1. Len(c) \in Nat /\ \A i \in 1..Len(c) : c[i] \in Nat
    BY LenProperties, ElementOfSeq
  <1>2. \A i \in 1..8 : NmPlace(c, i) \in Nat
    <2>1. \A i \in 1..8 : i <= Len(c) => i \in 1..Len(c)
      BY <1>1
    <2> QED BY <1>1, <2>1 DEF NmPlace, IdnSpace
  <1>3. p \in [1..8 -> Nat] /\ \A i \in 1..8 : p[i] = NmPlace(c, i)
    BY <1>2 DEF IdnPadded, NmPlace
  <1> HIDE DEF p
  <1>4. h \o <<b>> = [i \in 1..7 + 1 |-> IF i = 7 + 1 THEN b ELSE p[i]]
    BY <1>3, HeadAndOne
  <1>5. 7 + 1 = 8
    OBVIOUS
  <1>6. h \o <<b>> = [i \in 1..8 |-> IF i = 8 THEN b ELSE p[i]]
    BY <1>4, <1>5
  <1>7. h \o <<b>> = NmWork(c, b)
    BY <1>3, <1>6 DEF NmWork
  <1> QED BY <1>2, <1>7 DEF NmWork, p

LEMMA SsidByteRange ==
    ASSUME NEW v \in 0..41, NEW w \in 0..41
    PROVE  /\ IdnSsidByte(v) \in Nat
           /\ IdnSix(IdnSsidByte(v)) = IdnSix(IdnSsidByte(w)) <=> v = w
  <1>1. ASSUME NEW x \in 0..41 PROVE IdnSsidByte(x) \in Nat /\ IdnSix(IdnSsidByte(x)) = IdnSsidByte(x) - 32
    <2>1. IdnSsidByte(x) \in 48..90
      BY DEF IdnSsidByte
    <2> QED BY <2>1 DEF IdnSix, IdnPackable, IdnUpper, IdnLowers
  <1>2. IdnSsidByte(v) = IdnSsidByte(w) <=> v = w
    BY DEF IdnSsidByte
  <1> QED BY <1>1, <1>2

\* The parts of a text.
LEMMA Parsed ==
    ASSUME NEW t \in Seq(Nat)
    PROVE  /\ IdnParse(t).call \in Seq(Nat) /\ IdnParse(t).ssid \in Seq(Nat)
           /\ IdnParse(t).ssid # <<>>
           /\ IdnParse(t).fits => Len(IdnParse(t).ssid) <= 2
           /\ CllDenotes(t) = [call |-> [i \in DOMAIN IdnParse(t).call |-> IdnUpper(IdnParse(t).call[i])],
                               node |-> NmNodeOf(IdnParse(t).ssid)]
  <1> DEFINE dashes == {i \in 1..Len(t) : t[i] = IdnDash}
             at == IF dashes = {} THEN Len(t) + 1
                   ELSE CHOOSE i \in dashes : \A j \in dashes : i <= j
             raw == SubSeq(t, at + 1, Len(t))
             ssid == IF raw = <<>> THEN <<48>> ELSE raw
             call == SubSeq(t, 1, at - 1)
             pick == SelectInSeq(t, LAMBDA c : c = IdnDash)
  <1>1. IdnParse(t) = [call |-> call, ssid |-> ssid, fits |-> at - 1 <= 7 /\ Len(raw) <= 2]
    BY DEF IdnParse
  <1>2. Len(t) \in Nat
    BY LenProperties
  <1>3. dashes # {} => at \in dashes
    <2>1. dashes # {} => \E i \in dashes : \A j \in dashes : i <= j
      <3> DEFINE S == dashes
      <3>1. S \in SUBSET Nat
        OBVIOUS
      <3> HIDE DEF S
      <3>2. S # {} => \E i \in S : \A j \in S : i <= j
        BY <3>1, LeastOf
      <3> QED BY <3>2 DEF S
    <2> QED BY <2>1
  <1>4. at \in 1..Len(t) + 1 /\ (dashes # {} => at \in 1..Len(t))
    BY <1>2, <1>3
  <1>5. pick = IF dashes # {} THEN at ELSE 0
    BY DEF SelectInSeq, Min
  <1> HIDE DEF at, pick
  <1>6. call \in Seq(Nat) /\ raw \in Seq(Nat)
    <2>1. \A i \in 1..at - 1 : t[i] \in Nat
      BY <1>4, ElementOfSeq
    <2>2. \A i \in at + 1..Len(t) : t[i] \in Nat
      BY <1>4, ElementOfSeq
    <2> QED BY <1>2, <1>4, <2>1, <2>2, SubSeqProperties
  <1>7. ssid \in Seq(Nat) /\ ssid # <<>> /\ (Len(raw) <= 2 => Len(ssid) <= 2)
    <2>1. <<48>> \in Seq(Nat) /\ <<48>> # <<>> /\ Len(<<48>>) <= 2
      OBVIOUS
    <2> HIDE DEF raw
    <2> QED BY <1>6, <2>1
  <1>8. NmNodeOf(ssid) = NmNodeOf(raw)
    <2>1. NmNodeOf(<<48>>) = <<"one", 0>>
      <3>1. Len(<<48>>) = 1 /\ <<48>>[1] = 48 /\ <<48>> # <<>>
        OBVIOUS
      <3>2. IdnDigit(48) = 0
        <4>1. 48 \in Nat /\ 48 \in 48..57 /\ 48 - 48 = 0
          OBVIOUS
        <4> QED BY <4>1, DigitRange
      <3> QED BY <3>1, <3>2 DEF NmNodeOf
    <2>2. NmNodeOf(<<>>) = <<"one", 0>>
      <3>1. ~(Len(<<>>) > 1)
        BY EmptySeq
      <3> QED BY <3>1 DEF NmNodeOf
    <2> HIDE DEF raw
    <2> QED BY <2>1, <2>2
  <1>9. CllDenotes(t) = [call |-> [i \in DOMAIN call |-> IdnUpper(call[i])], node |-> NmNodeOf(raw)]
    <2>1. CASE dashes = {}
      <3>1. pick = 0 /\ at = Len(t) + 1
        BY <1>5, <2>1 DEF at
      <3>2. call = t
        <4>1. at - 1 = Len(t)
          BY <1>2, <3>1
        <4> QED BY <4>1, SubSeqFull
      <3>3. raw = <<>>
        BY <1>2, <3>1, SubSeqEmpty
      <3> HIDE DEF call, raw
      <3> QED BY <3>1, <3>2, <3>3 DEF CllDenotes, NmNodeOf, pick
    <2>2. CASE dashes # {}
      <3>1. pick = at /\ at # 0
        BY <1>4, <1>5, <2>2
      <3> QED BY <3>1 DEF CllDenotes, NmNodeOf, pick
    <2> QED BY <2>1, <2>2
  <1> HIDE DEF dashes, raw, ssid, call
  <1>10. IdnParse(t).call = call /\ IdnParse(t).ssid = ssid
    BY <1>1
  <1>11. IdnParse(t).fits => Len(raw) <= 2
    BY Zenon DEF IdnParse, dashes, raw, at
  <1> QED BY <1>6, <1>7, <1>8, <1>9, <1>10, <1>11

\* A text that names a station: its callsign, the number of its SSID, and what
\* is packed of them.
LEMMA ValidParts ==
    ASSUME NEW t \in Seq(Nat), IdnValid(IdnFromStr(t))
    PROVE  LET c == NmCall(t)
               v == NmNumber(t)
               w == NmWork(c, IdnSsidByte(v))
           IN  /\ c \in Seq(Nat) /\ Len(c) <= 7 /\ \A i \in 1..Len(c) : c[i] # IdnSpace
               /\ v \in 0..41 /\ CllDenotes(t).node = NmNode(v)
               /\ CllDenotes(t).call = [i \in DOMAIN c |-> IdnUpper(c[i])]
               /\ IdnFromStr(t).wire = IdnPack(w).wire
               /\ \A i \in 1..8 : IdnPackable(w[i])
  <1> DEFINE p == IdnParse(t)
             v == IdnSsid(p.ssid)
             work == SubSeq(IdnPadded(p.call), 1, 7) \o <<IdnSsidByte(v)>>
             w == NmWork(p.call, IdnSsidByte(v))
  <1>1. IdnFromStr(t) # IdnNobody
    BY NobodyInvalid
  <1>2. /\ p.fits /\ IdnCallOk(p.call) /\ v >= 0 /\ IdnPack(work).ok
        /\ IdnFromStr(t) = IdnFromBytes(IdnPack(work).wire)
    BY <1>1 DEF IdnFromStr
  <1>3. IdnFromStr(t).wire = IdnPack(work).wire
    BY <1>1, <1>2, BytesKept
  <1>4. /\ p.call \in Seq(Nat) /\ p.ssid \in Seq(Nat) /\ p.ssid # <<>> /\ Len(p.ssid) <= 2
        /\ CllDenotes(t) = [call |-> [i \in DOMAIN p.call |-> IdnUpper(p.call[i])],
                            node |-> NmNodeOf(p.ssid)]
    BY <1>2, Parsed
  <1> HIDE DEF p
  <1>5. v \in 0..41 /\ NmNodeOf(p.ssid) = NmNode(v)
    <2>1. Len(p.ssid) > 0
      BY <1>4, EmptySeq
    <2>2. IdnSsid(p.ssid) # -1
      BY <1>2
    <2> QED BY <1>4, <2>1, <2>2, SsidRead
  <1>6. Len(p.call) <= 7 /\ \A i \in 1..Len(p.call) : p.call[i] # IdnSpace
    <2>1. Len(p.call) \in 2..7 /\ IdnSpace \notin {p.call[i] : i \in 1..Len(p.call)}
      BY <1>2 DEF IdnCallOk
    <2> QED BY <2>1
  <1>7. work = w /\ w \in [1..8 -> Nat]
    <2>1. IdnSsidByte(v) \in Nat
      BY <1>5, SsidByteRange
    <2> QED BY <1>4, <2>1, WorkPlaced
  <1> HIDE DEF v, work, w
  <1>8. \A i \in 1..8 : IdnPackable(w[i])
    <2>1. Len(w) = 8
      BY <1>7, Places
    <2>2. IdnPadded(w) = w
      BY <1>7, <2>1 DEF IdnPadded
    <2>3. IdnPack(w).ok
      BY <1>2, <1>7
    <2> QED BY <2>2, <2>3, Zenon DEF IdnPack
  <1>9. CllDenotes(t).node = NmNode(v) /\ CllDenotes(t).call = [i \in DOMAIN p.call |-> IdnUpper(p.call[i])]
    BY <1>4, <1>5
  <1> QED BY <1>3, <1>4, <1>5, <1>6, <1>7, <1>8, <1>9 DEF NmCall, NmNumber, p, v, w

LEMMA SameCall ==
    ASSUME NEW c \in Seq(Nat), NEW d \in Seq(Nat), Len(c) <= 7, Len(d) <= 7,
           \A i \in 1..Len(c) : c[i] # IdnSpace, \A i \in 1..Len(d) : d[i] # IdnSpace
    PROVE  (\A i \in 1..7 : IdnUpper(NmPlace(c, i)) = IdnUpper(NmPlace(d, i)))
              <=> [i \in DOMAIN c |-> IdnUpper(c[i])] = [i \in DOMAIN d |-> IdnUpper(d[i])]
  <1>1. PICK m \in Nat, n \in Nat : m = Len(c) /\ n = Len(d)
    BY LenProperties
  <1>2. /\ DOMAIN c = 1..m /\ DOMAIN d = 1..n /\ m <= 7 /\ n <= 7
        /\ \A i \in 1..m : c[i] \in Nat /\ c[i] # IdnSpace
        /\ \A i \in 1..n : d[i] \in Nat /\ d[i] # IdnSpace
        /\ \A i : NmPlace(c, i) = IF i <= m THEN c[i] ELSE IdnSpace
        /\ \A i : NmPlace(d, i) = IF i <= n THEN d[i] ELSE IdnSpace
    BY <1>1, LenProperties, ElementOfSeq DEF NmPlace
  <1>3. \A x \in Nat : IdnUpper(x) = IdnUpper(IdnSpace) => x = IdnSpace
    BY DEF IdnUpper, IdnLowers, IdnSpace
  <1>4. ASSUME \A i \in 1..7 : IdnUpper(NmPlace(c, i)) = IdnUpper(NmPlace(d, i))
        PROVE  [i \in DOMAIN c |-> IdnUpper(c[i])] = [i \in DOMAIN d |-> IdnUpper(d[i])]
    <2>1. ~(m < n)
      <3>1. SUFFICES ASSUME m < n PROVE FALSE
        OBVIOUS
      <3>2. m + 1 \in 1..7 /\ m + 1 \in 1..n /\ ~(m + 1 <= m) /\ m + 1 <= n
        BY <1>2, <3>1
      <3>3. NmPlace(c, m + 1) = IdnSpace /\ NmPlace(d, m + 1) = d[m + 1]
        BY <1>2, <3>2
      <3> QED BY <1>2, <1>3, <1>4, <3>2, <3>3
    <2>2. ~(n < m)
      <3>1. SUFFICES ASSUME n < m PROVE FALSE
        OBVIOUS
      <3>2. n + 1 \in 1..7 /\ n + 1 \in 1..m /\ ~(n + 1 <= n) /\ n + 1 <= m
        BY <1>2, <3>1
      <3>3. NmPlace(d, n + 1) = IdnSpace /\ NmPlace(c, n + 1) = c[n + 1]
        BY <1>2, <3>2
      <3> QED BY <1>2, <1>3, <1>4, <3>2, <3>3
    <2>3. m = n
      BY <2>1, <2>2
    <2>4. \A i \in 1..m : IdnUpper(c[i]) = IdnUpper(d[i])
      <3>1. \A i \in 1..m : i \in 1..7 /\ i <= m /\ i <= n
        BY <1>2, <2>3
      <3> QED BY <1>2, <1>4, <3>1
    <2> QED BY <1>2, <2>3, <2>4
  <1>5. ASSUME [i \in DOMAIN c |-> IdnUpper(c[i])] = [i \in DOMAIN d |-> IdnUpper(d[i])]
        PROVE  \A i \in 1..7 : IdnUpper(NmPlace(c, i)) = IdnUpper(NmPlace(d, i))
    <2>1. 1..m = 1..n /\ \A i \in 1..m : IdnUpper(c[i]) = IdnUpper(d[i])
      BY <1>2, <1>5
    <2>2. m = n
      <3>1. (m > 0 => m \in 1..n) /\ (n > 0 => n \in 1..m)
        BY <2>1
      <3> QED BY <3>1
    <2>3. \A i \in 1..7 : i <= m <=> i \in 1..m
      OBVIOUS
    <2> QED BY <1>2, <2>1, <2>2, <2>3
  <1> QED BY <1>4, <1>5

\* Two texts that name stations have the same bytes exactly if they denote one
\* node, whatever the case of the letters and however the SSID is written.
LEMMA SameBytesSameNode ==
    ASSUME NEW t \in Seq(Nat), NEW u \in Seq(Nat),
           IdnValid(IdnFromStr(t)), IdnValid(IdnFromStr(u))
    PROVE  IdnFromStr(t).wire = IdnFromStr(u).wire <=> CllDenotes(t) = CllDenotes(u)
  <1> DEFINE c == NmCall(t)
             d == NmCall(u)
             v == NmNumber(t)
             x == NmNumber(u)
             w == NmWork(c, IdnSsidByte(v))
             y == NmWork(d, IdnSsidByte(x))
  <1>1. /\ c \in Seq(Nat) /\ Len(c) <= 7 /\ \A i \in 1..Len(c) : c[i] # IdnSpace
        /\ v \in 0..41 /\ CllDenotes(t).node = NmNode(v)
        /\ CllDenotes(t).call = [i \in DOMAIN c |-> IdnUpper(c[i])]
        /\ IdnFromStr(t).wire = IdnPack(w).wire
        /\ \A i \in 1..8 : IdnPackable(w[i])
    BY ValidParts
  <1>2. /\ d \in Seq(Nat) /\ Len(d) <= 7 /\ \A i \in 1..Len(d) : d[i] # IdnSpace
        /\ x \in 0..41 /\ CllDenotes(u).node = NmNode(x)
        /\ CllDenotes(u).call = [i \in DOMAIN d |-> IdnUpper(d[i])]
        /\ IdnFromStr(u).wire = IdnPack(y).wire
        /\ \A i \in 1..8 : IdnPackable(y[i])
    BY ValidParts
  <1> HIDE DEF c, d, v, x
  <1>3. w \in [1..8 -> Nat] /\ y \in [1..8 -> Nat]
    BY <1>1, <1>2, SsidByteRange, WorkPlaced
  <1>4. /\ w[8] = IdnSsidByte(v) /\ y[8] = IdnSsidByte(x)
        /\ \A i \in 1..7 : w[i] = NmPlace(c, i) /\ y[i] = NmPlace(d, i)
    BY DEF NmWork
  <1> HIDE DEF w, y
  <1>5. IdnPack(w).wire = IdnPack(y).wire <=> \A i \in 1..8 : IdnSix(w[i]) = IdnSix(y[i])
    BY <1>3, PackHolds
  <1>6. \A i \in 1..8 : IdnSix(w[i]) = IdnSix(y[i]) <=> IdnUpper(w[i]) = IdnUpper(y[i])
    <2>1. \A k \in Nat : IdnPackable(k) => IdnSix(k) = IdnUpper(k) - 32 /\ IdnUpper(k) \in Nat
      BY SixBelow DEF IdnSix
    <2>2. SUFFICES ASSUME NEW i \in 1..8
                   PROVE  IdnSix(w[i]) = IdnSix(y[i]) <=> IdnUpper(w[i]) = IdnUpper(y[i])
      OBVIOUS
    <2>3. w[i] \in Nat /\ y[i] \in Nat /\ IdnPackable(w[i]) /\ IdnPackable(y[i])
      BY <1>1, <1>2, <1>3
    <2>4. PICK a \in Nat, b \in Nat : a = IdnUpper(w[i]) /\ b = IdnUpper(y[i])
      BY <2>1, <2>3
    <2>5. IdnSix(w[i]) = a - 32 /\ IdnSix(y[i]) = b - 32
      BY <2>1, <2>3, <2>4
    <2> QED BY <2>4, <2>5
  <1>7. IdnSix(w[8]) = IdnSix(y[8]) <=> v = x
    BY <1>1, <1>2, <1>4, SsidByteRange
  <1>8. \A i \in 1..8 : i = 8 \/ i \in 1..7
    OBVIOUS
  <1>9. (\A i \in 1..8 : IdnSix(w[i]) = IdnSix(y[i]))
           <=> v = x /\ \A i \in 1..7 : IdnUpper(NmPlace(c, i)) = IdnUpper(NmPlace(d, i))
    BY <1>4, <1>6, <1>7, <1>8
  <1>10. (\A i \in 1..7 : IdnUpper(NmPlace(c, i)) = IdnUpper(NmPlace(d, i)))
            <=> CllDenotes(t).call = CllDenotes(u).call
    <2>1. (\A i \in 1..7 : IdnUpper(NmPlace(c, i)) = IdnUpper(NmPlace(d, i)))
            <=> [i \in DOMAIN c |-> IdnUpper(c[i])] = [i \in DOMAIN d |-> IdnUpper(d[i])]
      BY <1>1, <1>2, SameCall
    <2> QED BY <1>1, <1>2, <2>1
  <1>11. v = x <=> CllDenotes(t).node = CllDenotes(u).node
    BY <1>1, <1>2, NodesApart
  <1>12. CllDenotes(t) = CllDenotes(u)
            <=> CllDenotes(t).call = CllDenotes(u).call /\ CllDenotes(t).node = CllDenotes(u).node
    <2>1. \A s : CllDenotes(s) = [call |-> CllDenotes(s).call, node |-> CllDenotes(s).node]
      BY DEF CllDenotes
    <2> QED BY <2>1
  <1> QED BY <1>1, <1>2, <1>5, <1>9, <1>10, <1>11, <1>12

(* The steps. *)

LEMMA CllStarts == CllInit => CllInv
  <1> SUFFICES ASSUME CllInit PROVE CllInv
    OBVIOUS
  <1>1. PICK mine \in CllNames, bw \in CllSettings, lad \in CllLadders :
           cll = CllStart("DISC", mine, bw, lad, CllTries)
    BY DEF CllInit
  <1> USE DEF CllStart
  <1>2. CllTypes
    BY <1>1 DEF CllTypes, CllShape
  <1>3. CllAsks /\ CllAnswers /\ CllKnown
    BY <1>1 DEF CllAsks, CllAnswers, CllKnown, CllNoFrame
  <1> QED BY <1>2, <1>3 DEF CllInv

LEMMA CllCallKeeps ==
    ASSUME CllInv, NEW t \in CllTargets, NEW bw \in CllSettings, CllCall(t, bw)
    PROVE  CllInv'
  <1> USE DEF CllInv
  <1>1. /\ bw # CllUndefined /\ cll.a = "DISC"
        /\ cll' = [cll EXCEPT
          !.a = "ISS_CON_REQ", !.target = t, !.aBw = bw, !.asked = bw,
          !.aSess = CllSession(CllMe, IdnFromStr(t)), !.tries = cll.tries - 1, !.said = "nothing",
          !.air = [kind |-> "conreq", bw |-> bw,
                   caller |-> CllMe.wire, target |-> IdnFromStr(t).wire]]
    BY DEF CllCall
  <1>2. /\ CllShape' /\ cll'.a = "ISS_CON_REQ" /\ cll'.target = t /\ cll'.asked = bw
        /\ cll'.aSess = CllSession(CllMe, IdnFromStr(t)) /\ cll'.said = "nothing"
        /\ cll'.air = [kind |-> "conreq", bw |-> bw,
                       caller |-> CllMe.wire, target |-> IdnFromStr(t).wire]
        /\ cll'.b = cll.b /\ cll'.bBw = cll.bBw /\ cll'.aLad = cll.aLad
        /\ cll'.answered = cll.answered
    BY <1>1 DEF CllTypes, CllShape
  <1>3. CllTypes'
    BY <1>2 DEF CllTypes
  <1>4. CllAsks' /\ CllAnswers'
    BY <1>1, <1>2 DEF CllAsks, CllAnswers
  <1>5. CllKnown'
    BY <1>1, <1>2 DEF CllKnown, CllNumber
  <1> QED BY <1>3, <1>4, <1>5

\* A step that changes the air alone, to a frame that is true to the rest.
LEMMA CllAirKeeps ==
    ASSUME CllInv, NEW f, cll' = [cll EXCEPT !.air = f],
           \/ f = CllNoFrame
           \/ /\ f = [kind |-> "conreq", bw |-> cll.asked, caller |-> CllMe.wire,
                      target |-> IdnFromStr(cll.target).wire]
              /\ cll.a = "ISS_CON_REQ"
           \/ /\ f = [kind |-> "conack", hz |-> CllWidth, sess |-> f.sess, to |-> f.to]
              /\ cll.said = "TARGET"
    PROVE  CllInv'
  <1> USE DEF CllInv
  <1>1. /\ CllShape' /\ cll'.air = f
        /\ cll'.a = cll.a /\ cll'.target = cll.target /\ cll'.asked = cll.asked
        /\ cll'.aSess = cll.aSess /\ cll'.said = cll.said /\ cll'.bSess = cll.bSess
        /\ cll'.b = cll.b /\ cll'.bBw = cll.bBw /\ cll'.aLad = cll.aLad
        /\ cll'.answered = cll.answered /\ cll'.aHz = cll.aHz /\ cll'.bHz = cll.bHz
    BY DEF CllTypes, CllShape
  <1>2. CllTypes' /\ CllKnown'
    BY <1>1 DEF CllTypes, CllKnown, CllNumber, CllWidth
  <1>3. CllAsks'
    BY <1>1 DEF CllAsks, CllNoFrame, CllKnown, CllTypes
  <1>4. CllAnswers'
    BY <1>1 DEF CllAnswers, CllNoFrame, CllWidth
  <1> QED BY <1>2, <1>3, <1>4

LEMMA CllRepeatKeeps ==
    ASSUME CllInv, CllRepeat
    PROVE  CllInv'
  <1>1. CASE cll.a = "ISS_CON_REQ"
    BY <1>1, CllAirKeeps DEF CllRepeat
  <1>2. CASE cll.a = "ISS_CON_ACK"
    <2> DEFINE f == [kind |-> "conack", hz |-> cll.aHz, sess |-> cll.aSess, to |-> "b"]
    <2>1. cll' = [cll EXCEPT !.air = f]
      BY <1>2 DEF CllRepeat
    <2>2. /\ f = [kind |-> "conack", hz |-> CllWidth, sess |-> f.sess, to |-> f.to]
          /\ cll.said = "TARGET"
      BY <1>2 DEF CllInv, CllKnown
    <2> HIDE DEF f
    <2> QED BY <2>1, <2>2, CllAirKeeps
  <1> QED BY <1>1, <1>2 DEF CllRepeat

LEMMA CllRequestKeeps ==
    ASSUME CllInv, CllHearRequest
    PROVE  CllInv'
  <1> DEFINE caller == IdnFromBytes(cll.air.caller)
             target == IdnFromBytes(cll.air.target)
             me == CllToMe(target, CllIds)
             hz == CllNegotiate(cll.bBw, cll.air.bw)
             s == CllSession(caller, CHOOSE n \in me : TRUE)
  <1>1. CASE cll' = [cll EXCEPT !.air = CllNoFrame]
    BY <1>1, CllAirKeeps
  <1>2. /\ cll.air.kind = "conreq" /\ cll.air.bw = cll.asked
        /\ cll.air.caller = CllMe.wire /\ cll.air.target = IdnFromStr(cll.target).wire
        /\ cll.a \in {"DISC", "ISS_CON_REQ"} /\ cll.asked \in CllSettings \ {CllUndefined}
    BY DEF CllHearRequest, CllInv, CllAsks
  <1>3. CASE cll' # [cll EXCEPT !.air = CllNoFrame]
    <2>1. /\ cll.b = "DISC" /\ IdnValid(caller) /\ IdnValid(target)
          /\ IF me = {}
             THEN cll' = [cll EXCEPT !.air = CllNoFrame, !.said = "CANCELPENDING"]
             ELSE IF hz = 0
             THEN cll' = [cll EXCEPT !.said = "REJECTEDBW", !.answered = cll.bBw,
                             !.air = [kind |-> "conrej", sess |-> s, to |-> "a"]]
             ELSE cll' = [cll EXCEPT !.said = "TARGET", !.answered = cll.bBw,
                             !.b = "IRS_CON_ACK", !.bSess = s, !.bHz = hz,
                             !.air = [kind |-> "conack", hz |-> hz, sess |-> s, to |-> "a"]]
      BY <1>3 DEF CllHearRequest
    <2>2. me # {} => s = CllNumber
      <3>1. SUFFICES ASSUME me # {} PROVE s = CllNumber
        OBVIOUS
      <3>2. (CHOOSE n \in me : TRUE) \in me
        BY <3>1
      <3> DEFINE n == CHOOSE x \in me : TRUE
      <3>3. n \in CllToMe(IdnFromBytes(IdnFromStr(cll.target).wire), {IdnFromStr(x) : x \in cll.names})
        BY <1>2, <3>2 DEF CllIds
      <3>4. IdnValid(IdnFromBytes(IdnFromStr(CllMine).wire))
            /\ IdnValid(IdnFromBytes(IdnFromStr(cll.target).wire))
        BY <1>2, <2>1 DEF CllMe
      <3>5. s = CllSession(IdnFromBytes(IdnFromStr(CllMine).wire), n)
        BY <1>2 DEF CllMe
      <3> HIDE DEF s, n, caller, target, me
      <3> QED BY <3>3, <3>4, <3>5, NumbersAgree DEF CllNumber, CllMe
    <2> HIDE DEF caller, target, me, hz, s
    <2>3. CASE me = {}
      <3>1. /\ CllShape' /\ cll'.air = CllNoFrame /\ cll'.said = "CANCELPENDING"
            /\ cll'.a = cll.a /\ cll'.target = cll.target /\ cll'.asked = cll.asked
            /\ cll'.aSess = cll.aSess /\ cll'.bSess = cll.bSess
            /\ cll'.b = cll.b /\ cll'.bBw = cll.bBw /\ cll'.aLad = cll.aLad
            /\ cll'.answered = cll.answered /\ cll'.aHz = cll.aHz /\ cll'.bHz = cll.bHz
        BY <2>1, <2>3 DEF CllInv, CllTypes, CllShape
      <3>2. CllTypes' /\ CllAsks' /\ CllAnswers'
        BY <3>1 DEF CllInv, CllTypes, CllAsks, CllAnswers, CllNoFrame
      <3>3. CllKnown'
        BY <1>2, <3>1 DEF CllInv, CllKnown, CllNumber
      <3> QED BY <3>2, <3>3 DEF CllInv
    <2>4. CASE me # {} /\ hz = 0
      <3>1. /\ CllShape' /\ cll'.air = [kind |-> "conrej", sess |-> s, to |-> "a"]
            /\ cll'.said = "REJECTEDBW" /\ cll'.answered = cll.bBw
            /\ cll'.a = cll.a /\ cll'.target = cll.target /\ cll'.asked = cll.asked
            /\ cll'.aSess = cll.aSess /\ cll'.bSess = cll.bSess
            /\ cll'.b = cll.b /\ cll'.bBw = cll.bBw /\ cll'.aLad = cll.aLad
            /\ cll'.aHz = cll.aHz /\ cll'.bHz = cll.bHz
        BY <2>1, <2>4 DEF CllInv, CllTypes, CllShape
      <3>2. CllTypes' /\ CllAsks' /\ CllAnswers'
        BY <3>1 DEF CllInv, CllTypes, CllAsks, CllAnswers
      <3>3. CllWidth' = 0
        BY <1>2, <2>4, <3>1 DEF CllWidth, hz
      <3>4. CllKnown'
        BY <1>2, <3>1, <3>3 DEF CllInv, CllKnown, CllNumber
      <3> QED BY <3>2, <3>4 DEF CllInv
    <2>5. CASE me # {} /\ hz # 0
      <3>1. /\ CllShape' /\ cll'.air = [kind |-> "conack", hz |-> hz, sess |-> s, to |-> "a"]
            /\ cll'.said = "TARGET" /\ cll'.answered = cll.bBw
            /\ cll'.a = cll.a /\ cll'.target = cll.target /\ cll'.asked = cll.asked
            /\ cll'.aSess = cll.aSess /\ cll'.bSess = s
            /\ cll'.b = "IRS_CON_ACK" /\ cll'.bBw = cll.bBw /\ cll'.aLad = cll.aLad
            /\ cll'.aHz = cll.aHz /\ cll'.bHz = hz
        BY <2>1, <2>5 DEF CllInv, CllTypes, CllShape
      <3>2. CllWidth' = hz
        BY <1>2, <3>1 DEF CllWidth, hz
      <3>3. CllTypes' /\ CllAsks' /\ CllAnswers'
        BY <3>1, <3>2 DEF CllInv, CllTypes, CllAsks, CllAnswers
      <3>4. CllKnown'
        BY <1>2, <2>2, <2>5, <3>1, <3>2 DEF CllInv, CllKnown, CllNumber
      <3> QED BY <3>3, <3>4 DEF CllInv
    <2> QED BY <2>3, <2>4, <2>5
  <1> QED BY <1>1, <1>3

LEMMA CllHearKeeps ==
    ASSUME CllInv, CllHear
    PROVE  CllInv'
  <1> DEFINE f == cll.air
  <1>1. CASE cll' = [cll EXCEPT !.air = CllNoFrame]
    BY <1>1, CllAirKeeps
  <1>2. CASE f.kind = "conack" /\ f.to = "a" /\ cll.a = "ISS_CON_REQ"
             /\ cll' = [cll EXCEPT !.a = "ISS_CON_ACK", !.aHz = f.hz, !.air = [f EXCEPT !.to = "b"]]
    <2> HIDE DEF f
    <2>1. /\ f = [kind |-> "conack", hz |-> CllWidth, sess |-> f.sess, to |-> f.to]
          /\ cll.said = "TARGET"
      BY <1>2 DEF CllInv, CllAnswers, f
    <2>2. f.hz = CllWidth
          /\ [f EXCEPT !.to = "b"] = [kind |-> "conack", hz |-> CllWidth, sess |-> f.sess, to |-> "b"]
      BY <2>1
    <2>3. /\ CllShape' /\ cll'.air = [kind |-> "conack", hz |-> CllWidth, sess |-> f.sess, to |-> "b"]
          /\ cll'.said = "TARGET" /\ cll'.answered = cll.answered /\ cll.said = "TARGET"
          /\ cll'.a = "ISS_CON_ACK" /\ cll'.target = cll.target /\ cll'.asked = cll.asked
          /\ cll'.aSess = cll.aSess /\ cll'.bSess = cll.bSess
          /\ cll'.b = cll.b /\ cll'.bBw = cll.bBw /\ cll'.aLad = cll.aLad
          /\ cll'.aHz = CllWidth /\ cll'.bHz = cll.bHz
      BY <1>2, <2>1, <2>2 DEF CllInv, CllTypes, CllShape
    <2>4. CllWidth' = CllWidth /\ CllNumber' = CllNumber
      BY <2>3 DEF CllWidth, CllNumber
    <2>5. CllTypes' /\ CllAsks' /\ CllAnswers'
      BY <2>3, <2>4 DEF CllInv, CllTypes, CllAsks, CllAnswers
    <2>6. CllKnown'
      BY <1>2, <2>3, <2>4 DEF CllInv, CllKnown
    <2> QED BY <2>5, <2>6 DEF CllInv
  <1>3. CASE cll' = [cll EXCEPT !.a = "DISC", !.air = CllNoFrame]
    <2>1. /\ CllShape' /\ cll'.air = CllNoFrame
          /\ cll'.said = cll.said /\ cll'.answered = cll.answered
          /\ cll'.a = "DISC" /\ cll'.target = cll.target /\ cll'.asked = cll.asked
          /\ cll'.aSess = cll.aSess /\ cll'.bSess = cll.bSess
          /\ cll'.b = cll.b /\ cll'.bBw = cll.bBw /\ cll'.aLad = cll.aLad
          /\ cll'.aHz = cll.aHz /\ cll'.bHz = cll.bHz
      BY <1>3 DEF CllInv, CllTypes, CllShape
    <2>2. CllWidth' = CllWidth /\ CllNumber' = CllNumber
      BY <2>1 DEF CllWidth, CllNumber
    <2> QED BY <2>1, <2>2 DEF CllInv, CllTypes, CllAsks, CllAnswers, CllKnown, CllNoFrame
  <1>4. CASE cll.a = "ISS_CON_ACK" /\ cll' = [cll EXCEPT !.a = "CONNECTED", !.air = CllNoFrame]
    <2>1. /\ CllShape' /\ cll'.air = CllNoFrame
          /\ cll'.said = cll.said /\ cll'.answered = cll.answered
          /\ cll'.a = "CONNECTED" /\ cll'.target = cll.target /\ cll'.asked = cll.asked
          /\ cll'.aSess = cll.aSess /\ cll'.bSess = cll.bSess
          /\ cll'.b = cll.b /\ cll'.bBw = cll.bBw /\ cll'.aLad = cll.aLad
          /\ cll'.aHz = cll.aHz /\ cll'.bHz = cll.bHz
      BY <1>4 DEF CllInv, CllTypes, CllShape
    <2>2. CllWidth' = CllWidth /\ CllNumber' = CllNumber
      BY <2>1 DEF CllWidth, CllNumber
    <2> QED BY <1>4, <2>1, <2>2 DEF CllInv, CllTypes, CllAsks, CllAnswers, CllKnown, CllNoFrame
  <1>5. CASE f.kind = "conack" /\ cll.b = "IRS_CON_ACK"
             /\ cll' = [cll EXCEPT !.b = "CONNECTED", !.bHz = f.hz,
                          !.air = [kind |-> "dataack", sess |-> f.sess, to |-> "a"]]
    <2> HIDE DEF f
    <2>1. f = [kind |-> "conack", hz |-> CllWidth, sess |-> f.sess, to |-> f.to]
      BY <1>5 DEF CllInv, CllAnswers, f
    <2>2. f.hz = CllWidth
      BY <2>1
    <2>3. /\ CllShape' /\ cll'.air = [kind |-> "dataack", sess |-> f.sess, to |-> "a"]
          /\ cll'.said = cll.said /\ cll'.answered = cll.answered
          /\ cll'.a = cll.a /\ cll'.target = cll.target /\ cll'.asked = cll.asked
          /\ cll'.aSess = cll.aSess /\ cll'.bSess = cll.bSess
          /\ cll'.b = "CONNECTED" /\ cll'.bBw = cll.bBw /\ cll'.aLad = cll.aLad
          /\ cll'.aHz = cll.aHz /\ cll'.bHz = CllWidth
      BY <1>5, <2>2 DEF CllInv, CllTypes, CllShape
    <2>4. CllWidth' = CllWidth /\ CllNumber' = CllNumber
      BY <2>3 DEF CllWidth, CllNumber
    <2> QED BY <1>5, <2>3, <2>4 DEF CllInv, CllTypes, CllAsks, CllAnswers, CllKnown
  <1> QED BY <1>1, <1>2, <1>3, <1>4, <1>5 DEF CllHear

LEMMA CllDropKeeps ==
    ASSUME CllInv, CllDropA \/ CllDropB
    PROVE  CllInv'
  <1>1. /\ CllShape' /\ cll'.air = cll.air
        /\ cll'.said = cll.said /\ cll'.answered = cll.answered
        /\ cll'.target = cll.target /\ cll'.asked = cll.asked
        /\ cll'.a = "DISC" \/ (cll'.a = cll.a /\ cll'.aSess = cll.aSess)
        /\ cll'.b = "DISC" \/ (cll'.b = cll.b /\ cll'.bSess = cll.bSess)
        /\ cll'.bBw = cll.bBw /\ cll'.aLad = cll.aLad
        /\ cll'.aHz = cll.aHz /\ cll'.bHz = cll.bHz
    BY DEF CllInv, CllTypes, CllShape, CllDropA, CllDropB
  <1>2. CllWidth' = CllWidth /\ CllNumber' = CllNumber
    BY <1>1 DEF CllWidth, CllNumber
  <1> QED BY <1>1, <1>2 DEF CllInv, CllTypes, CllAsks, CllAnswers, CllKnown

LEMMA CllRenameKeeps ==
    ASSUME CllInv, CllRename
    PROVE  CllInv'
  <1>1. PICK n \in CllNames, bw \in CllSettings : cll' = [cll EXCEPT !.names = n, !.bBw = bw]
    BY DEF CllRename
  <1>2. /\ CllShape' /\ cll'.air = cll.air
        /\ cll'.said = cll.said /\ cll'.answered = cll.answered
        /\ cll'.target = cll.target /\ cll'.asked = cll.asked
        /\ cll'.a = cll.a /\ cll'.aSess = cll.aSess
        /\ cll'.b = cll.b /\ cll'.bSess = cll.bSess
        /\ cll'.bBw = bw /\ cll'.aLad = cll.aLad
        /\ cll'.aHz = cll.aHz /\ cll'.bHz = cll.bHz
    BY <1>1 DEF CllInv, CllTypes, CllShape
  <1>3. CllWidth' = CllWidth /\ CllNumber' = CllNumber
    BY <1>2 DEF CllWidth, CllNumber
  <1> QED BY <1>2, <1>3 DEF CllInv, CllTypes, CllAsks, CllAnswers, CllKnown

\* The request is heard: B finds its own name in it, or does not.
LEMMA CllRequestHeard ==
    ASSUME CllInv, CllHeard, CllHearRequest
    PROVE  CllHeard'
  <1> DEFINE caller == IdnFromBytes(cll.air.caller)
             target == IdnFromBytes(cll.air.target)
             me == CllToMe(target, CllIds)
             hz == CllNegotiate(cll.bBw, cll.air.bw)
             s == CllSession(caller, CHOOSE n \in me : TRUE)
  <1>1. cll.air.target = IdnFromStr(cll.target).wire
    BY DEF CllHearRequest, CllInv, CllAsks
  <1>2. CASE cll' = [cll EXCEPT !.air = CllNoFrame]
    <2>1. cll'.names = cll.names /\ cll'.target = cll.target /\ cll'.said = cll.said
      BY <1>2 DEF CllInv, CllTypes, CllShape
    <2> QED BY <2>1 DEF CllHeard, CllTaken
  <1>3. CASE cll' # [cll EXCEPT !.air = CllNoFrame]
    <2>1. /\ IdnValid(target)
          /\ IF me = {}
             THEN cll' = [cll EXCEPT !.air = CllNoFrame, !.said = "CANCELPENDING"]
             ELSE IF hz = 0
             THEN cll' = [cll EXCEPT !.said = "REJECTEDBW", !.answered = cll.bBw,
                             !.air = [kind |-> "conrej", sess |-> s, to |-> "a"]]
             ELSE cll' = [cll EXCEPT !.said = "TARGET", !.answered = cll.bBw,
                             !.b = "IRS_CON_ACK", !.bSess = s, !.bHz = hz,
                             !.air = [kind |-> "conack", hz |-> hz, sess |-> s, to |-> "a"]]
      BY <1>3 DEF CllHearRequest
    <2>2. target.wire = IdnFromStr(cll.target).wire
      BY <1>1, <2>1, BytesKept, NobodyInvalid
    <2>3. IdnValid(IdnFromStr(cll.target))
      BY <2>1, <2>2 DEF IdnValid
    <2>4. me # {} <=> CllTaken
      BY <2>2 DEF CllToMe, CllIds, IdnSame, CllTaken
    <2> HIDE DEF caller, target, me, hz, s
    <2>5. /\ cll'.names = cll.names /\ cll'.target = cll.target
          /\ cll'.said = IF me = {} THEN "CANCELPENDING"
                         ELSE IF hz = 0 THEN "REJECTEDBW" ELSE "TARGET"
      BY <2>1 DEF CllInv, CllTypes, CllShape
    <2>6. CllTaken' <=> CllTaken
      BY <2>5 DEF CllTaken
    <2> QED BY <2>3, <2>4, <2>5, <2>6 DEF CllHeard
  <1> QED BY <1>2, <1>3

\* Nothing else changes what B was told, except a new call, of which it has
\* been told nothing yet, and a new name, which B's host gives before it is.
LEMMA CllHeardKeeps ==
    ASSUME CllInv, CllHeard, CllNext
    PROVE  CllHeard'
  <1>1. CASE cll'.names = cll.names /\ cll'.target = cll.target /\ cll'.said = cll.said
    BY <1>1 DEF CllHeard, CllTaken
  <1>2. ASSUME NEW t \in CllTargets, NEW bw \in CllSettings, CllCall(t, bw)
        PROVE  CllHeard'
    <2>1. cll'.names = cll.names /\ cll'.target = t /\ cll'.said = "nothing"
      BY <1>2 DEF CllInv, CllTypes, CllShape, CllCall
    <2> QED BY <2>1, CllAssumption DEF CllHeard
  <1>3. CASE CllRename
    <2>1. PICK n \in CllNames : /\ cll'.names = n /\ cll'.target = cll.target
                               /\ cll'.said = "nothing"
      BY <1>3 DEF CllInv, CllTypes, CllShape, CllRename
    <2> QED BY <2>1 DEF CllHeard
  <1>4. CASE CllRepeat \/ CllLose \/ CllDropA \/ CllDropB
    BY <1>1, <1>4 DEF CllInv, CllTypes, CllShape, CllRepeat, CllLose, CllDropA, CllDropB
  <1>5. CASE CllHear
    BY <1>1, <1>5 DEF CllInv, CllTypes, CllShape, CllHear
  <1> QED BY <1>2, <1>3, <1>4, <1>5, CllRequestHeard DEF CllNext

\* Every text involved names a station, so the bytes decide rightly.
LEMMA CllStationIsRight ==
    ASSUME CllHeard
    PROVE  CllRightStation
  <1>1. SUFFICES ASSUME cll.said # "nothing"
                 PROVE  CllTaken <=> \E t \in cll.names : CllDenotes(t) = CllDenotes(cll.target)
    BY DEF CllHeard, CllRightStation
  <1>2. /\ cll.target \in Seq(Nat) /\ IdnValid(IdnFromStr(cll.target))
        /\ \A t \in cll.names : t \in Seq(Nat) /\ IdnValid(IdnFromStr(t))
    BY <1>1, CllAssumption DEF CllHeard
  <1> QED BY <1>2, SameBytesSameNode DEF CllTaken

\* A call is taken by exactly the stations it was meant for, and sets up one
\* session: both ends know it by one number whatever was typed for the two
\* names (session.c, stationid.c), it runs at the widest bandwidth both
\* settings allow and is refused only if there is none (bandwidth.c), and its
\* ladder fits (datamodes.c) -- for every names, settings and number of calls,
\* with frames lost and repeated, calls given up and settings changed between.
THEOREM CallSetsUp == CllSpec => []CllSetUp
  <1>1. ASSUME CllInv /\ CllHeard, [CllNext]_cll PROVE (CllInv /\ CllHeard)'
    <2>1. CASE UNCHANGED cll
      BY <1>1, <2>1 DEF CllInv, CllTypes, CllShape, CllAsks, CllAnswers, CllKnown, CllWidth, CllNumber,
                         CllHeard, CllTaken
    <2>2. CASE CllNext
      <3>1. CllHeard'
        BY <1>1, <2>2, CllHeardKeeps
      <3>2. CllLose => CllInv'
        BY <1>1, CllAirKeeps DEF CllLose
      <3> QED BY <1>1, <2>2, <3>1, <3>2, CllCallKeeps, CllRepeatKeeps, CllRequestKeeps, CllHearKeeps,
                 CllDropKeeps, CllRenameKeeps DEF CllNext
    <2> QED BY <1>1, <2>1, <2>2
  <1>2. ASSUME CllInv /\ CllHeard PROVE CllSetUp
    <2> USE <1>2 DEF CllInv
    <2>1. CllSameSession
      BY DEF CllKnown, CllSameSession
    <2>2. cll.answered \in CllReal \cup {CllUndefined}
      BY CllAssumption DEF CllTypes, CllReal
    <2>3. cll.asked # CllUndefined => cll.asked \in CllReal
      BY CllAssumption DEF CllTypes, CllReal
    <2>4. CllWidest
      <3> DEFINE both == CllWidths(cll.asked) \cap CllWidths(cll.answered)
      <3>1. cll.asked # CllUndefined =>
                 /\ CllWidth = 0 => both = {}
                 /\ CllWidth # 0 => CllWidth \in both /\ \A w \in both : w <= CllWidth
        BY <2>2, <2>3, NegotiatesWidest DEF CllWidth
      <3> HIDE DEF both
      <3>2. cll.said = "REJECTEDBW" => both = {}
        BY <3>1 DEF CllKnown
      <3>3. (cll.a = "CONNECTED" /\ cll.b = "CONNECTED") =>
               cll.aHz = cll.bHz /\ cll.aHz \in both /\ \A w \in both : w <= cll.aHz
        BY <3>1 DEF CllKnown
      <3> QED BY <3>2, <3>3 DEF CllWidest, both
    <2>5. CllFits
      <3>1. SUFFICES ASSUME cll.a = "CONNECTED" PROVE CllFits
        BY DEF CllFits
      <3>2. cll.aHz \in CllHz
        BY <2>2, <2>3, <3>1, NegotiatesWidest DEF CllWidth, CllKnown
      <3>3. cll.aLad \in CllLadders
        BY DEF CllTypes
      <3> QED BY <3>2, <3>3, LaddersFit DEF CllFits
    <2>6. CllRightStation
      BY CllStationIsRight
    <2> QED BY <2>1, <2>4, <2>5, <2>6 DEF CllSetUp
  <1>3. CllInit => CllInv /\ CllHeard
    <2>1. CllInit => CllHeard
      BY EmptySeq DEF CllInit, CllStart, CllHeard
    <2> QED BY <2>1, CllStarts
  <1> QED BY <1>1, <1>2, <1>3, PTL DEF CllSpec
=============================================================================
