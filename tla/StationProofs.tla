---------------------------- MODULE StationProofs ---------------------------
(***************************************************************************)
(* Proofs about Station, for every ring size, set of commands and          *)
(* interleaving of the application with the modem thread: types, the       *)
(* keying line, the report of lost events, who owns the link, and the      *)
(* transmit credit.                                                        *)
(***************************************************************************)
EXTENDS Station, TLAPS

-----------------------------------------------------------------------------
(* What every function of the spine keeps *)

\* An overflow report is in the event ring.
Reported(q) == \E i \in 1..Len(q) : q[i] = "OVERFLOW"

\* A loss is reported, and as long as it is not there is a slot to do so.
Accounted(s) ==
    /\ Len(s.events) <= EventCap
    /\ s.overflow_reported => s.lost
    /\ s.lost => s.told \/ Reported(s.events)
    /\ ~Reported(s.events) => Len(s.events) < EventCap

\* The line is keyed only for a frame, on a bound device.
Keying(s) == s.ptt => s.tx_active /\ s.plat

Sound(s) == s \in Spines /\ Accounted(s) /\ Keying(s)

\* The fields that neither events nor keying touch.
Same(s, t) ==
    /\ t.link = s.link /\ t.caller = s.caller /\ t.tx_len = s.tx_len
    /\ t.plat = s.plat /\ t.run = s.run /\ t.tnc = s.tnc
    /\ t.owned = s.owned /\ t.events_congested = s.events_congested
    /\ t.tx_applied = s.tx_applied /\ t.tx_limit = s.tx_limit

\* Appending to the event ring keeps what is in it.
LEMMA AppendReported ==
    ASSUME NEW q \in Seq({"EVENT", "OVERFLOW"}),
           NEW k \in {"EVENT", "OVERFLOW"}
    PROVE  /\ Append(q, k) \in Seq({"EVENT", "OVERFLOW"})
           /\ Len(Append(q, k)) = Len(q) + 1
           /\ Reported(Append(q, k)) <=> Reported(q) \/ k = "OVERFLOW"
<1>1. Len(Append(q, k)) = Len(q) + 1 /\ Append(q, k)[Len(q) + 1] = k
      /\ \A i \in 1..Len(q) : Append(q, k)[i] = q[i]
  OBVIOUS
<1>2. 1..(Len(q) + 1) = 1..Len(q) \cup {Len(q) + 1}
  OBVIOUS
<1>3. Reported(Append(q, k)) <=> Reported(q) \/ k = "OVERFLOW"
  BY <1>1, <1>2, Zenon DEF Reported
<1> QED BY <1>1, <1>3

\* Popping removes the head only.
LEMMA TailReported ==
    ASSUME NEW q \in Seq({"EVENT", "OVERFLOW"}), q # <<>>
    PROVE  /\ Tail(q) \in Seq({"EVENT", "OVERFLOW"})
           /\ Len(Tail(q)) = Len(q) - 1
           /\ Head(q) \in {"EVENT", "OVERFLOW"}
           /\ Reported(q) => Reported(Tail(q)) \/ Head(q) = "OVERFLOW"
<1>1. Tail(q) \in Seq({"EVENT", "OVERFLOW"}) /\ Len(Tail(q)) = Len(q) - 1
      /\ Head(q) = q[1] /\ Len(q) \in Nat \ {0}
      /\ \A i \in 1..(Len(q) - 1) : Tail(q)[i] = q[i + 1]
  OBVIOUS
<1>2. Reported(q) => Reported(Tail(q)) \/ Head(q) = "OVERFLOW"
  <2>1. SUFFICES ASSUME NEW i \in 1..Len(q), q[i] = "OVERFLOW", i # 1
                 PROVE  Reported(Tail(q))
    BY <1>1 DEF Reported
  <2>2. i - 1 \in 1..Len(Tail(q)) /\ Tail(q)[i - 1] = "OVERFLOW"
    BY <1>1, <2>1
  <2> QED BY <2>2 DEF Reported
<1>3. Head(q) \in {"EVENT", "OVERFLOW"}
  BY <1>1
<1> QED BY <1>1, <1>2, <1>3

\* emit loses nothing silently and touches nothing else.
LEMMA EmitSound ==
    ASSUME NEW s, Sound(s)
    PROVE  /\ Sound(emit(s)) /\ Same(s, emit(s))
           /\ emit(s).tx_active = s.tx_active /\ emit(s).ptt = s.ptt
           /\ emit(s).told = s.told
<1> DEFINE q == s.events
           t == [s EXCEPT !.lost = TRUE, !.overflow_reported = TRUE]
<1>1. q \in Seq({"EVENT", "OVERFLOW"}) /\ Len(q) \in Nat /\ s \in Spines
  BY DEF Sound, Spines
<1>2. CASE Fits(s, 1)
  <2>1. emit(s) = [s EXCEPT !.events = Append(q, "EVENT")]
    BY <1>2 DEF emit, queue_event
  <2>2. Append(q, "EVENT") \in Seq({"EVENT", "OVERFLOW"})
        /\ Len(Append(q, "EVENT")) = Len(q) + 1
        /\ (Reported(Append(q, "EVENT")) <=> Reported(q))
    BY <1>1, AppendReported
  <2>3. emit(s) \in Spines /\ Same(s, emit(s))
        /\ emit(s).tx_active = s.tx_active /\ emit(s).ptt = s.ptt
        /\ emit(s).told = s.told /\ emit(s).lost = s.lost
        /\ emit(s).overflow_reported = s.overflow_reported
        /\ emit(s).events = Append(q, "EVENT")
    BY <1>1, <2>1, <2>2 DEF Spines, Same
  <2>4. Len(q) + 2 <= EventCap
    BY <1>1, <1>2, SizesAssumption DEF Fits
  <2>5. Accounted(emit(s))
    BY <1>1, <2>2, <2>3, <2>4, SizesAssumption DEF Accounted, Sound
  <2> QED BY <2>3, <2>5 DEF Sound, Keying, Same
<1>3. CASE ~Fits(s, 1) /\ s.overflow_reported
  <2>1. emit(s) = [s EXCEPT !.lost = TRUE]
    BY <1>3 DEF emit, overflow
  <2>2. emit(s) \in Spines /\ Same(s, emit(s))
        /\ emit(s).tx_active = s.tx_active /\ emit(s).ptt = s.ptt
        /\ emit(s).told = s.told /\ emit(s).lost
        /\ emit(s).overflow_reported = s.overflow_reported
        /\ emit(s).events = q
    BY <1>1, <2>1 DEF Spines, Same
  <2>3. Accounted(emit(s))
    BY <1>3, <2>2 DEF Accounted, Sound
  <2> QED BY <2>2, <2>3 DEF Sound, Keying, Same
<1>4. CASE ~Fits(s, 1) /\ ~s.overflow_reported
  <2>1. emit(s) = IF Len(q) < EventCap
                  THEN [t EXCEPT !.events = Append(q, "OVERFLOW")] ELSE t
    <3>1. t.events = q
      BY <1>1 DEF Spines
    <3>2. Len(q) + 0 = Len(q)
      BY <1>1
    <3> QED BY <1>4, <3>1, <3>2 DEF emit, overflow, queue_event, Fits
  <2>2. t \in Spines /\ Same(s, t) /\ t.tx_active = s.tx_active
        /\ t.ptt = s.ptt /\ t.told = s.told /\ t.lost /\ t.events = q
    BY <1>1 DEF Spines, Same
  <2>3. CASE Len(q) < EventCap
    <3>1. Append(q, "OVERFLOW") \in Seq({"EVENT", "OVERFLOW"})
          /\ Len(Append(q, "OVERFLOW")) = Len(q) + 1
          /\ Reported(Append(q, "OVERFLOW"))
      BY <1>1, AppendReported
    <3> HIDE DEF t, q
    <3>a. emit(s) = [t EXCEPT !.events = Append(q, "OVERFLOW")]
      BY <2>1, <2>3
    <3>2. emit(s) \in Spines /\ Same(s, emit(s))
          /\ emit(s).tx_active = s.tx_active /\ emit(s).ptt = s.ptt
          /\ emit(s).told = s.told /\ emit(s).lost
          /\ emit(s).events = Append(q, "OVERFLOW")
      BY SMTT(30), <2>2, <3>1, <3>a DEF Spines, Same
    <3> USE DEF q
    <3>3. Accounted(emit(s))
      BY <1>1, <2>3, <3>1, <3>2, SizesAssumption DEF Accounted, Sound
    <3> QED BY <3>2, <3>3 DEF Sound, Keying, Same
  <2>4. CASE ~(Len(q) < EventCap)
    <3>1. emit(s) = t
      BY <2>1, <2>4
    <3>2. Accounted(t)
      BY <2>2, <2>4 DEF Accounted, Sound
    <3> QED BY <2>2, <3>1, <3>2 DEF Sound, Keying, Same
  <2> QED BY <2>3, <2>4
<1> QED BY <1>2, <1>3, <1>4

\* start_tx keys through the bound device only.
LEMMA StartSound ==
    ASSUME NEW s, Sound(s)
    PROVE  /\ Sound(start_tx(s)) /\ Same(s, start_tx(s))
<1>1. /\ start_tx(s) \in Spines /\ Same(s, start_tx(s))
      /\ start_tx(s).events = s.events /\ start_tx(s).lost = s.lost
      /\ start_tx(s).told = s.told
      /\ start_tx(s).overflow_reported = s.overflow_reported
      /\ start_tx(s).tx_active
      /\ start_tx(s).ptt => s.plat
  BY DEF start_tx, Sound, Spines, Same, Keying
<1> QED BY <1>1 DEF Sound, Accounted, Keying, Same

\* Letting go of the line, and the end of a frame.
LEMMA UnkeySound ==
    ASSUME NEW s, Sound(s)
    PROVE  /\ Sound(unkey(s)) /\ Same(s, unkey(s)) /\ ~unkey(s).ptt
           /\ unkey(s).tx_active = s.tx_active
           /\ Sound(end_tx(s)) /\ Same(s, end_tx(s)) /\ ~end_tx(s).tx_active
<1>1. /\ unkey(s) \in Spines /\ Same(s, unkey(s))
      /\ unkey(s).events = s.events /\ unkey(s).lost = s.lost
      /\ unkey(s).told = s.told /\ unkey(s).tx_active = s.tx_active
      /\ unkey(s).overflow_reported = s.overflow_reported
      /\ ~unkey(s).ptt
  BY DEF unkey, Sound, Spines, Same, Keying
<1>2. /\ end_tx(s) \in Spines /\ Same(s, end_tx(s))
      /\ end_tx(s).events = s.events /\ end_tx(s).lost = s.lost
      /\ end_tx(s).told = s.told /\ ~end_tx(s).ptt /\ ~end_tx(s).tx_active
      /\ end_tx(s).overflow_reported = s.overflow_reported
  BY DEF end_tx, Sound, Spines, Same, Keying
<1> QED BY <1>1, <1>2 DEF Sound, Accounted, Keying

\* Fields that neither the event ring nor the keying line depends on.
Plain(s, t) ==
    /\ t \in Spines
    /\ t.events = s.events /\ t.lost = s.lost /\ t.told = s.told
    /\ t.overflow_reported = s.overflow_reported
    /\ t.tx_active = s.tx_active /\ t.ptt = s.ptt

LEMMA PlainSound ==
    ASSUME NEW s, NEW t, Sound(s), Plain(s, t), t.plat = s.plat
    PROVE  Sound(t)
BY DEF Sound, Plain, Accounted, Keying

\* publish_credit never admits more than the link has room for.
LEMMA PublishSound ==
    ASSUME NEW s, Sound(s)
    PROVE  LET t == publish_credit(s) IN
           /\ Sound(t) /\ Plain(s, t)
           /\ t.link = s.link /\ t.caller = s.caller /\ t.tx_len = s.tx_len
           /\ t.plat = s.plat /\ t.run = s.run /\ t.tnc = s.tnc
           /\ t.owned = s.owned /\ t.tx_applied = s.tx_applied
           /\ t.tx_limit <= s.tx_applied + room(s)
<1> DEFINE t == publish_credit(s)
<1>1. s \in Spines /\ room(s) \in Nat /\ s.tx_applied \in Nat
  BY SizesAssumption DEF Sound, Spines, room
<1>2. /\ Plain(s, t)
      /\ t.link = s.link /\ t.caller = s.caller /\ t.tx_len = s.tx_len
      /\ t.plat = s.plat /\ t.run = s.run /\ t.tnc = s.tnc
      /\ t.owned = s.owned /\ t.tx_applied = s.tx_applied
      /\ t.tx_limit = s.tx_applied + IF Withheld(s) THEN 0 ELSE room(s)
  BY <1>1 DEF publish_credit, Spines, Plain
<1>3. t.tx_limit <= s.tx_applied + room(s)
  BY <1>1, <1>2
<1> QED BY <1>2, <1>3, PlainSound

-----------------------------------------------------------------------------
(* The transmit credit *)

\* All the link could have taken by now: it never shrinks but for a guest.
Total(s) == s.tx_applied + room(s)

GuestCalls(s) == s.link = "CALLING" /\ s.caller = "GUEST"

\* What anyone may do to the spine, a guest included.
Loud(s, t) ==
    /\ Sound(t)
    /\ t.tx_applied = s.tx_applied /\ t.owned = s.owned /\ t.tnc = s.tnc

\* What everyone but a guest does to it: the limit stays or is published anew.
Steady(s, t) ==
    /\ Loud(s, t)
    /\ t.tx_len <= s.tx_len
    /\ t.tx_limit = s.tx_limit \/ t.tx_limit <= Total(t)
    /\ GuestCalls(t) => GuestCalls(s)

LEMMA SteadyTrans ==
    ASSUME NEW s, NEW t, NEW u, Sound(s), Steady(s, t), Steady(t, u)
    PROVE  Steady(s, u)
<1>1. /\ \A x \in {s, t, u} : x.tx_len \in 0..TxCap /\ x.tx_applied \in Nat
      /\ \A x \in {s, t, u} : x.tx_limit \in Nat
  BY DEF Steady, Loud, Sound, Spines
<1>2. Total(t) <= Total(u)
  BY <1>1, SizesAssumption DEF Steady, Loud, Total, room
<1>3. Total(t) \in Int /\ Total(u) \in Int
  BY <1>1, SizesAssumption DEF Total, room
<1> QED BY <1>1, <1>2, <1>3 DEF Steady, Loud

LEMMA SteadyRefl ==
    ASSUME NEW s, Sound(s)
    PROVE  Steady(s, s)
BY DEF Steady, Loud, Sound, Spines

\* Nothing but the events and the line changed.
LEMMA SameSteady ==
    ASSUME NEW s, NEW t, Sound(s), Sound(t), Same(s, t)
    PROVE  Steady(s, t)
BY DEF Steady, Loud, Sound, Spines, Same, GuestCalls

LEMMA EmitSteady ==
    ASSUME NEW s, NEW t, Sound(s), Steady(s, t)
    PROVE  Steady(s, emit(t)) /\ Steady(s, start_tx(t))
<1>1. Sound(t)
  BY DEF Steady, Loud
<1>2. Steady(t, emit(t)) /\ Steady(t, start_tx(t))
  BY <1>1, EmitSound, StartSound, SameSteady
<1> QED BY <1>2, SteadyTrans

\* Only plain fields changed.
LEMMA PlainSteady ==
    ASSUME NEW s, NEW t, Sound(s), Plain(s, t), t.plat = s.plat,
           t.tx_len <= s.tx_len, t.tx_applied = s.tx_applied,
           t.owned = s.owned, t.tnc = s.tnc, t.tx_limit = s.tx_limit,
           GuestCalls(t) => GuestCalls(s)
    PROVE  Steady(s, t)
BY PlainSound DEF Steady, Loud

\* A new state of the link, which is not a guest's call.
LEMMA LinkSteady ==
    ASSUME NEW s, Sound(s), NEW n \in 0..s.tx_len
    PROVE  /\ Steady(s, reset_to_disc(s))
           /\ Steady(s, [s EXCEPT !.tx_len = n])
           /\ Steady(s, [s EXCEPT !.link = "SESSION"])
           /\ Steady(s, [s EXCEPT !.link = "CALLING", !.caller = "OTHER"])
<1>1. s \in Spines /\ s.tx_len \in 0..TxCap /\ n \in 0..TxCap /\ n <= s.tx_len
  BY SizesAssumption DEF Sound, Spines
<1>2. ASSUME NEW t, t = [s EXCEPT !.link = "DISC", !.caller = "OTHER"]
      PROVE  Steady(s, t)
  <2>0. t \in Spines
    BY <1>1, <1>2 DEF Spines, LinkStates
  <2>1. /\ Plain(s, t) /\ t.plat = s.plat /\ t.tx_len = s.tx_len
        /\ t.tx_applied = s.tx_applied /\ t.owned = s.owned
        /\ t.tnc = s.tnc /\ t.tx_limit = s.tx_limit
    BY <1>1, <1>2, <2>0 DEF Spines, Plain
  <2>2. ~GuestCalls(t)
    BY <1>1, <1>2 DEF Spines, GuestCalls
  <2> QED BY <1>1, <2>1, <2>2, PlainSteady
<1>3. ASSUME NEW t, t = [s EXCEPT !.tx_len = n]
      PROVE  Steady(s, t)
  <2>1. /\ Plain(s, t) /\ t.plat = s.plat /\ t.tx_len <= s.tx_len
        /\ t.tx_applied = s.tx_applied /\ t.owned = s.owned
        /\ t.tnc = s.tnc /\ t.tx_limit = s.tx_limit /\ (GuestCalls(t) => GuestCalls(s))
    BY <1>1, <1>3 DEF Spines, Plain, LinkStates, GuestCalls
  <2> QED BY <1>1, <2>1, PlainSteady
<1>4. ASSUME NEW t, t = [s EXCEPT !.link = "SESSION"]
      PROVE  Steady(s, t)
  <2>1. /\ Plain(s, t) /\ t.plat = s.plat /\ t.tx_len <= s.tx_len
        /\ t.tx_applied = s.tx_applied /\ t.owned = s.owned
        /\ t.tnc = s.tnc /\ t.tx_limit = s.tx_limit /\ ~GuestCalls(t)
    BY <1>1, <1>4 DEF Spines, Plain, LinkStates, GuestCalls
  <2> QED BY <1>1, <2>1, PlainSteady
<1>5. ASSUME NEW t, t = [s EXCEPT !.link = "CALLING", !.caller = "OTHER"]
      PROVE  Steady(s, t)
  <2>0. t \in Spines
    BY <1>1, <1>5 DEF Spines, LinkStates
  <2>1. /\ Plain(s, t) /\ t.plat = s.plat /\ t.tx_len = s.tx_len
        /\ t.tx_applied = s.tx_applied /\ t.owned = s.owned
        /\ t.tnc = s.tnc /\ t.tx_limit = s.tx_limit
    BY <1>1, <1>5, <2>0 DEF Spines, Plain
  <2>2. ~GuestCalls(t)
    BY <1>1, <1>5 DEF Spines, GuestCalls
  <2> QED BY <1>1, <2>1, <2>2, PlainSteady
<1> QED BY <1>2, <1>3, <1>4, <1>5 DEF reset_to_disc

\* The host commands, as the application gives them.
LEMMA HostSteady ==
    ASSUME NEW s, Sound(s), NEW op
    PROVE  /\ Steady(s, ardop_runtime_host(s, op, "OTHER"))
           /\ Steady(s, Disconnect(s)) /\ Steady(s, Abort(s))
           /\ ~GuestCalls(Abort(s))
<1>0. 0 \in 0..s.tx_len
  BY SizesAssumption DEF Sound, Spines
<1>1. Steady(s, Connect(s, "OTHER"))
  BY <1>0, LinkSteady, EmitSteady, SteadyRefl DEF Connect
<1>2. Steady(s, Disconnect(s))
  BY EmitSteady, SteadyRefl DEF Disconnect
<1>3. Steady(s, Abort(s)) /\ ~GuestCalls(Abort(s))
  <2> DEFINE a == [s EXCEPT !.tx_len = 0]
             b == reset_to_disc(a)
  <2>1. Steady(s, a) /\ Sound(a)
    BY <1>0, LinkSteady DEF Steady, Loud
  <2>2. Steady(a, b) /\ Sound(b)
    <3> HIDE DEF a
    <3>1. 0 \in 0..a.tx_len
      BY <2>1, SizesAssumption DEF Sound, Spines
    <3> QED BY <2>1, <3>1, LinkSteady DEF Steady, Loud
  <2>3. ~GuestCalls(b)
    <3> HIDE DEF a
    <3>1. a \in Spines
      BY <2>1 DEF Sound
    <3>2. b.link = "DISC"
      BY <3>1 DEF reset_to_disc, Spines
    <3> QED BY <3>2 DEF GuestCalls
  <2> HIDE DEF a, b
  <2>4. Steady(s, b)
    BY <2>1, <2>2, SteadyTrans
  <2>5. Steady(s, emit(b)) /\ Steady(b, emit(b))
    BY <2>2, <2>4, EmitSteady, SteadyRefl
  <2>6. Abort(s) = emit(b)
    BY DEF Abort, a, b
  <2> QED BY <2>3, <2>5, <2>6 DEF Steady
<1>4. Steady(s, SendId(s))
  BY EmitSteady, SteadyRefl DEF SendId
<1> QED BY <1>1, <1>2, <1>3, <1>4, SteadyRefl DEF ardop_runtime_host

\* A record of the application that is not data.
LEMMA ApplyHostSteady ==
    ASSUME NEW s, Sound(s), NEW r
    PROVE  Steady(s, apply_host(s, r))
<1> DEFINE done == ardop_runtime_host(s, r.op, "OTHER")
<1>1. Steady(s, s) /\ Steady(s, emit(s))
  BY SteadyRefl, EmitSteady
<1>2. Steady(s, done) /\ Steady(s, emit(done))
  BY HostSteady, EmitSteady
<1> HIDE DEF done
<1> QED BY <1>1, <1>2 DEF apply_host, done

\* Queueing bytes: the queue takes what it has room for.
LEMMA SendDataLoud ==
    ASSUME NEW s, Sound(s), NEW n \in Nat
    PROVE  LET t == SendData(s, n) IN
           /\ Loud(s, t) /\ t.tx_limit = s.tx_limit /\ t.run = s.run
           /\ t.link = s.link /\ t.caller = s.caller
           /\ t.tx_len = s.tx_len + Least(n, room(s))
<1> DEFINE a == [s EXCEPT !.tx_len = @ + Least(n, room(s))]
<1>1. s \in Spines /\ s.tx_len \in 0..TxCap
  BY DEF Sound, Spines
<1>2. s.tx_len + Least(n, room(s)) \in 0..TxCap
  BY <1>1, SizesAssumption DEF Least, room
<1>3. /\ Plain(s, a) /\ a.plat = s.plat
      /\ a.tx_applied = s.tx_applied /\ a.owned = s.owned /\ a.tnc = s.tnc
      /\ a.tx_limit = s.tx_limit /\ a.run = s.run
      /\ a.link = s.link /\ a.caller = s.caller
      /\ a.tx_len = s.tx_len + Least(n, room(s))
  BY <1>1, <1>2 DEF Spines, Plain
<1>4. SendData(s, n) = emit(a)
  BY DEF SendData
<1> HIDE DEF a
<1>5. Sound(a)
  BY <1>3, PlainSound
<1>6. Sound(emit(a)) /\ Same(a, emit(a))
  BY <1>5, EmitSound
<1> QED BY <1>3, <1>4, <1>6 DEF Loud, Same

\* Data of the application: what could be taken in all never shrinks, and
\* what was applied moves on by the record or not at all.
LEMMA ApplyDataCredit ==
    ASSUME NEW s, Sound(s), NEW r, r.n \in Nat
    PROVE  LET t == apply_data(s, r) IN
           /\ Sound(t) /\ t.owned = s.owned /\ t.tnc = s.tnc
           /\ t.tx_limit = s.tx_limit /\ Total(t) >= Total(s)
           /\ GuestCalls(t) => GuestCalls(s)
           /\ \/ t.tx_applied = s.tx_applied
              \/ /\ t.tx_applied = s.tx_applied + r.n
                 /\ ~s.owned /\ s.run = "OK"
<1>1. s \in Spines /\ s.tx_len \in 0..TxCap /\ s.tx_applied \in Nat
  BY DEF Sound, Spines
<1>2. CASE s.owned \/ s.run # "OK"
  <2>1. apply_data(s, r) = s
    BY <1>2 DEF apply_data
  <2>2. Total(s) \in Int
    BY <1>1, SizesAssumption DEF Total, room
  <2> QED BY <2>1, <2>2
<1>3. CASE ~(s.owned \/ s.run # "OK")
  <2> DEFINE done == SendData(s, r.n)
             said == IF done.tx_len - s.tx_len # r.n THEN emit(done) ELSE done
             t == [said EXCEPT !.tx_applied = @ + r.n]
  <2>1. /\ Loud(s, done) /\ done.tx_limit = s.tx_limit
        /\ done.link = s.link /\ done.caller = s.caller
        /\ done.tx_len = s.tx_len + Least(r.n, room(s))
    BY SendDataLoud
  <2>2. apply_data(s, r) = t
    BY <1>3 DEF apply_data
  <2> HIDE DEF done
  <2>3. Sound(done) /\ done.tx_applied = s.tx_applied
        /\ done.owned = s.owned /\ done.tnc = s.tnc
    BY <2>1 DEF Loud
  <2>4. Sound(said) /\ Same(done, said)
    BY <2>3, EmitSound DEF Same
  <2> HIDE DEF said
  <2>5. /\ Plain(said, t) /\ t.plat = said.plat /\ t.owned = said.owned
        /\ t.tnc = said.tnc /\ t.tx_limit = said.tx_limit
        /\ t.tx_len = said.tx_len /\ t.link = said.link
        /\ t.caller = said.caller /\ t.tx_applied = said.tx_applied + r.n
    <3>1. said \in Spines /\ said.tx_applied + r.n \in Nat
      BY <2>4 DEF Sound, Spines
    <3>2. t \in Spines
      BY <3>1 DEF Spines
    <3> QED BY <3>1, <3>2 DEF Spines, Plain
  <2> HIDE DEF t
  <2>6. Sound(t)
    BY <2>4, <2>5, PlainSound
  <2>7. /\ t.owned = s.owned /\ t.tnc = s.tnc /\ t.tx_limit = s.tx_limit
        /\ t.link = s.link /\ t.caller = s.caller
        /\ t.tx_applied = s.tx_applied + r.n
        /\ t.tx_len = s.tx_len + Least(r.n, room(s))
    BY <2>1, <2>3, <2>4, <2>5 DEF Same
  <2>8. Total(t) >= Total(s)
    BY <1>1, <2>7, SizesAssumption DEF Total, Least, room
  <2> QED BY <1>3, <2>2, <2>6, <2>7, <2>8 DEF GuestCalls
<1> QED BY <1>2, <1>3

\* A swap of devices, the recovery from a fault, and a fault.
LEMMA PlatformSteady ==
    ASSUME NEW s, Sound(s), NEW b \in BOOLEAN
    PROVE  Steady(s, app_set_platform(s, b))
<1>1. CASE s.tx_active
  BY <1>1, SteadyRefl DEF app_set_platform
<1>2. CASE ~s.tx_active
  <2> DEFINE u == unkey(s)
             a == [u EXCEPT !.plat = b]
             t == publish_credit(a)
  <2>1. Sound(u) /\ Same(s, u) /\ ~u.ptt
    BY UnkeySound
  <2>2. app_set_platform(s, b) = t
    BY <1>2 DEF app_set_platform
  <2> HIDE DEF u
  <2>3. /\ Plain(u, a) /\ a.tx_len = u.tx_len
        /\ a.tx_applied = u.tx_applied /\ a.owned = u.owned /\ a.tnc = u.tnc
        /\ a.link = u.link /\ a.caller = u.caller
    BY <2>1 DEF Sound, Spines, Plain
  <2>4. Sound(a)
    BY <2>1, <2>3 DEF Sound, Plain, Accounted, Keying
  <2> HIDE DEF a
  <2>5. /\ Sound(t) /\ t.link = a.link /\ t.caller = a.caller
        /\ t.tx_len = a.tx_len /\ t.tnc = a.tnc /\ t.owned = a.owned
        /\ t.tx_applied = a.tx_applied /\ t.tx_limit <= Total(t)
    BY <2>4, PublishSound DEF Total, room
  <2> HIDE DEF t
  <2> QED BY <2>1, <2>2, <2>3, <2>5 DEF Steady, Loud, Same, GuestCalls, Sound, Spines
<1> QED BY <1>1, <1>2

\* publish_credit on its own.
LEMMA PublishSteady ==
    ASSUME NEW s, Sound(s)
    PROVE  Steady(s, publish_credit(s))
<1> DEFINE t == publish_credit(s)
<1>1. /\ Sound(t) /\ t.link = s.link /\ t.caller = s.caller
      /\ t.tx_len = s.tx_len /\ t.tnc = s.tnc /\ t.owned = s.owned
      /\ t.tx_applied = s.tx_applied /\ t.tx_limit <= Total(t)
  BY PublishSound DEF Total, room
<1> HIDE DEF t
<1>2. Steady(s, t)
  BY <1>1 DEF Steady, Loud, GuestCalls, Sound, Spines
<1> QED BY <1>2 DEF t

\* The recovery from a fault: a later loss will be reported again.
LEMMA ClearFaultSteady ==
    ASSUME NEW s, Sound(s)
    PROVE  Steady(s, app_clear_fault(s))
<1>1. CASE s.run # "FAULTED"
  BY <1>1, SteadyRefl DEF app_clear_fault
<1>2. CASE s.run = "FAULTED"
  <2>1. ASSUME NEW t,
               t = [s EXCEPT !.run = "OK", !.overflow_reported = FALSE]
        PROVE  Steady(s, publish_credit(t))
    <3>1. s \in Spines
      BY DEF Sound
    <3>2. t \in Spines
      BY <2>1, <3>1 DEF Spines
    <3>3. /\ t.events = s.events /\ t.lost = s.lost /\ t.told = s.told
          /\ ~t.overflow_reported /\ t.tx_active = s.tx_active
          /\ t.ptt = s.ptt /\ t.plat = s.plat
      BY <2>1, <3>1 DEF Spines
    <3>4. /\ t.tx_len = s.tx_len /\ t.tx_applied = s.tx_applied
          /\ t.owned = s.owned /\ t.tnc = s.tnc /\ t.tx_limit = s.tx_limit
          /\ t.link = s.link /\ t.caller = s.caller
      BY <2>1, <3>1 DEF Spines
    <3>5. Sound(t)
      BY <3>2, <3>3 DEF Sound, Accounted, Keying
    <3>6. Steady(s, t)
      BY <3>4, <3>5 DEF Steady, Loud, GuestCalls, Sound, Spines
    <3> QED BY <3>5, <3>6, PublishSteady, SteadyTrans
  <2> QED BY <1>2, <2>1 DEF app_clear_fault
<1> QED BY <1>1, <1>2

\* A fault: the session is told to disconnect, and the line let go.
LEMMA ReportFaultSteady ==
    ASSUME NEW s, Sound(s)
    PROVE  Steady(s, app_report_fault(s))
<1>1. CASE s.run # "OK"
  BY <1>1, SteadyRefl DEF app_report_fault
<1>2. CASE s.run = "OK"
  <2> DEFINE h == IF s.link # "DISC" THEN Disconnect(s) ELSE s
             e == emit(unkey(h))
  <2>1. Steady(s, h) /\ Sound(h)
    BY HostSteady, SteadyRefl DEF Steady, Loud
  <2> HIDE DEF h
  <2>2. Steady(h, unkey(h)) /\ Sound(unkey(h))
    BY <2>1, UnkeySound, SameSteady
  <2>3. Steady(h, e) /\ Sound(e)
    BY <2>1, <2>2, EmitSteady DEF Steady, Loud
  <2> HIDE DEF e
  <2>4. ASSUME NEW t, t = [e EXCEPT !.run = "FAULTED"]
        PROVE  Steady(e, publish_credit(t))
    <3>1. e \in Spines
      BY <2>3 DEF Sound
    <3>2. t \in Spines
      BY <2>4, <3>1 DEF Spines
    <3>3. /\ Plain(e, t) /\ t.plat = e.plat
          /\ t.tx_len = e.tx_len /\ t.tx_applied = e.tx_applied
          /\ t.owned = e.owned /\ t.tnc = e.tnc /\ t.tx_limit = e.tx_limit
          /\ t.link = e.link /\ t.caller = e.caller
      BY <2>4, <3>1, <3>2 DEF Spines, Plain
    <3>4. Sound(t)
      BY <2>3, <3>3, PlainSound
    <3>5. Steady(e, t)
      BY <2>3, <3>3, <3>4 DEF Steady, Loud, GuestCalls, Sound, Spines
    <3> QED BY <2>3, <3>4, <3>5, PublishSteady, SteadyTrans
  <2>5. Steady(s, e)
    BY <2>1, <2>3, SteadyTrans
  <2>6. app_report_fault(s) = publish_credit([e EXCEPT !.run = "FAULTED"])
    BY <1>2 DEF app_report_fault, e, h
  <2> QED BY <2>4, <2>5, <2>6, SteadyTrans
<1> QED BY <1>1, <1>2

\* The end of app_step.
LEMMA CongestionSteady ==
    ASSUME NEW s, Sound(s)
    PROVE  Steady(s, publish_credit(Congestion(s)))
<1>1. s \in Spines /\ s.events_congested \in BOOLEAN
  BY DEF Sound, Spines
<1>2. ASSUME NEW t, NEW b \in BOOLEAN, t = [s EXCEPT !.events_congested = b]
      PROVE  Steady(s, publish_credit(t))
  <2>1. t \in Spines
    BY <1>1, <1>2 DEF Spines
  <2>2. /\ Plain(s, t) /\ t.plat = s.plat
        /\ t.tx_len = s.tx_len /\ t.tx_applied = s.tx_applied
        /\ t.owned = s.owned /\ t.tnc = s.tnc /\ t.tx_limit = s.tx_limit
        /\ t.link = s.link /\ t.caller = s.caller
    BY <1>1, <1>2, <2>1 DEF Spines, Plain
  <2>3. Sound(t)
    BY <2>2, PlainSound
  <2>4. Steady(s, t)
    BY <2>2, <2>3 DEF Steady, Loud, GuestCalls, Sound, Spines
  <2> QED BY <2>3, <2>4, PublishSteady, SteadyTrans
<1> QED BY <1>1, <1>2 DEF Congestion

\* The application reads an event.
LEMMA PopSteady ==
    ASSUME NEW s, Sound(s), s.events # <<>>
    PROVE  Steady(s, app_events_pop(s)) /\ Same(s, app_events_pop(s))
           /\ app_events_pop(s).ptt = s.ptt
<1>1. s \in Spines /\ s.events \in Seq({"EVENT", "OVERFLOW"})
  BY DEF Sound, Spines
<1> DEFINE q == Tail(s.events)
           k == Head(s.events)
<1>2. /\ q \in Seq({"EVENT", "OVERFLOW"})
      /\ Len(q) = Len(s.events) - 1 /\ Len(s.events) \in Nat
      /\ Reported(s.events) => Reported(q) \/ k = "OVERFLOW"
  BY <1>1, TailReported
<1> HIDE DEF q, k
<1>3. ASSUME NEW t,
             t = [s EXCEPT !.events = q, !.told = s.told \/ k = "OVERFLOW"]
      PROVE  Steady(s, t) /\ Same(s, t) /\ t.ptt = s.ptt
  <2>1. t \in Spines
    BY <1>1, <1>2, <1>3 DEF Spines
  <2>2. /\ Same(s, t) /\ t.tx_active = s.tx_active /\ t.ptt = s.ptt
        /\ t.lost = s.lost /\ t.overflow_reported = s.overflow_reported
        /\ t.events = q
    BY <1>1, <1>3 DEF Spines, Same
  <2>3. t.told <=> s.told \/ k = "OVERFLOW"
    BY <1>1, <1>3 DEF Spines
  <2>4. Accounted(t)
    BY <1>2, <2>2, <2>3, SizesAssumption DEF Sound, Accounted
  <2>5. Sound(t)
    BY <2>1, <2>2, <2>4 DEF Sound, Keying, Same
  <2> QED BY <2>2, <2>5, SameSteady
<1> QED BY <1>3 DEF app_events_pop, q, k

\* What the other station and the timers make the link do.
LEMMA MovesSteady ==
    ASSUME NEW s, Sound(s), NEW t \in LinkMoves(s)
    PROVE  Steady(s, t)
<1>0. s.tx_len \in 0..TxCap /\ 0 \in 0..s.tx_len
  BY SizesAssumption DEF Sound, Spines
<1>1. Steady(s, s) /\ Steady(s, start_tx(s)) /\ Steady(s, start_tx(emit(s)))
  BY SteadyRefl, EmitSteady
<1>2. /\ Steady(s, start_tx(emit([s EXCEPT !.link = "SESSION"])))
      /\ Steady(s, emit(reset_to_disc(s)))
      /\ Steady(s, start_tx(emit(reset_to_disc(s))))
  BY <1>0, LinkSteady, EmitSteady
<1>3. ASSUME NEW n \in 0..(s.tx_len - 1)
      PROVE  Steady(s, start_tx(emit([s EXCEPT !.tx_len = n])))
  <2>1. n \in 0..s.tx_len
    BY <1>0, SizesAssumption
  <2> QED BY <2>1, LinkSteady, EmitSteady
<1> QED BY <1>1, <1>2, <1>3 DEF LinkMoves

\* Loud is what is left of Steady when a guest is at work.
LEMMA LoudTrans ==
    ASSUME NEW s, NEW t, NEW u, Loud(s, t), Loud(t, u) \/ Steady(t, u)
    PROVE  Loud(s, u)
BY DEF Loud, Steady

\* What a guest sends.
LEMMA GuestLoud ==
    ASSUME NEW s, Sound(s), NEW t \in GuestSends(s)
    PROVE  Loud(s, t)
<1>1. Loud(s, s)
  BY DEF Loud
<1>2. ASSUME NEW u, Loud(s, u)
      PROVE  Loud(s, emit(u)) /\ Loud(s, start_tx(u))
  BY <1>2, EmitSound, StartSound DEF Loud, Same
<1>3. ASSUME NEW n \in Lengths
      PROVE  Loud(s, emit(SendData(s, n)))
  <2>1. n \in Nat
    BY StationAssumption
  <2> QED BY <1>2, <2>1, SendDataLoud
<1>4. Loud(s, Connect(s, "GUEST"))
  <2>1. ASSUME NEW u, u = [s EXCEPT !.link = "CALLING", !.caller = "GUEST"]
        PROVE  Loud(s, u)
    <3>1. s \in Spines
      BY DEF Sound
    <3>2. u \in Spines
      BY <2>1, <3>1 DEF Spines, LinkStates
    <3>3. /\ Plain(s, u) /\ u.plat = s.plat /\ u.tx_applied = s.tx_applied
          /\ u.owned = s.owned /\ u.tnc = s.tnc
      BY <2>1, <3>1, <3>2 DEF Spines, Plain
    <3> QED BY <3>3, PlainSound DEF Loud
  <2> QED BY <1>1, <1>2, <2>1 DEF Connect
<1>5. Loud(s, Disconnect(s)) /\ Loud(s, Abort(s)) /\ Loud(s, SendId(s))
  BY <1>1, <1>2, HostSteady DEF Steady, SendId
<1>6. ASSUME NEW op
      PROVE  Loud(s, emit(ardop_runtime_host(s, op, "GUEST")))
  <2>1. Loud(s, ardop_runtime_host(s, op, "GUEST"))
    BY <1>1, <1>4, <1>5 DEF ardop_runtime_host
  <2> QED BY <1>2, <2>1
<1> QED BY <1>1, <1>3, <1>6 DEF GuestSends

\* The edge detector leaves the owner right, and no call of a guest that went.
LEMMA OwnerEdge ==
    ASSUME NEW s, Sound(s), NEW now \in BOOLEAN
    PROVE  LET t == owner_edge(s, now) IN
           /\ Sound(t) /\ t.owned = now /\ t.tnc = s.tnc
           /\ t.tx_applied = s.tx_applied
           /\ ~now /\ s.owned => ~GuestCalls(t)
           /\ GuestCalls(t) => GuestCalls(s)
<1>1. CASE now = s.owned
  BY <1>1 DEF owner_edge
<1>2. CASE now # s.owned
  <2>1. ASSUME NEW t, t = [s EXCEPT !.owned = now]
        PROVE  /\ Sound(t) /\ t.owned = now /\ t.tnc = s.tnc
               /\ t.tx_applied = s.tx_applied
               /\ t.link = s.link /\ t.caller = s.caller
    <3>1. s \in Spines
      BY DEF Sound
    <3>2. t \in Spines
      BY <2>1, <3>1 DEF Spines
    <3>3. /\ Plain(s, t) /\ t.plat = s.plat /\ t.tx_applied = s.tx_applied
          /\ t.owned = now /\ t.tnc = s.tnc
          /\ t.link = s.link /\ t.caller = s.caller
      BY <2>1, <3>1, <3>2 DEF Spines, Plain
    <3> QED BY <3>3, PlainSound
  <2> DEFINE t == [s EXCEPT !.owned = now]
             a == IF ~now /\ s.link = "CALLING" THEN Abort(t) ELSE t
  <2>2. /\ Sound(t) /\ t.owned = now /\ t.tnc = s.tnc
        /\ t.tx_applied = s.tx_applied
        /\ t.link = s.link /\ t.caller = s.caller
    BY <2>1
  <2>3. owner_edge(s, now) = emit(a)
    BY <1>2 DEF owner_edge
  <2> HIDE DEF t
  <2>4. Steady(t, Abort(t)) /\ ~GuestCalls(Abort(t))
    BY <2>2, HostSteady
  <2>5. /\ Sound(a) /\ a.owned = now /\ a.tnc = s.tnc
        /\ a.tx_applied = s.tx_applied
        /\ ~now => ~GuestCalls(a)
        /\ GuestCalls(a) => GuestCalls(s)
    BY <2>2, <2>4 DEF Steady, Loud, GuestCalls
  <2> HIDE DEF a
  <2>6. Sound(emit(a)) /\ Same(a, emit(a))
    BY <2>5, EmitSound
  <2> QED BY <2>3, <2>5, <2>6 DEF Same, GuestCalls
<1> QED BY <1>1, <1>2

-----------------------------------------------------------------------------
(* The steps *)

\* The steps that neither bind a transport, nor serve a guest, nor apply data.
SteadyStep ==
    \/ Application
    \/ DrainRequests \/ ApplyRequest \/ PttTest \/ PollFaults
    \/ ApplyCommand /\ Head(cmdq).kind # "DATA"
    \/ Drained \/ FrameGoesOn \/ FrameEnds \/ Receive \/ NoDevice \/ Publish

LEMMA TakenSteady ==
    ASSUME Sound(sp), Application
    PROVE  Steady(sp, sp')
BY SteadyRefl, PopSteady
   DEF Application, ReadCredit, Submit, SubmitRecord, PopEvent, Request

LEMMA ServiceSteady ==
    ASSUME Sound(sp), DrainRequests \/ ApplyRequest \/ PttTest \/ PollFaults
    PROVE  Steady(sp, sp')
<1>1. Steady(sp, sp) /\ Steady(sp, emit(sp))
  BY SteadyRefl, EmitSteady
<1>2. CASE DrainRequests
  BY <1>1, <1>2 DEF DrainRequests
<1>3. Steady(sp, teardown(sp)) /\ Steady(sp, emit(teardown(sp)))
  BY PlatformSteady, EmitSteady DEF teardown
<1>4. CASE ApplyRequest
  <2>1. CASE UNCHANGED sp
    BY <1>1, <2>1
  <2>2. CASE sp' = emit(teardown(sp))
    BY <1>3, <2>2
  <2>3. CASE sp' = emit(app_clear_fault(app_set_platform(teardown(sp), TRUE)))
    <3> DEFINE a == teardown(sp)
               b == app_set_platform(a, TRUE)
               c == app_clear_fault(b)
    <3>1. Steady(sp, a) /\ Sound(a)
      BY <1>3 DEF Steady, Loud
    <3> HIDE DEF a
    <3>2. Steady(a, b) /\ Sound(b)
      BY <3>1, PlatformSteady DEF Steady, Loud
    <3> HIDE DEF b
    <3>3. Steady(b, c)
      BY <3>2, ClearFaultSteady
    <3> HIDE DEF c
    <3>4. Steady(sp, b)
      BY <3>1, <3>2, SteadyTrans
    <3>5. Steady(sp, c)
      BY <3>3, <3>4, SteadyTrans
    <3> QED BY <2>3, <3>5, EmitSteady DEF a, b, c
  <2> QED BY <1>4, <2>1, <2>2, <2>3
          DEF ApplyRequest, HoldRequest, CloseDevices, OpenDevices
<1>5. CASE PttTest
  <2>1. ASSUME NEW t, t = [sp EXCEPT !.ptt = FALSE]
        PROVE  Steady(sp, emit(t))
    <3>1. /\ t \in Spines /\ Same(sp, t) /\ t.events = sp.events
          /\ t.lost = sp.lost /\ t.told = sp.told /\ ~t.ptt
          /\ t.overflow_reported = sp.overflow_reported
      BY <2>1 DEF Sound, Spines, Same
    <3>2. Sound(t)
      BY <3>1 DEF Sound, Accounted, Keying
    <3> QED BY <3>1, <3>2, SameSteady, EmitSteady
  <2> QED BY <1>1, <1>5, <2>1 DEF PttTest
<1>6. CASE PollFaults
  BY <1>1, <1>6, ReportFaultSteady DEF PollFaults
<1> QED BY <1>2, <1>4, <1>5, <1>6

LEMMA LoopSteady ==
    ASSUME Sound(sp),
           \/ Drained \/ FrameGoesOn \/ FrameEnds \/ Receive \/ NoDevice
           \/ Publish
    PROVE  Steady(sp, sp')
<1>1. Steady(sp, sp) /\ Steady(sp, end_tx(sp))
  BY SteadyRefl, UnkeySound, SameSteady
<1> QED BY <1>1, MovesSteady, CongestionSteady
        DEF Drained, FrameGoesOn, FrameEnds, Receive, NoDevice, Publish

\* All of them together.
LEMMA StepSteady ==
    ASSUME Sound(sp), SteadyStep
    PROVE  Steady(sp, sp')
<1>1. CASE ApplyCommand /\ Head(cmdq).kind # "DATA"
  BY <1>1, ApplyHostSteady DEF ApplyCommand, apply
<1> QED BY <1>1, TakenSteady, ServiceSteady, LoopSteady DEF SteadyStep

\* A transport is bound or unbound: nothing else of the spine is touched.
LEMMA HostStep ==
    ASSUME Sound(sp), ServeHost \/ Quit
    PROVE  /\ Sound(sp') /\ sp'.tx_applied = sp.tx_applied
           /\ sp'.owned = sp.owned /\ sp'.tx_len = sp.tx_len
           /\ sp'.tx_limit = sp.tx_limit
           /\ sp'.link = sp.link /\ sp'.caller = sp.caller
           /\ "START" \notin Server => (sp'.tnc => sp.tnc)
           /\ guest' = guest \/ guest' = FALSE
           /\ Quit => ~sp'.ptt
<1> DEFINE Kept(s, t) ==
      /\ Sound(t) /\ t.tx_applied = s.tx_applied
      /\ t.owned = s.owned /\ t.tx_len = s.tx_len
      /\ t.tx_limit = s.tx_limit /\ t.link = s.link /\ t.caller = s.caller
<1>1. ASSUME NEW s, Sound(s), NEW b \in BOOLEAN
      PROVE  Kept(s, [s EXCEPT !.tnc = b]) /\ [s EXCEPT !.tnc = b].tnc = b
  <2>0. s \in Spines
    BY <1>1 DEF Sound
  <2>1. ASSUME NEW t, t = [s EXCEPT !.tnc = b]
        PROVE  Kept(s, t) /\ t.tnc = b
    <3>1. t \in Spines
      BY <2>0, <2>1 DEF Spines
    <3>2. /\ Plain(s, t) /\ t.plat = s.plat /\ t.tx_applied = s.tx_applied
          /\ t.owned = s.owned /\ t.tx_len = s.tx_len
          /\ t.tx_limit = s.tx_limit /\ t.link = s.link
          /\ t.caller = s.caller /\ t.tnc = b
      BY <2>0, <2>1, <3>1 DEF Spines, Plain
    <3> QED BY <1>1, <3>2, PlainSound
  <2> QED BY <2>1
<1>2. ASSUME NEW s, Sound(s)
      PROVE  Kept(s, emit(s)) /\ emit(s).tnc = s.tnc
  BY <1>2, EmitSound DEF Same
<1>3. ASSUME NEW s, NEW t, NEW u, Kept(s, t), Kept(t, u)
      PROVE  Kept(s, u)
  BY <1>3
<1>4. Kept(sp, sp)
  OBVIOUS
<1> HIDE DEF Kept
<1>5. Kept(sp, HostStopped(sp)) /\ (HostStopped(sp).tnc => sp.tnc)
  <2> DEFINE f == [sp EXCEPT !.tnc = FALSE]
  <2>1. Kept(sp, f) /\ f.tnc = FALSE
    BY <1>1
  <2> HIDE DEF f
  <2>2. Kept(f, emit(f)) /\ emit(f).tnc = f.tnc
    BY <1>2, <2>1 DEF Kept
  <2>3. Kept(sp, emit(f))
    BY <1>3, <2>1, <2>2
  <2> QED BY <1>4, <2>1, <2>2, <2>3 DEF HostStopped, f
<1>6. ASSUME NEW s, Sound(s), NEW t \in HostStarted(s)
      PROVE  Kept(s, t)
  BY <1>1, <1>2, <1>6 DEF HostStarted
<1>7. CASE ServeHost
  <2>1. /\ Kept(sp, sp') /\ ("START" \notin Server => (sp'.tnc => sp.tnc))
        /\ guest' = guest \/ guest' = FALSE
    <3>1. CASE UNCHANGED <<sp, guest>>
      BY <1>4, <3>1
    <3>2. CASE "START" \in Server /\ sp' \in HostStarted(sp) /\ guest' = guest
      BY <1>6, <3>2
    <3>3. CASE sp' = HostStopped(sp) /\ guest' = FALSE
      BY <1>5, <3>3
    <3>4. CASE /\ {"START", "STOP"} \subseteq Server /\ guest' = FALSE
               /\ sp' \in HostStarted(HostStopped(sp))
      <4>1. Kept(HostStopped(sp), sp')
        BY <1>5, <1>6, <3>4 DEF Kept
      <4> QED BY <1>3, <1>5, <3>4, <4>1
    <3> QED BY <1>7, <3>1, <3>2, <3>3, <3>4 DEF ServeHost
  <2>2. ~Quit
    BY <1>7 DEF Quit, ServeHost
  <2> QED BY <2>1, <2>2 DEF Kept
<1>8. CASE Quit
  <2> DEFINE f == HostStopped(sp)
             u == unkey(f)
  <2>1. sp' = [u EXCEPT !.run = "CLOSING"] /\ guest' = FALSE
    BY <1>8 DEF Quit, app_close
  <2>2. Kept(sp, f) /\ (f.tnc => sp.tnc)
    BY <1>5
  <2> HIDE DEF f
  <2>3. Sound(u) /\ Same(f, u) /\ ~u.ptt
    BY <2>2, UnkeySound DEF Kept
  <2> HIDE DEF u
  <2>4. sp' \in Spines
    BY <2>1, <2>3 DEF Sound, Spines
  <2>5. /\ Plain(u, sp') /\ sp'.plat = u.plat /\ sp'.tx_applied = u.tx_applied
        /\ sp'.owned = u.owned /\ sp'.tx_len = u.tx_len
        /\ sp'.tx_limit = u.tx_limit /\ sp'.link = u.link
        /\ sp'.caller = u.caller /\ sp'.tnc = u.tnc
    BY <2>1, <2>3, <2>4 DEF Sound, Spines, Plain
  <2>6. Sound(sp')
    BY <2>3, <2>5, PlainSound
  <2> QED BY <2>1, <2>2, <2>3, <2>5, <2>6 DEF Same, Plain, Kept
<1> QED BY <1>7, <1>8

\* A guest is served: the spine ends up with the owner the server reports.
LEMMA GuestStep ==
    ASSUME Sound(sp), ServeGuest, guest \in BOOLEAN, guest => sp.owned
    PROVE  /\ Sound(sp') /\ sp'.tx_applied = sp.tx_applied
           /\ sp'.tnc = sp.tnc /\ sp'.owned = guest'
           /\ guest' \in BOOLEAN
           /\ GuestCalls(sp') => guest' \/ (GuestCalls(sp) /\ ~sp.owned)
<1>1. CASE ~guest /\ guest' = FALSE /\ sp' = owner_edge(sp, FALSE)
  BY <1>1, OwnerEdge
<1>2. ASSUME guest' = TRUE,
             NEW s \in GuestSends(IF guest THEN sp ELSE emit(sp)),
             sp' = owner_edge(s, TRUE)
      PROVE  /\ Sound(sp') /\ sp'.tx_applied = sp.tx_applied
             /\ sp'.tnc = sp.tnc /\ sp'.owned
  <2> DEFINE g == IF guest THEN sp ELSE emit(sp)
  <2>1. Loud(sp, g)
    BY EmitSound DEF Loud, Same
  <2> HIDE DEF g
  <2>2. Loud(g, s)
    BY <1>2, <2>1, GuestLoud DEF Loud, g
  <2>3. Loud(sp, s)
    BY <2>1, <2>2, LoudTrans
  <2> QED BY <1>2, <2>3, OwnerEdge DEF Loud
<1>3. ASSUME guest, guest' = FALSE, NEW s \in GuestSends(sp),
             sp' = owner_edge(emit(s), FALSE)
      PROVE  /\ Sound(sp') /\ sp'.tx_applied = sp.tx_applied
             /\ sp'.tnc = sp.tnc /\ ~sp'.owned /\ ~GuestCalls(sp')
  <2>1. Loud(sp, s)
    BY <1>3, GuestLoud
  <2>2. Loud(sp, emit(s)) /\ emit(s).owned
    BY <1>3, <2>1, EmitSound DEF Loud, Same
  <2> QED BY <1>3, <2>2, OwnerEdge DEF Loud
<1>4. sp'.owned \in BOOLEAN /\ sp.owned \in BOOLEAN
  <2>1. Sound(sp')
    BY <1>1, <1>2, <1>3, OwnerEdge DEF ServeGuest
  <2> QED BY <2>1 DEF Sound, Spines
<1> QED BY <1>1, <1>2, <1>3, <1>4, OwnerEdge DEF ServeGuest

\* The server is polled only while one is bound.
LEMMA TncWhenBound ==
    ASSUME SteadyStep
    PROVE  at' = "TNC" => at = "TNC" \/ sp.tnc
BY DEF SteadyStep, Application, ReadCredit, Submit, SubmitRecord,
       PopEvent, Request, DrainRequests, ApplyRequest, PttTest, PollFaults,
       ApplyCommand, Drained, FrameGoesOn, FrameEnds, Receive, NoDevice,
       Publish

\* Every step is one of these.
LEMMA Steps ==
    Next <=> \/ SteadyStep \/ ServeHost \/ Quit \/ ServeGuest
             \/ ApplyCommand /\ Head(cmdq).kind = "DATA"
BY DEF Next, SteadyStep, ModemThread

\* The records in the command ring.
LEMMA CommandTypes ==
    ASSUME TypeOK, cmdq # <<>>
    PROVE  Head(cmdq) \in Records /\ Tail(cmdq) \in Seq(Records)
           /\ Head(cmdq).n \in Nat /\ Head(cmdq).start \in Nat
<1>1. cmdq \in Seq(Records)
  BY DEF TypeOK
<1>2. Head(cmdq) \in Records /\ Tail(cmdq) \in Seq(Records)
  BY <1>1
<1> QED BY <1>2 DEF Records

-----------------------------------------------------------------------------
(* Types, the line and the events *)

\* What every step keeps: closing leaves the line down, and a guest that is
\* connected owns the link.
Inv ==
    /\ TypeOK
    /\ Sound(sp)
    /\ at = "CLOSED" => ~sp.ptt
    /\ guest => sp.owned

\* The spine stays sound, whoever moves.
LEMMA SpineSound ==
    ASSUME Inv, [Next]_vars
    PROVE  Sound(sp') /\ (at' = "CLOSED" => ~sp'.ptt)
<1>1. CASE SteadyStep
  <2>1. Sound(sp')
    BY <1>1, StepSteady DEF Inv, Steady, Loud
  <2>2. at # "CLOSED" /\ at' # "CLOSED"
    BY <1>1 DEF SteadyStep, Application, ReadCredit, Submit, SubmitRecord,
         PopEvent, Request, DrainRequests, ApplyRequest, PttTest, PollFaults,
         ApplyCommand, Drained, FrameGoesOn, FrameEnds, Receive, NoDevice,
         Publish
  <2> QED BY <2>1, <2>2
<1>2. CASE ServeHost
  <2>1. at' = "DEVICES"
    BY <1>2 DEF ServeHost
  <2> QED BY <1>2, <2>1, HostStep DEF Inv
<1>3. CASE Quit
  BY <1>3, HostStep DEF Inv
<1>4. CASE ServeGuest
  <2>1. at' = "LOOP" /\ guest \in BOOLEAN
    BY <1>4 DEF ServeGuest, Inv, TypeOK
  <2> QED BY <1>4, <2>1, GuestStep DEF Inv
<1>5. CASE ApplyCommand /\ Head(cmdq).kind = "DATA"
  <2>1. at' = "DRAIN" /\ sp' = apply_data(sp, Head(cmdq)) /\ cmdq # <<>>
    BY <1>5 DEF ApplyCommand, apply
  <2>2. Head(cmdq).n \in Nat
    BY <2>1, CommandTypes DEF Inv
  <2> QED BY <2>1, <2>2, ApplyDataCredit DEF Inv
<1>6. CASE UNCHANGED vars
  BY <1>6 DEF vars, Inv
<1> QED BY <1>1, <1>2, <1>3, <1>4, <1>5, <1>6, Steps

\* A guest that is still there still owns the link.
LEMMA StillOwns ==
    ASSUME NEW g \in BOOLEAN, NEW h, NEW o, NEW p,
           h = g \/ h = FALSE, g => o, p = o
    PROVE  h \in BOOLEAN /\ (h => p)
<1>1. CASE h = g
  BY <1>1, Zenon
<1>2. CASE h = FALSE
  BY <1>2, Zenon
<1> QED BY <1>1, <1>2

\* A guest comes only where it is served, and is gone with its transport.
LEMMA GuestOwns ==
    ASSUME Inv, [Next]_vars
    PROVE  guest' \in BOOLEAN /\ (guest' => sp'.owned)
<1>1. guest \in BOOLEAN /\ Sound(sp) /\ (guest => sp.owned)
  BY DEF Inv, TypeOK
<1>2. CASE SteadyStep
  <2>1. guest' = guest \/ guest' = FALSE
    BY <1>2 DEF SteadyStep, Application, ReadCredit, Submit, SubmitRecord,
         PopEvent, Request, DrainRequests, ApplyRequest, PttTest, PollFaults,
         ApplyCommand, Drained, FrameGoesOn, FrameEnds, Receive, NoDevice,
         Publish, GuestMayDrop
  <2>2. sp'.owned = sp.owned
    BY <1>1, <1>2, StepSteady DEF Steady, Loud
  <2> QED BY <1>1, <2>1, <2>2, StillOwns
<1>3. CASE ServeHost \/ Quit
  <2>1. guest' = guest \/ guest' = FALSE
    BY <1>1, <1>3, HostStep
  <2>2. sp'.owned = sp.owned
    BY <1>1, <1>3, HostStep
  <2> QED BY <1>1, <2>1, <2>2, StillOwns
<1>4. CASE ServeGuest
  BY <1>1, <1>4, GuestStep
<1>5. CASE ApplyCommand /\ Head(cmdq).kind = "DATA"
  <2>1. /\ sp' = apply_data(sp, Head(cmdq)) /\ cmdq # <<>>
        /\ guest' = guest \/ guest' = FALSE
    BY <1>5 DEF ApplyCommand, apply, GuestMayDrop
  <2>2. Head(cmdq).n \in Nat
    BY <2>1, CommandTypes DEF Inv
  <2>3. sp'.owned = sp.owned
    BY <1>1, <2>1, <2>2, ApplyDataCredit
  <2> QED BY <1>1, <2>1, <2>3, StillOwns
<1>6. CASE UNCHANGED vars
  BY <1>1, <1>6 DEF vars, Inv
<1> QED BY <1>2, <1>3, <1>4, <1>5, <1>6, Steps

\* The variables beside the spine keep their types.
OthersOK ==
    /\ at \in Phases
    /\ dev \in {"CLOSED", "FAILED", "RUNNING", "FAULTED"}
    /\ reqq \in Seq(Requests)
    /\ want \in [op : (Requests \ {"PTT_TEST"}) \cup {"NONE"}, test : BOOLEAN]
    /\ cmdq \in Seq(Records)
    /\ offered \in Nat /\ take \in Nat

LEMMA AppTypes ==
    ASSUME OthersOK, sp.tx_limit \in Nat, Application
    PROVE  OthersOK'
<1>1. ASSUME NEW len \in Lengths, ReadCredit(len)
      PROVE  OthersOK'
  <2>1. len \in Nat /\ app_tx_credit(sp, offered) \in Nat
    BY SizesAssumption, StationAssumption
    DEF OthersOK, app_tx_credit, Least
  <2>2. take' \in Nat
    BY <1>1, <2>1 DEF ReadCredit, Least
  <2> QED BY <1>1, <2>2 DEF ReadCredit, devices, OthersOK
<1>2. CASE Submit
  <2>1. DataRecord(take, offered) \in Records
    BY DEF OthersOK, DataRecord, Records
  <2>2. cmdq' \in Seq(Records)
    <3>1. cmdq \in Seq(Records)
      BY DEF OthersOK
    <3>2. Append(cmdq, DataRecord(take, offered)) \in Seq(Records)
      BY <2>1, <3>1
    <3> QED BY <1>2, <3>1, <3>2 DEF Submit
  <2>3. offered' \in Nat /\ take' \in Nat
    BY <1>2 DEF Submit, OthersOK
  <2> QED BY <1>2, <2>2, <2>3 DEF Submit, devices, OthersOK
<1>3. ASSUME NEW r \in Records, SubmitRecord(r)
      PROVE  OthersOK'
  BY <1>3 DEF SubmitRecord, devices, OthersOK
<1>4. ASSUME NEW op \in AppOps \cup {"NONE"}, NEW kind \in {"HOST_CMD", "HOST_LINE", "CONFIG"}
      PROVE  HostRecord(kind, op) \in Records
  BY StationAssumption DEF HostRecord, Records
<1>5. CASE PopEvent
  BY <1>5 DEF PopEvent, devices, threads, OthersOK
<1>6. ASSUME NEW op \in Requests, Request(op)
      PROVE  OthersOK'
  BY <1>6 DEF Request, threads, OthersOK
<1> QED BY <1>1, <1>2, <1>3, <1>4, <1>5, <1>6 DEF Application

LEMMA ThreadTypes ==
    ASSUME OthersOK, ModemThread \/ Quit
    PROVE  OthersOK'
<1>1. CASE DrainRequests
  <2>1. PICK op \in {"NONE", "OPEN", "CLOSE"} :
           /\ IsLast(reqq, op)
           /\ want' = [op |-> op,
                       test |-> \E i \in 1..Len(reqq) : reqq[i] = "PTT_TEST"]
    BY <1>1 DEF DrainRequests
  <2>2. op \in (Requests \ {"PTT_TEST"}) \cup {"NONE"}
    BY <2>1 DEF IsLast, OthersOK
  <2>3. (\E i \in 1..Len(reqq) : reqq[i] = "PTT_TEST") \in BOOLEAN
    OBVIOUS
  <2>4. want' \in [op : (Requests \ {"PTT_TEST"}) \cup {"NONE"}, test : BOOLEAN]
    BY <2>1, <2>2, <2>3, Zenon
  <2>5. at' \in Phases
    BY <1>1 DEF DrainRequests, Phases
  <2>6. reqq' \in Seq(Requests)
    BY <1>1 DEF DrainRequests
  <2> QED BY <1>1, <2>4, <2>5, <2>6 DEF DrainRequests, threads, OthersOK
<1>2. CASE ApplyRequest
  <2>1. /\ at' \in Phases
        /\ want' \in [op : (Requests \ {"PTT_TEST"}) \cup {"NONE"}, test : BOOLEAN]
    BY <1>2 DEF ApplyRequest, Phases, OthersOK
  <2>2. reqq' \in Seq(Requests)
    <3>1. CASE UNCHANGED reqq
      BY <3>1 DEF OthersOK
    <3>2. CASE HoldRequest
      <4>1. want.op \in Requests
        BY <3>2 DEF HoldRequest, OthersOK
      <4> QED BY <3>2, <4>1 DEF HoldRequest, OthersOK
    <3> QED BY <1>2, <3>1, <3>2 DEF ApplyRequest, CloseDevices, OpenDevices
  <2>3. dev' \in {"CLOSED", "FAILED", "RUNNING", "FAULTED"}
    BY <1>2 DEF ApplyRequest, HoldRequest, CloseDevices, OpenDevices, OthersOK
  <2> QED BY <1>2, <2>1, <2>2, <2>3 DEF ApplyRequest, threads, OthersOK
<1>3. CASE PttTest
  BY <1>3 DEF PttTest, NoWant, Phases, threads, OthersOK
<1>4. CASE PollFaults
  BY <1>4 DEF PollFaults, Phases, threads, OthersOK
<1>5. CASE ApplyCommand
  BY <1>5 DEF ApplyCommand, devices, OthersOK
<1>6. CASE ServeHost \/ Drained \/ ServeGuest \/ FrameGoesOn \/ FrameEnds
           \/ Receive \/ NoDevice \/ Publish \/ Quit
  BY <1>6 DEF ServeHost, Drained, ServeGuest, FrameGoesOn, FrameEnds, Receive,
              NoDevice, Publish, Quit, Phases, devices, threads, OthersOK
<1> QED BY <1>1, <1>2, <1>3, <1>4, <1>5, <1>6 DEF ModemThread

\* Inv is inductive.
LEMMA InvInductive ==
    Inv /\ [Next]_vars => Inv'
<1> SUFFICES ASSUME Inv, [Next]_vars
             PROVE  Inv'
  OBVIOUS
<1>1. OthersOK /\ sp.tx_limit \in Nat
  BY DEF Inv, TypeOK, OthersOK, Sound, Spines
<1>2. OthersOK'
  <2>1. CASE Application
    BY <1>1, <2>1, AppTypes
  <2>2. CASE ModemThread \/ Quit
    BY <1>1, <2>2, ThreadTypes
  <2>3. CASE UNCHANGED vars
    BY <1>1, <2>3 DEF vars, OthersOK
  <2> QED BY <2>1, <2>2, <2>3 DEF Next
<1>3. Sound(sp') /\ (at' = "CLOSED" => ~sp'.ptt)
  BY SpineSound
<1>4. guest' \in BOOLEAN /\ (guest' => sp'.owned)
  BY GuestOwns
<1>5. TypeOK'
  BY <1>2, <1>3, <1>4 DEF TypeOK, OthersOK, Sound, Accounted
<1> QED BY <1>3, <1>4, <1>5 DEF Inv

LEMMA InvInit ==
    Init => Inv
<1> SUFFICES ASSUME Init
             PROVE  Inv
  OBVIOUS
<1>1. sp \in Spines
  BY SizesAssumption DEF Init, NewSpine, Spines, LinkStates
<1>2. sp.events = <<>> /\ ~sp.lost /\ ~sp.overflow_reported /\ ~sp.ptt
  BY DEF Init, NewSpine
<1>3. Sound(sp)
  BY <1>1, <1>2, SizesAssumption DEF Sound, Accounted, Keying
<1>4. OthersOK /\ ~guest
  BY DEF Init, OthersOK, Phases, NoWant
<1>5. TypeOK
  BY <1>3, <1>4 DEF TypeOK, OthersOK, Sound, Accounted, Init
<1> QED BY <1>2, <1>3, <1>4, <1>5 DEF Inv, Init

\* Inv holds always.
LEMMA InvCorrect ==
    Spec => []Inv
BY InvInit, InvInductive, PTL DEF Spec

\* Every variable keeps its type, and the event ring never holds more than it
\* can: app_ring_write refuses what does not fit.
THEOREM TypeCorrect ==
    Spec => []TypeOK
<1>1. Inv => TypeOK
  BY DEF Inv
<1> QED BY <1>1, InvCorrect, PTL

\* The radio is keyed only for a frame on a bound device: no request, fault,
\* PTT test or shutdown leaves it keyed (app_set_platform, app_report_fault,
\* app_close), however the threads interleave.
THEOREM KeyingSafe ==
    Spec => []NeverLeftKeyed
<1>1. Inv => NeverLeftKeyed
  BY DEF Inv, Sound, Keying, NeverLeftKeyed
<1> QED BY <1>1, InvCorrect, PTL

\* The event ring loses nothing silently (emit): the slot its ordinary records
\* leave free takes the report, for a ring of any size.
THEOREM LossAccounted ==
    Spec => []LossIsReported
<1>1. Inv => LossIsReported
  BY DEF Inv, Sound, Accounted, Reported, LossIsReported
<1> QED BY <1>1, InvCorrect, PTL

\* The application's bytes and a guest's never interleave in the link's queue
\* (apply, CMD_SEND_DATA), and none is applied after a fault.
THEOREM StreamsApart ==
    Spec => NoMixing
<1>1. ASSUME Inv, [Next]_vars
      PROVE  [sp'.tx_applied # sp.tx_applied => ~guest /\ sp.run = "OK"]_vars
  <2>1. Sound(sp) /\ guest \in BOOLEAN /\ (guest => sp.owned)
    BY <1>1 DEF Inv, TypeOK
  <2>2. CASE SteadyStep
    BY <2>1, <2>2, StepSteady DEF Steady, Loud
  <2>3. CASE ServeHost \/ Quit
    BY <2>1, <2>3, HostStep
  <2>4. CASE ServeGuest
    BY <2>1, <2>4, GuestStep
  <2>5. CASE ApplyCommand /\ Head(cmdq).kind = "DATA"
    <3>1. sp' = apply_data(sp, Head(cmdq)) /\ cmdq # <<>>
      BY <2>5 DEF ApplyCommand, apply
    <3>2. Head(cmdq).n \in Nat
      BY <1>1, <3>1, CommandTypes DEF Inv
    <3>3. \/ sp'.tx_applied = sp.tx_applied
          \/ ~sp.owned /\ sp.run = "OK"
      BY <2>1, <3>1, <3>2, ApplyDataCredit
    <3> QED BY <2>1, <3>3
  <2>6. CASE UNCHANGED vars
    BY <2>6
  <2> QED BY <1>1, <2>2, <2>3, <2>4, <2>5, <2>6, Steps
<1> QED BY <1>1, InvCorrect, PTL DEF NoMixing, Spec

-----------------------------------------------------------------------------
(* Who owns the link *)

\* A call of a guest is made by the owner, and while a server is bound the
\* owner and the guest agree from serving it to the end of the loop step.
Own ==
    /\ GuestCalls(sp) => sp.owned
    /\ at = "LOOP" /\ sp.tnc => sp.owned = guest

LEMMA OwnInductive ==
    Inv /\ Own /\ [Next]_vars => Own'
<1> SUFFICES ASSUME Inv, Own, [Next]_vars
             PROVE  Own'
  OBVIOUS
<1>1. /\ Sound(sp) /\ guest \in BOOLEAN /\ (guest => sp.owned)
      /\ sp.owned \in BOOLEAN /\ sp.tnc \in BOOLEAN
  BY DEF Inv, TypeOK, Sound, Spines
<1>2. /\ sp'.owned \in BOOLEAN /\ sp'.tnc \in BOOLEAN
      /\ guest' \in BOOLEAN /\ (guest' => sp'.owned)
  BY SpineSound, GuestOwns DEF Sound, Spines
<1>3. CASE SteadyStep
  <2>1. /\ sp'.owned = sp.owned /\ sp'.tnc = sp.tnc
        /\ GuestCalls(sp') => GuestCalls(sp)
    BY <1>1, <1>3, StepSteady DEF Steady, Loud
  <2>2. at' = "LOOP" => \/ at = "LOOP" /\ guest' = guest
                        \/ ~sp.tnc
    BY <1>3 DEF SteadyStep, Application, ReadCredit, Submit, SubmitRecord,
         PopEvent, Request, DrainRequests, ApplyRequest, PttTest, PollFaults,
         ApplyCommand, Drained, FrameGoesOn, FrameEnds, Receive, NoDevice,
         Publish
  <2> QED BY <1>1, <2>1, <2>2 DEF Own
<1>4. CASE ServeHost \/ Quit
  <2>1. sp'.owned = sp.owned /\ (GuestCalls(sp') => GuestCalls(sp))
    BY <1>1, <1>4, HostStep DEF GuestCalls
  <2>2. at' # "LOOP"
    BY <1>4 DEF ServeHost, Quit
  <2> QED BY <1>1, <1>2, <2>1, <2>2 DEF Own
<1>5. CASE ServeGuest
  <2>1. /\ sp'.owned = guest'
        /\ GuestCalls(sp') => guest' \/ (GuestCalls(sp) /\ ~sp.owned)
    BY <1>1, <1>5, GuestStep
  <2>2. GuestCalls(sp') => sp'.owned
    BY <1>1, <1>2, <2>1 DEF Own
  <2> QED BY <2>1, <2>2 DEF Own
<1>6. CASE ApplyCommand /\ Head(cmdq).kind = "DATA"
  <2>1. sp' = apply_data(sp, Head(cmdq)) /\ cmdq # <<>> /\ at' = "DRAIN"
    BY <1>6 DEF ApplyCommand, apply
  <2>2. Head(cmdq).n \in Nat
    BY <2>1, CommandTypes DEF Inv
  <2>3. /\ sp'.owned = sp.owned
        /\ GuestCalls(sp') => GuestCalls(sp)
    BY <1>1, <2>1, <2>2, ApplyDataCredit
  <2> QED BY <1>1, <2>1, <2>3 DEF Own
<1>7. CASE UNCHANGED vars
  BY <1>7 DEF vars, Own, GuestCalls
<1> QED BY <1>3, <1>4, <1>5, <1>6, <1>7, Steps

\* While a server is bound, app_step's idea of who owns the link is right
\* whenever the loop runs, however clients come and go and the server is
\* stopped and started.
THEOREM OwnershipFollows ==
    Spec => []OwnedByPresence
<1>1. Init => Own
  BY DEF Init, NewSpine, Own, GuestCalls
<1>2. Inv /\ Own /\ [Next]_vars => Own'
  BY OwnInductive
<1>3. Own => OwnedByPresence
  BY DEF Own, OwnedByPresence
<1> QED BY <1>1, <1>2, <1>3, InvCorrect, PTL DEF Spec

\* And a call that nobody has answered ends with the guest that placed it.
THEOREM NoOrphanCalls ==
    Spec => []GuestCallsEnd
<1>1. Init => Own
  BY DEF Init, NewSpine, Own, GuestCalls
<1>2. Inv /\ Own /\ [Next]_vars => Own'
  BY OwnInductive
<1>3. Own => GuestCallsEnd
  BY DEF Own, GuestCalls, GuestCallsEnd
<1> QED BY <1>1, <1>2, <1>3, InvCorrect, PTL DEF Spec

-----------------------------------------------------------------------------
(* The credit *)

\* The data records in the ring are consecutive pieces of what was offered,
\* none of it applied yet.
InRing(q, applied, end) ==
    /\ \A i \in 1..Len(q) : q[i].kind = "DATA" =>
          applied <= q[i].start /\ q[i].start + q[i].n <= end
    /\ \A i, j \in 1..Len(q) :
          (i < j /\ q[i].kind = "DATA" /\ q[j].kind = "DATA")
              => q[i].start + q[i].n <= q[j].start

\* Without a transport there is no guest; the limit, and all that was or will
\* be offered under it, is within what the link can take in all.
Credit ==
    /\ at # "TNC" /\ ~sp.tnc /\ ~guest
    /\ sp.tx_applied <= offered
    /\ sp.tx_limit <= Total(sp)
    /\ offered + take <= Total(sp)
    /\ InRing(cmdq, sp.tx_applied, offered)

LEMMA RecordTypes ==
    ASSUME NEW q \in Seq(Records)
    PROVE  \A i \in 1..Len(q) : q[i].start \in Nat /\ q[i].n \in Nat
<1>1. \A i \in 1..Len(q) : q[i] \in Records
  OBVIOUS
<1>2. \A r \in Records : r.start \in Nat /\ r.n \in Nat
  BY DEF Records
<1> QED BY <1>1, <1>2

\* A record written at the end of the ring starts where the last one ended.
LEMMA RingAppend ==
    ASSUME NEW q \in Seq(Records), NEW a \in Nat, NEW e \in Nat,
           InRing(q, a, e), a <= e, NEW r \in Records, NEW f \in Nat, e <= f,
           r.kind = "DATA" => r.start = e /\ r.n = f - e
    PROVE  InRing(Append(q, r), a, f)
<1> DEFINE p == Append(q, r)
<1>1. /\ Len(p) = Len(q) + 1 /\ p[Len(q) + 1] = r /\ Len(q) \in Nat
      /\ \A i \in 1..Len(q) : p[i] = q[i]
  OBVIOUS
<1>2. \A i \in 1..Len(q) : q[i].start \in Nat /\ q[i].n \in Nat
  BY RecordTypes
<1>3. r.start \in Nat /\ r.n \in Nat
  BY DEF Records
<1> HIDE DEF p
<1>4. ASSUME NEW i \in 1..Len(p), p[i].kind = "DATA"
      PROVE  a <= p[i].start /\ p[i].start + p[i].n <= f
  <2>1. CASE i \in 1..Len(q)
    <3>1. a <= q[i].start /\ q[i].start + q[i].n <= e /\ p[i] = q[i]
      BY <1>1, <1>4, <2>1 DEF InRing
    <3>2. q[i].start \in Nat /\ q[i].n \in Nat
      BY <1>2, <2>1
    <3> QED BY <3>1, <3>2
  <2>2. CASE i = Len(q) + 1
    BY <1>1, <1>3, <1>4, <2>2
  <2> QED BY <1>1, <2>1, <2>2
<1>5. ASSUME NEW i \in 1..Len(p), NEW j \in 1..Len(p), i < j,
             p[i].kind = "DATA", p[j].kind = "DATA"
      PROVE  p[i].start + p[i].n <= p[j].start
  <2>0. i \in 1..Len(q)
    BY <1>1, <1>5
  <2>1. CASE j \in 1..Len(q)
    BY <1>1, <1>5, <2>0, <2>1 DEF InRing
  <2>2. CASE j = Len(q) + 1
    BY <1>1, <1>5, <2>0, <2>2 DEF InRing
  <2> QED BY <1>1, <2>1, <2>2
<1>6. InRing(p, a, f)
  BY <1>4, <1>5 DEF InRing
<1> QED BY <1>6 DEF p

\* Taking the head leaves the others, all of them behind its end.
LEMMA RingTail ==
    ASSUME NEW q \in Seq(Records), NEW a \in Nat, NEW e \in Nat,
           InRing(q, a, e), q # <<>>, NEW b \in Nat,
           \/ b = a
           \/ Head(q).kind = "DATA" /\ b = a + Head(q).n
    PROVE  InRing(Tail(q), b, e)
<1> DEFINE p == Tail(q)
<1>1. /\ Len(p) = Len(q) - 1 /\ Len(q) \in Nat \ {0} /\ Head(q) = q[1]
      /\ \A i \in 1..(Len(q) - 1) : p[i] = q[i + 1]
  OBVIOUS
<1>2. \A i \in 1..Len(q) : q[i].start \in Nat /\ q[i].n \in Nat
  BY RecordTypes
<1> HIDE DEF p
<1>3. ASSUME NEW i \in 1..Len(p), p[i].kind = "DATA"
      PROVE  b <= p[i].start /\ p[i].start + p[i].n <= e
  <2>1. i + 1 \in 1..Len(q) /\ p[i] = q[i + 1] /\ 1 \in 1..Len(q) /\ 1 < i + 1
    BY <1>1
  <2>2. a <= p[i].start /\ p[i].start + p[i].n <= e
    BY <1>3, <2>1 DEF InRing
  <2>3. CASE b = a
    BY <2>2, <2>3
  <2>4. CASE Head(q).kind = "DATA" /\ b = a + Head(q).n
    <3>1. a <= q[1].start /\ q[1].start + q[1].n <= p[i].start
      BY <1>1, <1>3, <2>1, <2>4 DEF InRing
    <3>2. q[1].start \in Nat /\ q[1].n \in Nat /\ p[i].start \in Nat
      BY <1>2, <2>1
    <3>3. b = a + q[1].n
      BY <1>1, <2>4
    <3>4. b <= p[i].start
      BY <3>1, <3>2, <3>3
    <3> QED BY <2>2, <3>4
  <2> QED BY <2>3, <2>4
<1>4. ASSUME NEW i \in 1..Len(p), NEW j \in 1..Len(p), i < j,
             p[i].kind = "DATA", p[j].kind = "DATA"
      PROVE  p[i].start + p[i].n <= p[j].start
  <2>1. /\ i + 1 \in 1..Len(q) /\ j + 1 \in 1..Len(q) /\ i + 1 < j + 1
        /\ p[i] = q[i + 1] /\ p[j] = q[j + 1]
    BY <1>1, <1>4
  <2> QED BY <1>4, <2>1 DEF InRing
<1>5. InRing(p, b, e)
  BY <1>3, <1>4 DEF InRing
<1> QED BY <1>5 DEF p

\* The sums that a steady step keeps.
LEMMA SteadyTotal ==
    ASSUME NEW s, NEW t, Sound(s), Steady(s, t), s.tx_limit <= Total(s)
    PROVE  /\ Total(s) <= Total(t) /\ t.tx_limit <= Total(t)
           /\ Total(s) \in Nat /\ Total(t) \in Nat
<1>1. /\ s.tx_len \in 0..TxCap /\ s.tx_applied \in Nat /\ s.tx_limit \in Nat
      /\ t.tx_len \in 0..TxCap /\ t.tx_applied \in Nat /\ t.tx_limit \in Nat
      /\ t.tx_len <= s.tx_len /\ t.tx_applied = s.tx_applied
      /\ t.tx_limit = s.tx_limit \/ t.tx_limit <= Total(t)
  BY DEF Steady, Loud, Sound, Spines
<1>2. /\ Total(s) <= Total(t)
      /\ Total(s) \in Nat /\ Total(t) \in Nat
  BY <1>1, SizesAssumption DEF Total, room
<1> QED BY <1>1, <1>2

\* What the application does: it offers within the limit it has read.
LEMMA OfferCredit ==
    ASSUME Inv, Credit, Application
    PROVE  /\ sp'.tx_applied <= offered'
           /\ offered' + take' <= Total(sp')
           /\ InRing(cmdq', sp'.tx_applied, offered')
<1>1. /\ Sound(sp) /\ offered \in Nat /\ take \in Nat /\ cmdq \in Seq(Records)
      /\ sp.tx_limit \in Nat /\ sp.tx_applied \in Nat
  BY DEF Inv, TypeOK, Sound, Spines
<1>2. /\ Total(sp) <= Total(sp') /\ Total(sp) \in Nat /\ Total(sp') \in Nat
      /\ sp'.tx_applied = sp.tx_applied
  BY <1>1, TakenSteady, SteadyTotal DEF Credit, Steady, Loud
<1>3. /\ sp.tx_applied <= offered /\ sp.tx_limit <= Total(sp)
      /\ offered + take <= Total(sp)
      /\ InRing(cmdq, sp.tx_applied, offered)
  BY DEF Credit
<1>4. ASSUME NEW len \in Lengths, ReadCredit(len)
      PROVE  offered' + take' <= Total(sp') /\ UNCHANGED <<cmdq, offered>>
  <2>1. len \in Nat
    BY StationAssumption
  <2>2. take' \in Nat /\ (take' = 0 \/ offered + take' <= sp.tx_limit)
    BY <1>1, <1>4, <2>1, SizesAssumption
    DEF ReadCredit, app_tx_credit, Least
  <2> QED BY <1>1, <1>2, <1>3, <1>4, <2>2 DEF ReadCredit
<1>5. CASE Submit
  <2>1. CASE /\ cmdq' = Append(cmdq, DataRecord(take, offered))
             /\ offered' = offered + take /\ take' = 0
    <3>1. /\ DataRecord(take, offered) \in Records
          /\ DataRecord(take, offered).start = offered
          /\ DataRecord(take, offered).n = offered + take - offered
      BY <1>1 DEF DataRecord, Records
    <3>2. offered + take \in Nat /\ offered <= offered + take
      BY <1>1
    <3>3. InRing(Append(cmdq, DataRecord(take, offered)), sp.tx_applied,
                 offered + take)
      BY <1>1, <1>3, <3>1, <3>2, RingAppend
    <3>4. sp'.tx_applied <= offered' /\ offered' + take' <= Total(sp')
      BY <1>1, <1>2, <1>3, <2>1
    <3> QED BY <1>2, <2>1, <3>3, <3>4
  <2>2. CASE UNCHANGED <<cmdq, offered>> /\ take' = 0
    BY <1>1, <1>2, <1>3, <2>2
  <2> QED BY <1>5, <2>1, <2>2 DEF Submit
<1>6. ASSUME NEW r \in Records, r.kind # "DATA", SubmitRecord(r)
      PROVE  /\ UNCHANGED <<offered, take>>
             /\ InRing(cmdq', sp'.tx_applied, offered)
  <2>1. InRing(Append(cmdq, r), sp.tx_applied, offered)
    BY <1>1, <1>3, <1>6, RingAppend
  <2> QED BY <1>2, <1>6, <2>1 DEF SubmitRecord
<1>7. ASSUME NEW op \in AppOps \cup {"NONE"},
             NEW kind \in {"HOST_CMD", "HOST_LINE", "CONFIG"}
      PROVE  HostRecord(kind, op) \in Records
             /\ HostRecord(kind, op).kind # "DATA"
  BY StationAssumption DEF HostRecord, Records
<1>8. ASSUME UNCHANGED <<cmdq, offered>>, offered' + take' <= Total(sp')
      PROVE  /\ sp'.tx_applied <= offered'
             /\ offered' + take' <= Total(sp')
             /\ InRing(cmdq', sp'.tx_applied, offered')
  BY <1>2, <1>3, <1>8
<1>9. ASSUME UNCHANGED threads
      PROVE  UNCHANGED <<cmdq, offered>> /\ offered' + take' <= Total(sp')
  BY <1>1, <1>2, <1>3, <1>9 DEF threads
<1>10. CASE \E len \in Lengths : ReadCredit(len)
  BY <1>4, <1>8, <1>10
<1>11. CASE PopEvent \/ \E op \in Requests : Request(op)
  BY <1>8, <1>9, <1>11 DEF PopEvent, Request
<1>12. ASSUME NEW r \in Records, r.kind # "DATA", SubmitRecord(r)
       PROVE  /\ sp'.tx_applied <= offered'
              /\ offered' + take' <= Total(sp')
              /\ InRing(cmdq', sp'.tx_applied, offered')
  BY <1>1, <1>2, <1>3, <1>6, <1>12
<1> QED BY <1>5, <1>7, <1>10, <1>11, <1>12 DEF Application

\* Without START there is never a transport, so nobody else fills the queue.
LEMMA CreditInductive ==
    ASSUME "START" \notin Server
    PROVE  Inv /\ Credit /\ [Next]_vars => Credit'
<1> SUFFICES ASSUME Inv, Credit, [Next]_vars
             PROVE  Credit'
  OBVIOUS
<1>1. /\ Sound(sp) /\ offered \in Nat /\ take \in Nat /\ cmdq \in Seq(Records)
      /\ sp.tx_limit \in Nat /\ sp.tx_applied \in Nat /\ guest \in BOOLEAN
      /\ sp.owned \in BOOLEAN /\ sp.tnc \in BOOLEAN
      /\ sp.tx_len \in 0..TxCap
  BY DEF Inv, TypeOK, Sound, Spines
<1>2. /\ at # "TNC" /\ ~sp.tnc /\ ~guest
      /\ sp.tx_applied <= offered /\ sp.tx_limit <= Total(sp)
      /\ offered + take <= Total(sp)
      /\ InRing(cmdq, sp.tx_applied, offered)
  BY DEF Credit
<1>3. CASE SteadyStep
  <2>1. /\ Total(sp) <= Total(sp') /\ sp'.tx_limit <= Total(sp')
        /\ Total(sp) \in Nat /\ Total(sp') \in Nat
        /\ sp'.tx_applied = sp.tx_applied /\ sp'.tnc = sp.tnc
    BY <1>1, <1>2, <1>3, StepSteady, SteadyTotal DEF Steady, Loud
  <2>0. at' # "TNC"
    BY <1>2, <1>3, TncWhenBound
  <2>2. ~guest'
    BY <1>2, <1>3 DEF SteadyStep, Application, ReadCredit, Submit,
         SubmitRecord, PopEvent, Request, DrainRequests, ApplyRequest, PttTest,
         PollFaults, ApplyCommand, Drained, FrameGoesOn, FrameEnds, Receive,
         NoDevice, Publish, GuestMayDrop
  <2>3. CASE Application
    BY <1>2, <2>0, <2>1, <2>2, <2>3, OfferCredit DEF Credit
  <2>4. CASE ApplyCommand
    <3>1. cmdq # <<>> /\ cmdq' = Tail(cmdq) /\ UNCHANGED <<offered, take>>
      BY <2>4 DEF ApplyCommand
    <3>2. InRing(cmdq', sp'.tx_applied, offered')
      BY <1>1, <1>2, <2>1, <3>1, RingTail
    <3>3. offered' + take' <= Total(sp')
      BY <1>1, <1>2, <2>1, <3>1
    <3> QED BY <1>2, <2>0, <2>1, <2>2, <3>1, <3>2, <3>3 DEF Credit
  <2>5. CASE UNCHANGED threads
    <3>1. offered' + take' <= Total(sp')
      BY <1>1, <1>2, <2>1, <2>5 DEF threads
    <3> QED BY <1>2, <2>0, <2>1, <2>2, <2>5, <3>1 DEF Credit, threads
  <2> QED BY <1>3, <2>3, <2>4, <2>5
       DEF SteadyStep, DrainRequests, ApplyRequest, PttTest, PollFaults,
         Drained, FrameGoesOn, FrameEnds, Receive, NoDevice, Publish
<1>4. CASE ServeHost \/ Quit
  <2>1. /\ sp'.tx_applied = sp.tx_applied /\ sp'.tx_len = sp.tx_len
        /\ sp'.tx_limit = sp.tx_limit /\ ~sp'.tnc
    BY <1>1, <1>2, <1>4, HostStep
  <2>2. UNCHANGED threads /\ ~guest' /\ at' # "TNC"
    BY <1>1, <1>2, <1>4, HostStep DEF ServeHost, Quit
  <2>3. Total(sp') = Total(sp)
    BY <2>1 DEF Total, room
  <2> QED BY <1>2, <2>1, <2>2, <2>3 DEF Credit, threads
<1>5. CASE ApplyCommand /\ Head(cmdq).kind = "DATA"
  <2>1. /\ sp' = apply_data(sp, Head(cmdq)) /\ cmdq # <<>>
        /\ cmdq' = Tail(cmdq) /\ UNCHANGED <<offered, take>>
        /\ guest' = guest \/ guest' = FALSE
    BY <1>5 DEF ApplyCommand, apply, GuestMayDrop
  <2>2. Head(cmdq).n \in Nat /\ Head(cmdq).start \in Nat
    BY <2>1, CommandTypes DEF Inv
  <2>3. /\ Sound(sp') /\ sp'.tnc = sp.tnc /\ sp'.tx_limit = sp.tx_limit
        /\ Total(sp') >= Total(sp)
        /\ \/ sp'.tx_applied = sp.tx_applied
           \/ sp'.tx_applied = sp.tx_applied + Head(cmdq).n
    BY <1>1, <2>1, <2>2, ApplyDataCredit
  <2>4. /\ sp'.tx_applied \in Nat /\ sp'.tx_len \in 0..TxCap
    BY <2>3 DEF Sound, Spines
  <2>5. Total(sp') \in Int /\ Total(sp) \in Int
    BY <1>1, <2>4, SizesAssumption DEF Total, room
  <2>6. InRing(cmdq', sp'.tx_applied, offered')
    BY <1>1, <1>2, <1>5, <2>1, <2>3, <2>4, RingTail
  <2>7. /\ sp.tx_applied <= Head(cmdq).start
        /\ Head(cmdq).start + Head(cmdq).n <= offered
    <3>1. 1 \in 1..Len(cmdq) /\ Head(cmdq) = cmdq[1]
      BY <1>1, <2>1
    <3> QED BY <1>2, <1>5, <3>1 DEF InRing
  <2>8. sp'.tx_applied <= offered'
    BY <1>1, <1>2, <2>1, <2>2, <2>3, <2>7
  <2>9. sp'.tx_limit <= Total(sp') /\ offered' + take' <= Total(sp')
    BY <1>1, <1>2, <2>1, <2>3, <2>5
  <2>10. ~guest' /\ ~sp'.tnc /\ at' # "TNC"
    BY <1>2, <1>5, <2>1, <2>3 DEF ApplyCommand
  <2> QED BY <2>6, <2>8, <2>9, <2>10 DEF Credit
<1>6. CASE ServeGuest
  <2>1. at = "TNC"
    BY <1>6 DEF ServeGuest
  <2> QED BY <1>2, <2>1
<1>7. CASE UNCHANGED vars
  BY <1>7 DEF vars, Credit, Total, room
<1> QED BY <1>3, <1>4, <1>5, <1>6, <1>7, Steps

\* "The credit makes that unreachable" (apply, CMD_SEND_DATA), for every size
\* of the queue, the chunk and the ring, and every delay between app_tx_submit's
\* reading of the limit and its writing of the record: without a TNC transport,
\* data that is applied fits, through congestion, device changes and faults.
THEOREM CreditSuffices ==
    ASSUME "START" \notin Server
    PROVE  Spec => []NoTruncation
<1>1. Init => Credit
  BY SizesAssumption DEF Init, NewSpine, Credit, Total, room, InRing
<1>2. Inv /\ Credit /\ [Next]_vars => Credit'
  BY CreditInductive
<1>3. Inv /\ Credit => NoTruncation
  <2> SUFFICES ASSUME Inv, Credit, cmdq # <<>>, Head(cmdq).kind = "DATA"
               PROVE  Head(cmdq).n <= room(sp)
    BY DEF NoTruncation
  <2>1. Head(cmdq).n \in Nat /\ Head(cmdq).start \in Nat
    BY CommandTypes DEF Inv
  <2>2. /\ sp.tx_len \in 0..TxCap /\ sp.tx_applied \in Nat
        /\ cmdq \in Seq(Records) /\ offered \in Nat /\ take \in Nat
    BY DEF Inv, TypeOK, Spines
  <2>3. 1 \in 1..Len(cmdq) /\ Head(cmdq) = cmdq[1]
    BY <2>2
  <2>4. /\ sp.tx_applied <= Head(cmdq).start
        /\ Head(cmdq).start + Head(cmdq).n <= offered
        /\ offered + take <= sp.tx_applied + room(sp)
    BY <2>3 DEF Credit, InRing, Total
  <2> QED BY <2>1, <2>2, <2>4, SizesAssumption DEF room
<1> QED BY <1>1, <1>2, <1>3, InvCorrect, PTL DEF Spec

\* Whoever is connected owns the link, and no call is left to nobody, for
\* every history of the server and its guests (tnc_owner_edge, app_step).
THEOREM GuestRulesHold == Spec => []GuestRules
<1>1. OwnedByPresence /\ GuestCallsEnd => GuestRules
  BY DEF GuestRules
<1> QED BY OwnershipFollows, NoOrphanCalls, <1>1, PTL
=============================================================================
