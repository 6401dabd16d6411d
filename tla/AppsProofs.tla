----------------------------- MODULE AppsProofs -----------------------------
(***************************************************************************)
(* Proofs about the programs of a station: the scripted driver, the        *)
(* application protocol, the byte pipe, broadcast chat, and file names.    *)
(***************************************************************************)
EXTENDS Script, Asp, AspWire, Cat, FecChat, Induction, FiniteSetTheorems, SequenceTheorems,
        TLAPS

-----------------------------------------------------------------------------
(* Script: a driver at whatever instant, with whatever program.            *)

ScrSpec == ScrInit /\ [][ScrNext]_scrVars

ScrDirectives == [op : ScrOps, n : Nat, secs : Nat, text : ScrTexts]

ScrStates ==
    [prog : ScrPrograms, pc : Nat, started : BOOLEAN, left : Nat,
     want : ScrTexts, matched : BOOLEAN, mark : Nat, txlen : Nat, txdone : Nat,
     txtotal : Nat, arrived : BOOLEAN, failed : BOOLEAN, done : BOOLEAN,
     idle : Nat]

ScrPlants == [credit : Nat, sent : Nat, rx : Nat, drops : BOOLEAN,
              lost : BOOLEAN, dead : BOOLEAN]

\* The state and its parts are what they should be.
ScrTypes ==
    /\ scr \in ScrStates
    /\ scr.pc \in 1..Len(scr.prog) + 1
    /\ scrPlant \in ScrPlants
    /\ scrTurn \in {"pump", "step"}

\* Every byte the spine took is one of a @send that is over or of the one at
\* hand, which has more to place.
ScrBooked ==
    /\ scrPlant.rx <= scrPlant.sent
    /\ scrPlant.sent = scr.txtotal + IF ~ScrEnd /\ Directive.op = "send"
                                     THEN Placed(scr) ELSE 0
    /\ (~ScrEnd /\ Directive.op = "send" /\ scr.started) => scr.txdone < scr.txlen

\* What is left of a deadline and the time nothing moved make up the patience,
\* but for a byte @wait rx= has not seen yet.
ScrPatient ==
    /\ scr.mark <= scrPlant.rx
    /\ (~ScrEnd /\ Directive.op = "send" /\ scr.started) =>
          scr.left + scr.idle >= ScrTimeout
    /\ (~ScrEnd /\ Directive.op = "waitrx" /\ scr.started /\ scr.mark = scrPlant.rx) =>
          scr.left + scr.idle >= Patience(Directive)
    /\ (~ScrEnd /\ Directive.op = "waitrx" /\ scrTurn = "step") =>
          scr.started /\ scr.mark = scrPlant.rx

\* The last line is passed by the pump, and nothing happens before the end.
ScrPassed ==
    /\ scrTurn = "step" => ~ScrEnd
    /\ scr.failed => scr.done
    /\ (scr.done /\ ~scr.failed) => ScrEnd
    /\ (ScrEnd /\ scr.prog # <<>> /\ scr.prog[Len(scr.prog)].op = "expectrx") =>
          scrPlant.rx = scr.txtotal

ScrInv == ScrTypes /\ ScrBooked /\ ScrPatient /\ ScrPassed

LEMMA ScrDirectiveTyped ==
    ASSUME ScrTypes, ~ScrEnd
    PROVE  /\ Directive \in ScrDirectives
           /\ scr.pc \in 1..Len(scr.prog)
           /\ scr.prog \in Seq(ScrDirectives)
  <1>1. scr.prog \in Seq(ScrDirectives)
    BY ScrAssumption DEF ScrTypes, ScrStates, ScrDirectives
  <1>2. Len(scr.prog) \in Nat
    BY <1>1
  <1>3. scr.pc \in 1..Len(scr.prog)
    BY <1>2 DEF ScrTypes, ScrEnd, ScrStates
  <1> QED BY <1>1, <1>3 DEF Directive

\* What a directive makes of the script's state, in terms of what the
\* invariant speaks about.
ScrKeeps(s, r) ==
    /\ r.how \in {"next", "fail", "wait"}
    /\ r.s \in ScrStates
    /\ r.s.prog = s.prog /\ r.s.pc = s.pc
    /\ r.s.failed = s.failed /\ r.s.done = s.done

\* @send: the bytes taken are added up, and it waits with its patience whole or
\* gives up with none left.
ScrSends(s, r, n, credit) ==
    /\ Placed(r.s) - Placed(s) \in 0..credit
    /\ r.s.mark = s.mark
    /\ r.how = "next" => r.s.started /\ r.s.txtotal = s.txtotal + r.s.txdone
    /\ r.how # "next" => r.s.txtotal = s.txtotal
    /\ r.how = "wait" => r.s.started
    /\ r.how # "next" /\ r.s.started => /\ r.s.txdone < r.s.txlen
                                        /\ r.s.left + r.s.idle >= ScrTimeout
    /\ r.how = "fail" /\ n \in 1..ScrXferMax => s.idle >= ScrTimeout

\* The other directives place nothing.
ScrRests(s, r) == r.s.txtotal = s.txtotal /\ r.s.txdone = s.txdone

LEMMA PumpSendResult ==
    ASSUME NEW s \in ScrStates, s.started,
           s.txdone < s.txlen, s.left + s.idle >= ScrTimeout,
           NEW took \in 0..(s.txlen - s.txdone)
    PROVE  LET r == PumpSend(s, took)
           IN  /\ ScrKeeps(s, r)
               /\ r.s.started /\ r.s.txlen = s.txlen
               /\ r.s.txdone = s.txdone + took
               /\ r.s.mark = s.mark
               /\ r.how = "next" => r.s.txtotal = s.txtotal + r.s.txdone
               /\ r.how # "next" => /\ r.s.txtotal = s.txtotal
                                    /\ r.s.txdone < r.s.txlen
                                    /\ r.s.left + r.s.idle >= ScrTimeout
               /\ r.how = "fail" => s.left = 0 /\ s.idle >= ScrTimeout
  <1> DEFINE t == IF took = 0 THEN s
                  ELSE [s EXCEPT !.txdone = @ + took, !.left = ScrTimeout, !.idle = 0]
             u == [t EXCEPT !.txtotal = @ + t.txlen]
  <1>1. s.txlen \in Nat /\ s.txdone \in Nat /\ took \in Nat /\ ScrTimeout \in Nat \ {0}
        /\ s.left \in Nat /\ s.idle \in Nat
    BY ScrAssumption DEF ScrStates
  <1>2. s.txdone + took <= s.txlen /\ s.txdone + took \in Nat
    BY <1>1
  <1>3. /\ t \in ScrStates /\ t.txdone = s.txdone + took
        /\ t.txlen = s.txlen /\ t.txtotal = s.txtotal /\ t.mark = s.mark
        /\ t.prog = s.prog /\ t.pc = s.pc
        /\ t.started = s.started /\ t.failed = s.failed /\ t.done = s.done
        /\ t.left = (IF took = 0 THEN s.left ELSE ScrTimeout)
        /\ t.idle = (IF took = 0 THEN s.idle ELSE 0)
    <2>1. CASE took = 0
      <3>1. t = s
        BY <2>1
      <3> HIDE DEF t
      <3>2. s.txdone + took = s.txdone
        BY <1>1, <2>1
      <3> QED BY <2>1, <3>1, <3>2, Zenon
    <2>2. CASE took # 0
      BY <1>1, <1>2, <2>2 DEF ScrStates
    <2> QED BY <2>1, <2>2
  <1> HIDE DEF t
  <1>4. /\ u \in ScrStates /\ u.txdone = t.txdone
        /\ u.txlen = t.txlen /\ u.txtotal = t.txtotal + t.txlen /\ u.mark = t.mark
        /\ u.prog = t.prog /\ u.pc = t.pc
        /\ u.started = t.started /\ u.failed = t.failed /\ u.done = t.done
    <2>1. t.txtotal \in Nat /\ t.txlen \in Nat
      BY <1>3 DEF ScrStates
    <2>2. t.txtotal + t.txlen \in Nat
      BY <2>1
    <2> QED BY <1>3, <2>2 DEF ScrStates
  <1> HIDE DEF u
  <1>5. PumpSend(s, took) = IF t.txdone = t.txlen THEN Result(u, "next")
                            ELSE IF Expired(t) THEN Result(t, "fail")
                            ELSE Result(t, "wait")
    BY DEF PumpSend, t, u
  <1>6. t.left + t.idle >= ScrTimeout
    BY <1>1, <1>3
  <1> DEFINE r == PumpSend(s, took)
  <1>7. CASE t.txdone = t.txlen
    <2>1. r.s = u /\ r.how = "next"
      BY <1>5, <1>7 DEF Result
    <2> HIDE DEF r
    <2>2. ScrKeeps(s, r)
      BY <1>3, <1>4, <2>1 DEF ScrKeeps
    <2>3. r.s.txtotal = s.txtotal + r.s.txdone
      BY <1>3, <1>4, <1>7, <2>1
    <2> QED BY <1>3, <1>4, <2>1, <2>2, <2>3 DEF r
  <1>8. CASE t.txdone # t.txlen
    <2>1. t.txdone < t.txlen
      BY <1>1, <1>2, <1>3, <1>8
    <2>2. r.s = t /\ r.how = IF Expired(t) THEN "fail" ELSE "wait"
      BY <1>5, <1>8 DEF Result
    <2>3. Expired(t) => s.left = 0 /\ s.idle >= ScrTimeout
      BY <1>1, <1>3 DEF Expired
    <2> HIDE DEF r
    <2>4. r.how \in {"fail", "wait"} /\ (r.how = "fail" => Expired(t))
      BY <2>2
    <2>5. ScrKeeps(s, r)
      BY <1>3, <2>2, <2>4 DEF ScrKeeps
    <2> QED BY <1>3, <1>6, <2>1, <2>2, <2>3, <2>4, <2>5 DEF r
  <1> QED BY <1>7, <1>8

LEMMA SendResult ==
    ASSUME NEW s \in ScrStates, NEW n \in Nat, NEW credit \in Nat,
           s.started => /\ s.txdone < s.txlen
                        /\ s.left + s.idle >= ScrTimeout
    PROVE  /\ ScrKeeps(s, SendDirective(s, n, credit))
           /\ ScrSends(s, SendDirective(s, n, credit), n, credit)
  <1>1. CASE n = 0 \/ n > ScrXferMax
    <2>1. SendDirective(s, n, credit) = Result(s, "fail")
      BY <1>1 DEF SendDirective
    <2>2. Placed(s) \in Nat
      BY DEF Placed, ScrStates
    <2>3. Placed(s) - Placed(s) \in 0..credit
      BY <2>2
    <2>4. ~(n \in 1..ScrXferMax)
      BY <1>1, ScrAssumption
    <2> QED BY <2>1, <2>3, <2>4 DEF Result, ScrKeeps, ScrSends
  <1>2. CASE ~(n = 0 \/ n > ScrXferMax)
    <2> DEFINE t == IF s.started THEN s
                    ELSE Arm([s EXCEPT !.txlen = n, !.txdone = 0], 0)
               want == t.txlen - t.txdone
               took == IF want < credit THEN want ELSE credit
    <2>1. t \in ScrStates /\ t.started /\ t.txdone < t.txlen
          /\ t.left + t.idle >= ScrTimeout
          /\ t.txtotal = s.txtotal /\ t.mark = s.mark /\ t.prog = s.prog /\ t.pc = s.pc
          /\ t.failed = s.failed /\ t.done = s.done
          /\ t.txdone = Placed(s)
          /\ (t.left = 0 => s.started /\ t.idle = s.idle)
      <3>1. CASE s.started
        BY <3>1 DEF Placed
      <3>2. CASE ~s.started
        <4> DEFINE a == [s EXCEPT !.txlen = n, !.txdone = 0]
        <4>1. /\ a \in ScrStates /\ a.txlen = n /\ a.txdone = 0 /\ ~a.started
              /\ a.txtotal = s.txtotal /\ a.mark = s.mark /\ a.prog = s.prog
              /\ a.pc = s.pc /\ a.failed = s.failed /\ a.done = s.done
          BY <3>2 DEF ScrStates
        <4> HIDE DEF a
        <4>2. t = [a EXCEPT !.started = TRUE, !.idle = 0, !.left = ScrTimeout]
          BY <3>2, <4>1 DEF Arm, a
        <4>3. /\ t \in ScrStates /\ t.started /\ t.txlen = n /\ t.txdone = 0
              /\ t.left = ScrTimeout /\ t.idle = 0
              /\ t.txtotal = s.txtotal /\ t.mark = s.mark /\ t.prog = s.prog
              /\ t.pc = s.pc /\ t.failed = s.failed /\ t.done = s.done
          BY ZenonT(60), <4>1, <4>2, ScrAssumption DEF ScrStates
        <4> HIDE DEF t
        <4>4. 0 < n
          BY <1>2
        <4> QED BY <3>2, <4>3, <4>4, ScrAssumption DEF Placed
      <3> QED BY <3>1, <3>2
    <2>2. SendDirective(s, n, credit) = PumpSend(t, took)
      BY <1>2 DEF SendDirective
    <2> HIDE DEF t
    <2>3. t.txlen \in Nat /\ t.txdone \in Nat
      BY <2>1 DEF ScrStates
    <2>4. took \in 0..(t.txlen - t.txdone) /\ took \in 0..credit
      BY <2>1, <2>3
    <2> HIDE DEF took
    <2> DEFINE r == PumpSend(t, took)
    <2>5. /\ ScrKeeps(t, r)
          /\ r.s.started /\ r.s.txlen = t.txlen
          /\ r.s.txdone = t.txdone + took
          /\ r.s.mark = t.mark
          /\ r.how = "next" => r.s.txtotal = t.txtotal + r.s.txdone
          /\ r.how # "next" => /\ r.s.txtotal = t.txtotal
                               /\ r.s.txdone < r.s.txlen
                               /\ r.s.left + r.s.idle >= ScrTimeout
          /\ r.how = "fail" => t.left = 0 /\ t.idle >= ScrTimeout
      BY <2>1, <2>4, PumpSendResult
    <2> HIDE DEF r
    <2>6. Placed(r.s) - Placed(s) = took
      BY <2>1, <2>3, <2>4, <2>5 DEF Placed
    <2>7. ScrKeeps(s, r)
      BY <2>1, <2>5 DEF ScrKeeps
    <2>8. ScrSends(s, r, n, credit)
      BY <2>1, <2>4, <2>5, <2>6 DEF ScrSends
    <2> QED BY <2>2, <2>7, <2>8 DEF r
  <1> QED BY <1>1, <1>2

LEMMA ArmResult ==
    ASSUME NEW s \in ScrStates, NEW secs \in Nat
    PROVE  /\ Arm(s, secs) \in ScrStates /\ Arm(s, secs).started
           /\ Arm(s, secs).prog = s.prog /\ Arm(s, secs).pc = s.pc
           /\ Arm(s, secs).failed = s.failed /\ Arm(s, secs).done = s.done
           /\ Arm(s, secs).mark = s.mark
           /\ Arm(s, secs).txtotal = s.txtotal /\ Arm(s, secs).txdone = s.txdone
           /\ s.started => Arm(s, secs) = s
           /\ ~s.started => Arm(s, secs).idle = 0
           /\ ~s.started => Arm(s, secs).left = IF secs > 0 THEN secs ELSE ScrTimeout
  <1>1. CASE s.started
    <2>1. Arm(s, secs) = s
      BY <1>1 DEF Arm
    <2> QED BY <1>1, <2>1
  <1>2. CASE ~s.started
    <2> DEFINE left == IF secs > 0 THEN secs ELSE ScrTimeout
    <2>1. left \in Nat
      BY ScrAssumption
    <2> HIDE DEF left
    <2>2. Arm(s, secs) = [s EXCEPT !.started = TRUE, !.idle = 0, !.left = left]
      BY <1>2 DEF Arm, left
    <2> DEFINE t == [s EXCEPT !.started = TRUE, !.idle = 0, !.left = left]
    <2>3. /\ t \in ScrStates /\ t.started
          /\ t.prog = s.prog /\ t.pc = s.pc
          /\ t.failed = s.failed /\ t.done = s.done
          /\ t.mark = s.mark
          /\ t.txtotal = s.txtotal /\ t.txdone = s.txdone
          /\ t.idle = 0 /\ t.left = left
      BY <2>1 DEF ScrStates
    <2> HIDE DEF t
    <2>4. Arm(s, secs) = t
      BY <2>2 DEF t
    <2> QED BY <1>2, <2>3, <2>4 DEF left
  <1> QED BY <1>1, <1>2

LEMMA ArmKeeps ==
    ASSUME NEW s \in ScrStates, NEW secs \in Nat, NEW t, t = Arm(s, secs)
    PROVE  /\ t \in ScrStates /\ t.prog = s.prog /\ t.pc = s.pc /\ t.failed = s.failed
           /\ t.done = s.done /\ t.mark = s.mark /\ t.txtotal = s.txtotal
           /\ t.txdone = s.txdone
  BY ArmResult

\* @wait rx=: what it has seen is marked when it waits, its patience is whole
\* then, and it gives up with none left.
LEMMA WaitRxResult ==
    ASSUME NEW s \in ScrStates, NEW d \in ScrDirectives,
           d.op = "waitrx", NEW rx \in Nat,
           (s.started /\ s.mark = rx) => s.left + s.idle >= Patience(d)
    PROVE  LET r == WaitRx(s, d.n, d.secs, rx)
           IN  /\ ScrKeeps(s, r) /\ ScrRests(s, r)
               /\ r.how = "next" => r.s.mark = s.mark
               /\ r.how # "next" => /\ r.s.mark = rx /\ r.s.started
                                    /\ r.s.left + r.s.idle >= Patience(d)
               /\ r.how = "fail" => s.idle >= Patience(d)
  <1> DEFINE t == Arm(s, d.secs)
             u == IF rx # t.mark
                  THEN [t EXCEPT !.mark = rx, !.left = ScrTimeout] ELSE t
             r == WaitRx(s, d.n, d.secs, rx)
  <1>1. d.secs \in Nat /\ d.n \in Nat /\ ScrTimeout \in Nat \ {0}
    BY ScrAssumption DEF ScrDirectives
  <1>2. Patience(d) \in Nat /\ Patience(d) <= ScrTimeout
        /\ (d.secs > 0 => Patience(d) <= d.secs)
    BY <1>1 DEF Patience
  <1>3. /\ t \in ScrStates /\ t.started
        /\ t.prog = s.prog /\ t.pc = s.pc /\ t.failed = s.failed /\ t.done = s.done
        /\ t.mark = s.mark /\ t.txtotal = s.txtotal /\ t.txdone = s.txdone
        /\ s.started => t = s
        /\ ~s.started => t.idle = 0
        /\ ~s.started => t.left = IF d.secs > 0 THEN d.secs ELSE ScrTimeout
    <2> DEFINE e == d.secs
    <2>1. e \in Nat
      BY <1>1
    <2> HIDE DEF e
    <2>2. /\ Arm(s, e) \in ScrStates /\ Arm(s, e).started
          /\ Arm(s, e).prog = s.prog /\ Arm(s, e).pc = s.pc
          /\ Arm(s, e).failed = s.failed /\ Arm(s, e).done = s.done
          /\ Arm(s, e).mark = s.mark
          /\ Arm(s, e).txtotal = s.txtotal /\ Arm(s, e).txdone = s.txdone
          /\ s.started => Arm(s, e) = s
          /\ ~s.started => Arm(s, e).idle = 0
          /\ ~s.started => Arm(s, e).left = IF e > 0 THEN e ELSE ScrTimeout
      BY <2>1, ArmResult
    <2> QED BY <2>2 DEF e
  <1>4. r = IF rx >= d.n THEN Result(t, "next") ELSE WaitFor(u, FALSE)
    BY DEF WaitRx
  <1> HIDE DEF t
  <1>5. t.left \in Nat /\ t.idle \in Nat /\ t.mark \in Nat
    BY <1>3 DEF ScrStates
  <1>6. t.mark = rx => t.left + t.idle >= Patience(d)
    <2>1. CASE s.started
      BY <1>3, <2>1
    <2>2. CASE ~s.started
      BY <1>1, <1>2, <1>3, <1>5, <2>2
    <2> QED BY <2>1, <2>2
  <1>7. /\ u \in ScrStates /\ u.started
        /\ u.prog = s.prog /\ u.pc = s.pc /\ u.failed = s.failed /\ u.done = s.done
        /\ u.mark = rx /\ u.txtotal = s.txtotal /\ u.txdone = s.txdone
        /\ u.idle = t.idle
        /\ u.left + u.idle >= Patience(d)
        /\ u.left = 0 => t = u
    <2>1. CASE rx = t.mark
      <3>1. u = t
        BY <2>1
      <3> QED BY <1>3, <1>6, <2>1, <3>1
    <2>2. CASE rx # t.mark
      <3>1. u = [t EXCEPT !.mark = rx, !.left = ScrTimeout]
        BY <2>2
      <3>2. /\ u \in ScrStates /\ u.started
            /\ u.prog = s.prog /\ u.pc = s.pc /\ u.failed = s.failed /\ u.done = s.done
            /\ u.mark = rx /\ u.txtotal = s.txtotal /\ u.txdone = s.txdone
            /\ u.idle = t.idle /\ u.left = ScrTimeout
        BY <1>1, <1>3, <3>1 DEF ScrStates
      <3> HIDE DEF u
      <3> QED BY <1>1, <1>2, <1>5, <3>2
    <2> QED BY <2>1, <2>2
  <1> HIDE DEF u
  <1>8. CASE rx >= d.n
    <2>1. r = Result(t, "next")
      BY <1>4, <1>8
    <2>2. r.s = t /\ r.how = "next"
      BY <2>1 DEF Result
    <2> HIDE DEF r
    <2>3. ScrKeeps(s, r) /\ ScrRests(s, r)
      BY <1>3, <2>2 DEF ScrKeeps, ScrRests
    <2> QED BY <1>3, <2>2, <2>3 DEF r
  <1>9. CASE ~(rx >= d.n)
    <2>1. r = IF Expired(u) THEN Result(u, "fail") ELSE Result(u, "wait")
      BY <1>4, <1>9 DEF WaitFor
    <2>2. r.s = u /\ r.how \in {"fail", "wait"} /\ (r.how = "fail" => u.left = 0)
      BY <2>1 DEF Result, Expired
    <2> HIDE DEF r
    <2>3. ScrKeeps(s, r) /\ ScrRests(s, r)
      BY <1>7, <2>2 DEF ScrKeeps, ScrRests
    <2>4. r.how = "fail" => s.idle >= Patience(d)
      <3> SUFFICES ASSUME r.how = "fail" PROVE s.idle >= Patience(d)
        OBVIOUS
      <3>1. u.left = 0 /\ t = u
        BY <1>7, <2>2
      <3>2. s.started
        BY <1>1, <1>3, <3>1
      <3> QED BY <1>3, <1>5, <1>7, <3>1, <3>2
    <2> QED BY <1>7, <2>2, <2>3, <2>4 DEF r
  <1> QED BY <1>8, <1>9

\* A directive that neither places nor waits for bytes.
LEMMA OtherResult ==
    ASSUME NEW s \in ScrStates, NEW d \in ScrDirectives,
           d.op # "send", d.op # "waitrx", NEW p \in ScrPlants, NEW took \in BOOLEAN
    PROVE  LET r == Perform(s, d, p, took)
           IN  /\ ScrKeeps(s, r) /\ ScrRests(s, r) /\ r.s.mark = s.mark
               /\ (d.op = "expectrx" /\ r.how = "next") => p.rx = s.txtotal
               /\ r.how = "fail" => d.op \notin Transfers
  <1> DEFINE r == Perform(s, d, p, took)
             Good(x) == ScrKeeps(s, x) /\ ScrRests(s, x) /\ x.s.mark = s.mark
  <1>1. d.op \in ScrOps /\ d.secs \in Nat /\ d.text \in ScrTexts
    BY DEF ScrDirectives
  <1>2. d.op \notin Transfers
    BY DEF Transfers
  <1>3. ASSUME NEW how \in {"next", "fail", "wait"} PROVE Good(Result(s, how))
    BY DEF Result, ScrKeeps, ScrRests
  <1>4. ASSUME NEW t \in ScrStates, t.prog = s.prog, t.pc = s.pc, t.failed = s.failed,
               t.done = s.done, t.mark = s.mark, t.txtotal = s.txtotal,
               t.txdone = s.txdone, NEW how \in {"next", "fail", "wait"}
        PROVE  Good(Result(t, how))
    BY <1>4 DEF Result, ScrKeeps, ScrRests
  <1>5. ASSUME NEW t \in ScrStates, t.prog = s.prog, t.pc = s.pc, t.failed = s.failed,
               t.done = s.done, t.mark = s.mark, t.txtotal = s.txtotal,
               t.txdone = s.txdone, NEW cond \in BOOLEAN
        PROVE  Good(WaitFor(t, cond))
    <2>1. PICK how \in {"next", "fail", "wait"} : WaitFor(t, cond) = Result(t, how)
      BY DEF WaitFor
    <2> HIDE DEF Good
    <2> QED BY <1>4, <1>5, <2>1
  <1>6. CASE d.op = "echo"
    <2>1. r = Result(s, "next")
      BY <1>6 DEF Perform
    <2> QED BY <1>2, <1>3, <1>6, <2>1
  <1>7. CASE d.op \in {"peer", "line", "noloss"}
    <2>1. PICK how \in {"next", "fail", "wait"} : r = Result(s, how)
      BY <1>7 DEF Perform
    <2> QED BY <1>2, <1>3, <1>7, <2>1
  <1>8. CASE d.op = "expectrx"
    <2>1. r = Result(s, IF p.rx <= ScrXferMax /\ p.rx = s.txtotal THEN "next" ELSE "fail")
      BY <1>8 DEF Perform, ExpectRx
    <2>2. r.how = "next" => p.rx = s.txtotal
      BY <2>1 DEF Result
    <2> QED BY <1>2, <1>3, <2>1, <2>2
  <1>9. CASE d.op = "waithost"
    <2> DEFINE a == IF s.started THEN s ELSE [s EXCEPT !.want = d.text]
               t == Arm(a, d.secs)
    <2>1. /\ a \in ScrStates /\ a.prog = s.prog /\ a.pc = s.pc /\ a.failed = s.failed
          /\ a.done = s.done /\ a.mark = s.mark /\ a.txtotal = s.txtotal
          /\ a.txdone = s.txdone
      BY <1>1 DEF ScrStates
    <2>2. r = WaitFor(t, t.matched)
      BY <1>9 DEF Perform, WaitHost
    <2> HIDE DEF a
    <2>3. /\ t \in ScrStates /\ t.prog = s.prog /\ t.pc = s.pc /\ t.failed = s.failed
          /\ t.done = s.done /\ t.mark = s.mark /\ t.txtotal = s.txtotal
          /\ t.txdone = s.txdone
      BY <1>1, <2>1, ArmKeeps
    <2> HIDE DEF t
    <2>4. t.matched \in BOOLEAN
      BY <2>3 DEF ScrStates
    <2>5. Good(WaitFor(t, t.matched))
      <3> HIDE DEF Good
      <3> QED BY <1>5, <2>3, <2>4
    <2> QED BY <1>2, <1>9, <2>2, <2>5
  <1>10. CASE d.op \in {"waitsecs", "stress"}
    <2> DEFINE t == IF s.started THEN s
                    ELSE [s EXCEPT !.started = TRUE, !.left = d.secs]
    <2>1. /\ t \in ScrStates /\ t.prog = s.prog /\ t.pc = s.pc /\ t.failed = s.failed
          /\ t.done = s.done /\ t.mark = s.mark /\ t.txtotal = s.txtotal
          /\ t.txdone = s.txdone
      BY <1>1 DEF ScrStates
    <2>2. \E how \in {"next", "fail", "wait"} : r = Result(t, how)
      <3>1. CASE d.op = "waitsecs"
        <4>1. r = Result(t, IF Expired(t) THEN "next" ELSE "wait")
          BY <3>1 DEF Perform, WaitSecs
        <4> QED BY <4>1
      <3>2. CASE d.op = "stress"
        <4>1. r = IF ~Expired(t) THEN Result(t, "wait")
                  ELSE Result(t, IF p.drops /\ ~p.lost THEN "next" ELSE "fail")
          BY <3>2 DEF Perform, Stress
        <4> QED BY <4>1
      <3> QED BY <1>10, <3>1, <3>2
    <2> HIDE DEF t, r
    <2>3. PICK how \in {"next", "fail", "wait"} : r = Result(t, how)
      BY <2>2
    <2>4. Good(r)
      <3> HIDE DEF Good
      <3> QED BY <1>4, <2>1, <2>3
    <2> QED BY <1>2, <1>10, <2>4 DEF r
  <1>11. CASE d.op = "aspsend"
    <2> DEFINE a == [s EXCEPT !.arrived = FALSE]
               t == Arm(a, 0)
    <2>1. /\ a \in ScrStates /\ a.prog = s.prog /\ a.pc = s.pc /\ a.failed = s.failed
          /\ a.done = s.done /\ a.mark = s.mark /\ a.txtotal = s.txtotal
          /\ a.txdone = s.txdone
      BY DEF ScrStates
    <2>2. r = IF took THEN Result(t, "next") ELSE Result(s, "fail")
      BY <1>11 DEF Perform, AspSend
    <2> HIDE DEF a
    <2>3. /\ t \in ScrStates /\ t.prog = s.prog /\ t.pc = s.pc /\ t.failed = s.failed
          /\ t.done = s.done /\ t.mark = s.mark /\ t.txtotal = s.txtotal
          /\ t.txdone = s.txdone
      <3>1. 0 \in Nat
        OBVIOUS
      <3> QED BY <2>1, <3>1, ArmKeeps
    <2> HIDE DEF t
    <2>4. Good(Result(t, "next")) /\ Good(Result(s, "fail"))
      <3> HIDE DEF Good
      <3> QED BY <1>3, <1>4, <2>3
    <2>5. Good(r)
      BY <2>2, <2>4
    <2> QED BY <1>2, <1>11, <2>5
  <1>12. CASE d.op = "aspwait"
    <2> DEFINE t == Arm(s, d.secs)
    <2>1. r = WaitFor(t, t.arrived)
      BY <1>12 DEF Perform
    <2>2. /\ t \in ScrStates /\ t.prog = s.prog /\ t.pc = s.pc /\ t.failed = s.failed
          /\ t.done = s.done /\ t.mark = s.mark /\ t.txtotal = s.txtotal
          /\ t.txdone = s.txdone
      BY <1>1, ArmKeeps
    <2> HIDE DEF t
    <2>3. t.arrived \in BOOLEAN
      BY <2>2 DEF ScrStates
    <2>4. Good(WaitFor(t, t.arrived))
      <3> HIDE DEF Good
      <3> QED BY <1>5, <2>2, <2>3
    <2> QED BY <1>2, <1>12, <2>1, <2>4
  <1> QED
    BY <1>1, <1>6, <1>7, <1>8, <1>9, <1>10, <1>11, <1>12, <1>2, <1>3 DEF ScrOps

-----------------------------------------------------------------------------
(* One step of the loop. *)

\* The line after the one at hand.
LEMMA ScrAdvances ==
    ASSUME NEW s \in ScrStates, NEW t, t = Advance(s)
    PROVE  /\ t \in ScrStates /\ t.prog = s.prog /\ t.pc = s.pc + 1 /\ ~t.started
           /\ t.failed = s.failed /\ t.done = s.done /\ t.mark = s.mark
           /\ t.txtotal = s.txtotal
  <1> DEFINE pc == s.pc + 1
             e == [s EXCEPT !.pc = pc, !.started = FALSE, !.matched = FALSE,
                            !.want = "none", !.left = 0]
  <1>1. pc \in Nat
    BY DEF ScrStates
  <1> HIDE DEF pc
  <1>2. t = e
    BY DEF Advance, pc
  <1>3. /\ e.prog = s.prog /\ e.pc = pc /\ ~e.started
        /\ e.failed = s.failed /\ e.done = s.done /\ e.mark = s.mark
        /\ e.txtotal = s.txtotal
    BY <1>1 DEF ScrStates
  <1>4. e \in ScrStates
    <2>1. "none" \in ScrTexts
      BY DEF ScrTexts
    <2> QED BY <1>1, <2>1 DEF ScrStates
  <1> HIDE DEF e
  <1> QED BY <1>2, <1>3, <1>4 DEF pc

LEMMA ScrFails ==
    ASSUME NEW s \in ScrStates, NEW t, t = ScrFail(s)
    PROVE  /\ t \in ScrStates /\ t.failed /\ t.done
           /\ t.prog = s.prog /\ t.pc = s.pc /\ t.started = s.started
           /\ t.mark = s.mark /\ t.txtotal = s.txtotal /\ t.txdone = s.txdone
           /\ t.txlen = s.txlen /\ t.left = s.left /\ t.idle = s.idle
  <1> DEFINE e == [s EXCEPT !.failed = TRUE, !.done = TRUE]
  <1>1. /\ e \in ScrStates /\ e.failed /\ e.done
        /\ e.prog = s.prog /\ e.pc = s.pc /\ e.started = s.started
        /\ e.mark = s.mark /\ e.txtotal = s.txtotal /\ e.txdone = s.txdone
        /\ e.txlen = s.txlen /\ e.left = s.left /\ e.idle = s.idle
    BY DEF ScrStates
  <1> HIDE DEF e
  <1>2. t = e
    BY DEF ScrFail, e
  <1> QED BY <1>1, <1>2

\* What one directive makes of a state of the invariant.
PumpResult(d, r) ==
    /\ ScrKeeps(scr, r)
    /\ d.op = "send" => ScrSends(scr, r, d.n, scrPlant.credit)
    /\ d.op # "send" => ScrRests(scr, r)
    /\ d.op = "waitrx" =>
          /\ r.how # "next" => /\ r.s.mark = scrPlant.rx /\ r.s.started
                               /\ r.s.left + r.s.idle >= Patience(d)
          /\ r.how = "fail" => scr.idle >= Patience(d)
    /\ r.s.mark <= scrPlant.rx
    /\ d.op = "expectrx" /\ r.how = "next" => scrPlant.rx = scr.txtotal
    /\ r.how = "fail" /\ d.op \in Transfers /\ d.n \in 1..ScrXferMax =>
          scr.idle >= Patience(d)

LEMMA PumpDoes ==
    ASSUME ScrInv, ~ScrEnd, NEW took \in BOOLEAN
    PROVE  PumpResult(Directive, Perform(scr, Directive, scrPlant, took))
  <1> DEFINE d == Directive
             s == scr
             r == Perform(s, d, scrPlant, took)
  <1>1. d \in ScrDirectives /\ s \in ScrStates /\ scrPlant \in ScrPlants
    BY ScrDirectiveTyped DEF ScrInv, ScrTypes
  <1>2. /\ scrPlant.credit \in Nat /\ scrPlant.rx \in Nat /\ s.mark \in Nat
        /\ s.mark <= scrPlant.rx /\ d.n \in Nat /\ d.secs \in Nat
    BY <1>1 DEF ScrInv, ScrPatient, ScrPlants, ScrStates, ScrDirectives
  <1>3. CASE d.op = "send"
    <2>1. r = SendDirective(s, d.n, scrPlant.credit)
      BY <1>3 DEF Perform
    <2>2. s.started => s.txdone < s.txlen /\ s.left + s.idle >= ScrTimeout
      BY <1>3 DEF ScrInv, ScrBooked, ScrPatient
    <2> DEFINE n == d.n
               c == scrPlant.credit
    <2>3. n \in Nat /\ c \in Nat
      BY <1>2
    <2> HIDE DEF n, c, s, d
    <2>4. ScrKeeps(s, SendDirective(s, n, c)) /\ ScrSends(s, SendDirective(s, n, c), n, c)
      BY <1>1, <2>2, <2>3, SendResult
    <2>5. ScrKeeps(s, r) /\ ScrSends(s, r, d.n, scrPlant.credit)
      BY <2>1, <2>4 DEF n, c
    <2>6. Patience(d) = ScrTimeout
      BY <1>3 DEF Patience
    <2> HIDE DEF r
    <2>7. PumpResult(d, r)
      BY <1>2, <1>3, <2>5, <2>6 DEF PumpResult, ScrSends, s
    <2> QED BY <2>7 DEF r, s, d
  <1>4. CASE d.op = "waitrx"
    <2>1. r = WaitRx(s, d.n, d.secs, scrPlant.rx)
      BY <1>4 DEF Perform
    <2>2. (s.started /\ s.mark = scrPlant.rx) => s.left + s.idle >= Patience(d)
      BY <1>4 DEF ScrInv, ScrPatient
    <2> DEFINE rx == scrPlant.rx
    <2>3. rx \in Nat
      BY <1>2
    <2> HIDE DEF rx, s, d
    <2> DEFINE w == WaitRx(s, d.n, d.secs, rx)
    <2>4. (s.started /\ s.mark = rx) => s.left + s.idle >= Patience(d)
      BY <2>2 DEF rx
    <2>5. /\ ScrKeeps(s, w) /\ ScrRests(s, w)
          /\ w.how = "next" => w.s.mark = s.mark
          /\ w.how # "next" => /\ w.s.mark = rx /\ w.s.started
                               /\ w.s.left + w.s.idle >= Patience(d)
          /\ w.how = "fail" => s.idle >= Patience(d)
      BY <1>1, <1>4, <2>3, <2>4, WaitRxResult
    <2>6. r = w
      BY <2>1 DEF rx
    <2> HIDE DEF w, r
    <2>7. PumpResult(d, r)
      BY <1>2, <1>4, <2>5, <2>6 DEF PumpResult, s, rx
    <2> QED BY <2>7 DEF r, s, d
  <1>5. CASE d.op # "send" /\ d.op # "waitrx"
    <2> HIDE DEF s, d
    <2>1. /\ ScrKeeps(s, r) /\ ScrRests(s, r) /\ r.s.mark = s.mark
          /\ (d.op = "expectrx" /\ r.how = "next") => scrPlant.rx = s.txtotal
          /\ r.how = "fail" => d.op \notin Transfers
      BY <1>1, <1>5, OtherResult
    <2> HIDE DEF r
    <2>2. PumpResult(d, r)
      BY <1>2, <1>5, <2>1 DEF PumpResult, s
    <2> QED BY <2>2 DEF r, s, d
  <1> QED BY <1>3, <1>4, <1>5

\* The pump keeps the invariant, and gives a transfer up with its patience gone.
LEMMA PumpStep ==
    ASSUME ScrInv, NEW took \in BOOLEAN, Pump(took)
    PROVE  /\ ScrInv'
           /\ (scr'.failed /\ Directive.op \in Transfers /\ Directive.n \in 1..ScrXferMax) =>
                 scr.idle >= Patience(Directive)
  <1> DEFINE d == Directive
             r == Perform(scr, d, scrPlant, took)
             n == Placed(r.s) - Placed(scr)
  <1>1. /\ scrTurn = "pump" /\ ~scr.done /\ ~ScrEnd
        /\ scr' = CASE r.how = "next" -> Advance(r.s)
                    [] r.how = "fail" -> ScrFail(r.s)
                    [] r.how = "wait" -> r.s
        /\ scrTurn' = IF r.how = "wait" THEN "step" ELSE "pump"
        /\ scrPlant' = IF d.op = "send"
                       THEN [scrPlant EXCEPT !.credit = @ - n, !.sent = @ + n]
                       ELSE scrPlant
    BY DEF Pump
  <1>2. PumpResult(d, r)
    BY <1>1, PumpDoes
  <1>3. d \in ScrDirectives /\ scr.pc \in 1..Len(scr.prog) /\ scr.prog \in Seq(ScrDirectives)
        /\ d = scr.prog[scr.pc]
    BY <1>1, ScrDirectiveTyped DEF ScrInv, Directive
  <1> HIDE DEF d, r
  <1>4. /\ scr \in ScrStates /\ scrPlant \in ScrPlants /\ r.s \in ScrStates
        /\ r.how \in {"next", "fail", "wait"}
        /\ r.s.prog = scr.prog /\ r.s.pc = scr.pc
        /\ r.s.failed = scr.failed /\ r.s.done = scr.done
    BY <1>2 DEF PumpResult, ScrKeeps, ScrInv, ScrTypes
  <1>5. /\ scrPlant.credit \in Nat /\ scrPlant.rx \in Nat /\ scrPlant.sent \in Nat
        /\ scrPlant.rx <= scrPlant.sent
        /\ scr.txtotal \in Nat /\ scr.txdone \in Nat /\ scr.idle \in Nat
        /\ scr.pc \in Nat /\ Len(scr.prog) \in Nat
        /\ r.s.txtotal \in Nat /\ r.s.txdone \in Nat /\ Placed(scr) \in Nat
        /\ Placed(r.s) \in Nat
    <2>1. /\ scr.txtotal \in Nat /\ scr.txdone \in Nat /\ scr.idle \in Nat
          /\ r.s.txtotal \in Nat /\ r.s.txdone \in Nat /\ scr.pc \in Nat
      BY <1>4 DEF ScrStates
    <2>2. Placed(scr) \in Nat /\ Placed(r.s) \in Nat
      BY <2>1 DEF Placed
    <2>3. /\ scrPlant.credit \in Nat /\ scrPlant.rx \in Nat /\ scrPlant.sent \in Nat
          /\ scrPlant.rx <= scrPlant.sent
      BY <1>4 DEF ScrPlants, ScrInv, ScrBooked
    <2> QED BY <1>3, <2>1, <2>2, <2>3
  <1>6. /\ scrPlant' \in ScrPlants /\ scrPlant'.rx = scrPlant.rx
        /\ d.op # "send" => scrPlant'.sent = scrPlant.sent
        /\ d.op = "send" => scrPlant'.sent = scrPlant.sent + n
        /\ d.op = "send" => n \in Nat
    <2>1. CASE d.op # "send"
      BY <1>1, <1>4, <2>1
    <2>2. CASE d.op = "send"
      <3>1. n \in 0..scrPlant.credit
        BY <1>2, <2>2 DEF PumpResult, ScrSends
      <3> HIDE DEF n
      <3> DEFINE c == scrPlant.credit - n
                 e == scrPlant.sent + n
                 p == [scrPlant EXCEPT !.credit = c, !.sent = e]
      <3>2. c \in Nat /\ e \in Nat /\ n \in Nat
        BY SMTT(30), <1>5, <3>1
      <3> HIDE DEF c, e
      <3>3. scrPlant' = p
        BY <1>1, <2>2 DEF c, e
      <3>4. p \in ScrPlants /\ p.rx = scrPlant.rx /\ p.sent = e
        BY <1>4, <3>2 DEF ScrPlants
      <3> HIDE DEF p
      <3> QED BY <2>2, <3>2, <3>3, <3>4 DEF e
    <2> QED BY <2>1, <2>2
  <1>7. scrPlant.sent = scr.txtotal + IF d.op = "send" THEN Placed(scr) ELSE 0
    BY <1>1 DEF ScrInv, ScrBooked, d
  <1>8. CASE r.how = "next"
    <2>1. scr' = Advance(r.s) /\ scrTurn' = "pump"
      BY <1>1, <1>8
    <2>2. /\ scr' \in ScrStates /\ scr'.prog = scr.prog /\ scr'.pc = scr.pc + 1
          /\ ~scr'.started /\ ~scr'.done /\ scr'.failed = scr.failed
          /\ scr'.mark = r.s.mark /\ scr'.txtotal = r.s.txtotal
      BY <1>1, <1>4, <2>1, ScrAdvances
    <2>3. ScrTypes'
      BY <1>3, <1>5, <1>6, <2>1, <2>2 DEF ScrTypes
    <2>4. scrPlant'.sent = scr'.txtotal
      <3>1. CASE d.op = "send"
        <4>1. r.s.txtotal = scr.txtotal + Placed(r.s)
          BY <1>2, <1>8, <3>1 DEF PumpResult, ScrSends, Placed
        <4> QED BY <1>5, <1>6, <1>7, <2>2, <3>1, <4>1
      <3>2. CASE d.op # "send"
        <4>1. r.s.txtotal = scr.txtotal
          BY <1>2, <3>2 DEF PumpResult, ScrRests
        <4> QED BY <1>5, <1>6, <1>7, <2>2, <3>2, <4>1
      <3> QED BY <3>1, <3>2
    <2>5. ScrBooked'
      <3>1. Placed(scr') = 0
        BY <2>2 DEF Placed
      <3>2. scr'.txtotal \in Nat
        BY <2>2 DEF ScrStates
      <3>3. scrPlant'.rx <= scrPlant'.sent
        BY <1>5, <1>6
      <3> QED BY <2>2, <2>4, <3>1, <3>2, <3>3 DEF ScrBooked
    <2>6. ScrPatient'
      BY <1>2, <1>6, <2>1, <2>2 DEF ScrPatient, PumpResult
    <2>7. (ScrEnd' /\ scr'.prog # <<>> /\ scr'.prog[Len(scr'.prog)].op = "expectrx") =>
             scrPlant'.rx = scr'.txtotal
      <3> SUFFICES ASSUME ScrEnd', scr'.prog[Len(scr'.prog)].op = "expectrx"
                   PROVE  scrPlant'.rx = scr'.txtotal
        OBVIOUS
      <3>1. scr.pc = Len(scr.prog)
        BY <1>3, <1>5, <2>2 DEF ScrEnd
      <3>2. d.op = "expectrx"
        BY <1>3, <2>2, <3>1
      <3>3. scrPlant.rx = scr.txtotal /\ r.s.txtotal = scr.txtotal
        BY <1>2, <1>8, <3>2 DEF PumpResult, ScrRests
      <3> QED BY <1>6, <2>2, <3>3
    <2>8. ~scr.failed
      BY <1>1 DEF ScrInv, ScrPassed
    <2>9. ScrPassed'
      BY <2>1, <2>2, <2>7, <2>8 DEF ScrPassed
    <2> QED BY <2>2, <2>3, <2>5, <2>6, <2>8, <2>9 DEF ScrInv
  <1>9. CASE r.how # "next"
    <2>1. /\ scr' \in ScrStates
          /\ scr'.prog = scr.prog /\ scr'.pc = scr.pc
          /\ scr'.started = r.s.started /\ scr'.mark = r.s.mark
          /\ scr'.txtotal = r.s.txtotal /\ scr'.txdone = r.s.txdone
          /\ scr'.txlen = r.s.txlen /\ scr'.left = r.s.left /\ scr'.idle = r.s.idle
          /\ scr'.failed <=> r.how = "fail"
          /\ scr'.done <=> r.how = "fail"
      <3>1. ~scr.failed
        BY <1>1 DEF ScrInv, ScrPassed
      <3>2. CASE r.how = "fail"
        <4>1. scr' = ScrFail(r.s)
          BY <1>1, <3>2
        <4> QED BY <1>1, <1>4, <3>2, <4>1, ScrFails
      <3>3. CASE r.how = "wait"
        <4>1. scr' = r.s
          BY <1>1, <3>3
        <4> QED BY <1>1, <1>4, <3>1, <3>3, <4>1
      <3> QED BY <1>4, <1>9, <3>2, <3>3
    <2>2. Directive' = d /\ ~ScrEnd'
      BY <1>1, <1>3, <2>1 DEF Directive, ScrEnd
    <2>3. ScrTypes'
      <3>1. scr'.pc \in 1..Len(scr'.prog) + 1
        BY <1>3, <1>5, <2>1
      <3>2. scrTurn' \in {"pump", "step"}
        BY <1>1
      <3> QED BY <1>6, <2>1, <3>1, <3>2 DEF ScrTypes
    <2>4. Placed(scr') = Placed(r.s)
      BY <2>1 DEF Placed
    <2>5. scrPlant'.sent = scr'.txtotal + IF d.op = "send" THEN Placed(scr') ELSE 0
      <3>1. CASE d.op = "send"
        <4>1. r.s.txtotal = scr.txtotal
          BY <1>2, <1>9, <3>1 DEF PumpResult, ScrSends
        <4> QED BY <1>5, <1>6, <1>7, <2>1, <2>4, <3>1, <4>1
      <3>2. CASE d.op # "send"
        <4>1. r.s.txtotal = scr.txtotal
          BY <1>2, <3>2 DEF PumpResult, ScrRests
        <4> QED BY <1>5, <1>6, <1>7, <2>1, <3>2, <4>1
      <3> QED BY <3>1, <3>2
    <2>6. ScrBooked'
      <3>1. (d.op = "send" /\ scr'.started) => scr'.txdone < scr'.txlen
        BY <1>2, <1>9, <2>1 DEF PumpResult, ScrSends
      <3>2. scrPlant'.rx <= scrPlant'.sent
        BY <1>5, <1>6
      <3> QED BY <2>2, <2>5, <3>1, <3>2 DEF ScrBooked
    <2>7. ScrPatient'
      <3>1. (d.op = "send" /\ scr'.started) => scr'.left + scr'.idle >= ScrTimeout
        BY <1>2, <1>9, <2>1 DEF PumpResult, ScrSends
      <3>2. d.op = "waitrx" => /\ scr'.mark = scrPlant'.rx /\ scr'.started
                              /\ scr'.left + scr'.idle >= Patience(d)
        BY <1>2, <1>6, <1>9, <2>1 DEF PumpResult
      <3>3. scr'.mark <= scrPlant'.rx
        BY <1>2, <1>6, <2>1 DEF PumpResult
      <3> QED BY <2>2, <3>1, <3>2, <3>3 DEF ScrPatient
    <2>8. ScrPassed'
      BY <1>1, <2>1, <2>2 DEF ScrPassed
    <2>9. (scr'.failed /\ d.op \in Transfers /\ d.n \in 1..ScrXferMax) =>
             scr.idle >= Patience(d)
      BY <1>2, <2>1 DEF PumpResult
    <2> QED BY <2>3, <2>6, <2>7, <2>8, <2>9 DEF ScrInv, d
  <1> QED BY <1>4, <1>8, <1>9

LEMMA PumpEndsStep == ScrInv /\ PumpEnds => ScrInv'
  <1> SUFFICES ASSUME ScrInv, PumpEnds PROVE ScrInv'
    OBVIOUS
  <1> DEFINE e == [scr EXCEPT !.done = TRUE]
  <1>1. /\ scrTurn = "pump" /\ ScrEnd /\ scr' = e
        /\ scrPlant' = scrPlant /\ scrTurn' = scrTurn
    BY DEF PumpEnds
  <1>2. scr \in ScrStates
    BY DEF ScrInv, ScrTypes
  <1>3. /\ e \in ScrStates /\ e.prog = scr.prog /\ e.pc = scr.pc /\ e.done
        /\ e.mark = scr.mark /\ e.txtotal = scr.txtotal /\ e.started = scr.started
        /\ e.txdone = scr.txdone /\ e.txlen = scr.txlen
    BY <1>2 DEF ScrStates
  <1> HIDE DEF e
  <1>4. ScrEnd'
    BY <1>1, <1>3 DEF ScrEnd
  <1>5. ScrTypes'
    BY <1>1, <1>3 DEF ScrInv, ScrTypes
  <1>6. ScrBooked' /\ ScrPatient'
    BY <1>1, <1>3, <1>4 DEF ScrInv, ScrBooked, ScrPatient
  <1>7. ScrPassed'
    BY <1>1, <1>3, <1>4 DEF ScrInv, ScrPassed
  <1> QED BY <1>5, <1>6, <1>7 DEF ScrInv

LEMMA ModemStepStep ==
    ASSUME ScrInv, NEW credit \in 0..ScrCredit, NEW got \in 0..2,
           NEW texts \in SUBSET (ScrTexts \ {"none"}), NEW file \in BOOLEAN,
           NEW drop \in BOOLEAN, ModemStep(credit, got, texts, file, drop)
    PROVE  ScrInv' /\ scr'.failed = scr.failed
  <1> DEFINE matched == scr.matched \/ (scr.want # "none" /\ scr.want \in texts)
             arrived == scr.arrived \/ file
             left == IF scr.left > 0 THEN scr.left - 1 ELSE 0
             idle == IF got > 0 /\ Directive.op = "waitrx" THEN 0
                     ELSE IF scr.idle > ScrTimeout THEN scr.idle ELSE scr.idle + 1
             rx == scrPlant.rx + got
             drops == scrPlant.drops \/ drop
             e == [scr EXCEPT !.matched = matched, !.arrived = arrived,
                              !.left = left, !.idle = idle]
             p == [scrPlant EXCEPT !.credit = credit, !.rx = rx, !.drops = drops]
  <1>1. /\ scrTurn = "step" /\ ~scr.done /\ rx <= scrPlant.sent
        /\ scrPlant' = p /\ scr' = e /\ scrTurn' = "pump"
    BY DEF ModemStep
  <1>2. ~ScrEnd /\ scr.pc \in 1..Len(scr.prog)
    BY <1>1, ScrDirectiveTyped DEF ScrInv, ScrPassed
  <1>3. scr \in ScrStates /\ scrPlant \in ScrPlants
    BY DEF ScrInv, ScrTypes
  <1>4. /\ scr.left \in Nat /\ scr.idle \in Nat /\ scrPlant.rx \in Nat
        /\ scr.mark \in Nat /\ got \in Nat /\ credit \in Nat /\ ScrTimeout \in Nat
    BY <1>3, ScrAssumption DEF ScrStates, ScrPlants
  <1>5. left \in Nat /\ idle \in Nat /\ rx \in Nat
    BY <1>4
  <1>6. left >= scr.left - 1
        /\ ((got = 0 \/ Directive.op # "waitrx") =>
               idle > ScrTimeout \/ idle = scr.idle + 1)
        /\ rx >= scrPlant.rx /\ (rx = scrPlant.rx => got = 0)
    BY <1>4
  <1>7. matched \in BOOLEAN /\ arrived \in BOOLEAN /\ drops \in BOOLEAN
    OBVIOUS
  <1> HIDE DEF matched, arrived, left, idle, rx, drops
  <1>8. /\ e \in ScrStates /\ e.prog = scr.prog /\ e.pc = scr.pc
        /\ e.done = scr.done /\ e.failed = scr.failed
        /\ e.mark = scr.mark /\ e.txtotal = scr.txtotal /\ e.started = scr.started
        /\ e.txdone = scr.txdone /\ e.txlen = scr.txlen
        /\ e.left = left /\ e.idle = idle
    BY <1>3, <1>5, <1>7 DEF ScrStates
  <1>9. /\ p \in ScrPlants /\ p.rx = rx /\ p.sent = scrPlant.sent
    BY <1>3, <1>4, <1>5, <1>7 DEF ScrPlants
  <1> HIDE DEF e, p
  <1>10. Directive' = Directive /\ ~ScrEnd'
    BY <1>1, <1>2, <1>8 DEF Directive, ScrEnd
  <1>11. ScrTypes'
    BY <1>1, <1>8, <1>9 DEF ScrInv, ScrTypes
  <1>12. ScrBooked'
    <2>1. Placed(scr') = Placed(scr)
      BY <1>1, <1>8 DEF Placed
    <2> QED BY <1>1, <1>2, <1>8, <1>9, <1>10, <2>1 DEF ScrInv, ScrBooked
  <1>13. ScrPatient'
    <2>1. Patience(Directive) \in Nat /\ Patience(Directive) <= ScrTimeout
      BY <1>4 DEF Patience
    <2>2. (Directive.op = "send" /\ scr.started) => left + idle >= ScrTimeout
      BY <1>2, <1>4, <1>5, <1>6 DEF ScrInv, ScrPatient
    <2>3. (Directive.op = "waitrx" /\ scr.mark = rx) =>
             left + idle >= Patience(Directive)
      <3> SUFFICES ASSUME Directive.op = "waitrx", scr.mark = rx
                   PROVE  left + idle >= Patience(Directive)
        OBVIOUS
      <3>1. scr.started /\ scr.mark = scrPlant.rx
        BY <1>1, <1>2 DEF ScrInv, ScrPatient
      <3>2. scr.left + scr.idle >= Patience(Directive)
        BY <1>2, <3>1 DEF ScrInv, ScrPatient
      <3>3. got = 0
        BY <1>6, <3>1
      <3> QED BY <1>4, <1>5, <1>6, <2>1, <3>2, <3>3
    <2>4. scr.mark <= rx
      BY <1>4, <1>5, <1>6 DEF ScrInv, ScrPatient
    <2> QED BY <1>1, <1>8, <1>9, <1>10, <2>2, <2>3, <2>4 DEF ScrPatient
  <1>14. ScrPassed'
    BY <1>1, <1>8, <1>9, <1>10 DEF ScrInv, ScrPassed
  <1> QED BY <1>1, <1>8, <1>11, <1>12, <1>13, <1>14 DEF ScrInv

LEMMA ScrOtherSteps == ScrInv /\ (EventLost \/ DeviceFails) => ScrInv'
  <1>1. ASSUME ScrInv, EventLost PROVE ScrInv'
    <2> DEFINE p == [scrPlant EXCEPT !.lost = TRUE]
    <2>1. scrPlant' = p /\ scr' = scr /\ scrTurn' = scrTurn
      BY <1>1 DEF EventLost
    <2>2. p \in ScrPlants /\ p.rx = scrPlant.rx /\ p.sent = scrPlant.sent
      BY <1>1 DEF ScrInv, ScrTypes, ScrPlants
    <2> HIDE DEF p
    <2> QED BY <1>1, <2>1, <2>2 DEF ScrInv, ScrTypes, ScrBooked, ScrPatient,
                                    ScrPassed, ScrEnd, Directive, Placed, Patience
  <1>2. ASSUME ScrInv, DeviceFails PROVE ScrInv'
    <2> DEFINE p == [scrPlant EXCEPT !.dead = TRUE]
               e == [scr EXCEPT !.done = TRUE, !.failed = TRUE]
    <2>1. scrPlant' = p /\ scr' = e /\ scrTurn' = scrTurn
      BY <1>2 DEF DeviceFails
    <2>2. p \in ScrPlants /\ p.rx = scrPlant.rx /\ p.sent = scrPlant.sent
      BY <1>2 DEF ScrInv, ScrTypes, ScrPlants
    <2>3. /\ e \in ScrStates /\ e.prog = scr.prog /\ e.pc = scr.pc
          /\ e.done /\ e.failed
          /\ e.mark = scr.mark /\ e.txtotal = scr.txtotal /\ e.started = scr.started
          /\ e.txdone = scr.txdone /\ e.txlen = scr.txlen
          /\ e.left = scr.left /\ e.idle = scr.idle
      BY <1>2 DEF ScrInv, ScrTypes, ScrStates
    <2> HIDE DEF p, e
    <2>4. Directive' = Directive /\ ScrEnd' = ScrEnd
      BY <2>1, <2>3 DEF Directive, ScrEnd
    <2>5. Placed(scr') = Placed(scr)
      BY <2>1, <2>3 DEF Placed
    <2>6. ScrTypes'
      BY <1>2, <2>1, <2>2, <2>3 DEF ScrInv, ScrTypes
    <2>7. ScrBooked'
      BY <1>2, <2>1, <2>2, <2>3, <2>4, <2>5 DEF ScrInv, ScrBooked
    <2>8. ScrPatient'
      BY <1>2, <2>1, <2>2, <2>3, <2>4 DEF ScrInv, ScrPatient
    <2>9. ScrPassed'
      BY <1>2, <2>1, <2>2, <2>3, <2>4 DEF ScrInv, ScrPassed
    <2> QED BY <2>6, <2>7, <2>8, <2>9 DEF ScrInv
  <1> QED BY <1>1, <1>2

-----------------------------------------------------------------------------
(* What holds of a script. *)

LEMMA ScrBegins == ScrInit => ScrInv
  <1> SUFFICES ASSUME ScrInit PROVE ScrInv
    OBVIOUS
  <1> DEFINE s(prog) ==
        [prog |-> prog, pc |-> 1, started |-> FALSE, left |-> 0,
         want |-> "none", matched |-> FALSE, mark |-> 0, txlen |-> 0,
         txdone |-> 0, txtotal |-> 0, arrived |-> FALSE,
         failed |-> FALSE, done |-> FALSE, idle |-> 0]
  <1>1. PICK prog \in ScrPrograms : scr = s(prog)
    BY DEF ScrInit
  <1>2. /\ scr \in ScrStates /\ scr.prog = prog /\ scr.pc = 1 /\ ~scr.started
        /\ scr.mark = 0 /\ scr.txtotal = 0 /\ ~scr.done /\ ~scr.failed
    BY <1>1 DEF ScrStates, ScrTexts
  <1> HIDE DEF s
  <1>3. /\ scrPlant \in ScrPlants /\ scrPlant.rx = 0 /\ scrPlant.sent = 0
        /\ scrTurn = "pump"
    BY DEF ScrInit, ScrPlants
  <1>4. prog \in Seq(ScrDirectives)
    BY ScrAssumption DEF ScrDirectives
  <1>5. Len(prog) \in Nat
    BY <1>4
  <1>6. ScrTypes
    BY <1>2, <1>3, <1>5 DEF ScrTypes
  <1>7. ScrBooked /\ ScrPatient
    BY <1>2, <1>3 DEF ScrBooked, ScrPatient, Placed
  <1>8. ScrPassed
    BY <1>2, <1>3 DEF ScrPassed
  <1> QED BY <1>6, <1>7, <1>8 DEF ScrInv

LEMMA ScrStep == ScrInv /\ [ScrNext]_scrVars => ScrInv'
  <1> SUFFICES ASSUME ScrInv, [ScrNext]_scrVars PROVE ScrInv'
    OBVIOUS
  <1>1. CASE \E took \in BOOLEAN : Pump(took)
    BY <1>1, PumpStep
  <1>2. CASE PumpEnds
    BY <1>2, PumpEndsStep
  <1>3. CASE \E credit \in 0..ScrCredit, got \in 0..2, file, drop \in BOOLEAN,
                texts \in SUBSET (ScrTexts \ {"none"}) :
                  ModemStep(credit, got, texts, file, drop)
    BY <1>3, ModemStepStep
  <1>4. CASE EventLost \/ DeviceFails
    BY <1>4, ScrOtherSteps
  <1>5. CASE Over \/ UNCHANGED scrVars
    <2>1. scr' = scr /\ scrPlant' = scrPlant /\ scrTurn' = scrTurn
      BY <1>5 DEF Over, scrVars
    <2> QED BY <2>1 DEF ScrInv, ScrTypes, ScrBooked, ScrPatient,
                        ScrPassed, ScrEnd, Directive, Placed, Patience
  <1> QED BY <1>1, <1>2, <1>3, <1>4, <1>5 DEF ScrNext

\* Every byte the spine took is counted once by the script, a deadline and the
\* time nothing moved add up, and only the pump passes a line (script.c:
\* pump_send, directive, app_script_pump).
THEOREM ScriptInvariant == ScrSpec => []ScrInv
  <1>1. ScrInit => ScrInv
    BY ScrBegins
  <1>2. ScrInv /\ [ScrNext]_scrVars => ScrInv'
    BY ScrStep
  <1> QED BY <1>1, <1>2, PTL DEF ScrSpec

\* A script that passes @expect rx as its last line has had every byte its
\* @sends placed received (script.c, directive, "expect").
THEOREM ScriptVerified == ScrSpec => []ScrVerified
  <1>1. ScrInv => ScrVerified
    <2> SUFFICES ASSUME ScrInv, scr.done, ~scr.failed, scr.prog # <<>>,
                        scr.prog[Len(scr.prog)].op = "expectrx"
                 PROVE  scrPlant.rx = scrPlant.sent /\ scr.txtotal = scrPlant.sent
      BY DEF ScrVerified
    <2>1. ScrEnd /\ scrPlant.rx = scr.txtotal
      BY DEF ScrInv, ScrPassed
    <2>2. scrPlant.sent = scr.txtotal + 0 /\ scr.txtotal \in Nat
      BY <2>1 DEF ScrInv, ScrBooked, ScrTypes, ScrStates
    <2> QED BY <2>1, <2>2
  <1> QED BY <1>1, ScriptInvariant, PTL

\* A @send or a @wait rx= is given up only when nothing moved for as long as it
\* may stand still (script.c, pump_send and directive, "wait").
THEOREM ScriptStallOnly == ScrSpec => ScrStallOnly
  <1> DEFINE GivesUp == /\ ~scr.failed /\ scr'.failed /\ ~scrPlant'.dead
                        /\ Directive.op \in Transfers
                        /\ Directive.n \in 1..ScrXferMax
             Stalled == GivesUp => scr.idle >= Patience(Directive)
  <1>1. ScrInv /\ [ScrNext]_scrVars => [Stalled]_scrVars
    <2> SUFFICES ASSUME ScrInv, ScrNext, GivesUp
                 PROVE  scr.idle >= Patience(Directive)
      OBVIOUS
    <2>1. CASE \E took \in BOOLEAN : Pump(took)
      BY <2>1, PumpStep
    <2>2. CASE PumpEnds
      <3>1. scr' = [scr EXCEPT !.done = TRUE]
        BY <2>2 DEF PumpEnds
      <3> QED BY <3>1 DEF ScrInv, ScrTypes, ScrStates
    <2>3. CASE \E credit \in 0..ScrCredit, got \in 0..2, file, drop \in BOOLEAN,
                  texts \in SUBSET (ScrTexts \ {"none"}) :
                    ModemStep(credit, got, texts, file, drop)
      BY <2>3, ModemStepStep
    <2>4. CASE EventLost
      BY <2>4 DEF EventLost
    <2>5. CASE DeviceFails
      <3>1. scrPlant' = [scrPlant EXCEPT !.dead = TRUE] /\ scrPlant \in ScrPlants
        BY <2>5 DEF DeviceFails, ScrInv, ScrTypes
      <3>2. scrPlant'.dead
        BY <3>1 DEF ScrPlants
      <3> QED BY <3>2
    <2>6. CASE Over
      BY <2>6 DEF Over, scrVars
    <2> QED BY <2>1, <2>2, <2>3, <2>4, <2>5, <2>6 DEF ScrNext
  <1> QED BY <1>1, ScriptInvariant, PTL DEF ScrSpec, ScrStallOnly

-----------------------------------------------------------------------------
(* Asp.  First the laws of sequences the proofs need, whatever they hold.   *)

AspSpec == AspInit /\ [][AspNext]_aspVars

IsSeq(q) == \E S : q \in Seq(S)

LEMMA SeqConcat ==
    ASSUME NEW a, NEW b, IsSeq(a), IsSeq(b)
    PROVE  /\ IsSeq(a \o b)
           /\ Len(a) \in Nat /\ Len(b) \in Nat
           /\ Len(a \o b) = Len(a) + Len(b)
           /\ \A i \in 1..Len(a) + Len(b) :
                 (a \o b)[i] = IF i <= Len(a) THEN a[i] ELSE b[i - Len(a)]
<1>1. PICK S : a \in Seq(S)
    BY DEF IsSeq
<1>2. PICK T : b \in Seq(T)
    BY DEF IsSeq
<1>3. a \in Seq(S \cup T) /\ b \in Seq(S \cup T)
    BY <1>1, <1>2, SeqMonotonic, Zenon
<1>4. QED
    BY <1>3, ConcatProperties DEF IsSeq

LEMMA SeqLen ==
    ASSUME NEW a, IsSeq(a)
    PROVE  /\ Len(a) \in Nat
           /\ DOMAIN a = 1..Len(a)
           /\ a = <<>> <=> Len(a) = 0
BY LenProperties, EmptySeq DEF IsSeq

LEMMA SeqSame ==
    ASSUME NEW a, NEW b, IsSeq(a), IsSeq(b), Len(a) = Len(b),
           \A i \in 1..Len(a) : a[i] = b[i]
    PROVE  a = b
<1>1. PICK S : a \in Seq(S)
    BY DEF IsSeq
<1>2. PICK T : b \in Seq(T)
    BY DEF IsSeq
<1>3. a \in Seq(S \cup T) /\ b \in Seq(S \cup T)
    BY <1>1, <1>2, SeqMonotonic, Zenon
<1>4. QED
    BY <1>3, SeqEqual

LEMMA SeqGroup ==
    ASSUME NEW a, NEW b, NEW c, IsSeq(a), IsSeq(b), IsSeq(c)
    PROVE  (a \o b) \o c = a \o (b \o c)
<1>1. PICK S : a \in Seq(S)
    BY DEF IsSeq
<1>2. PICK T : b \in Seq(T)
    BY DEF IsSeq
<1>3. PICK U : c \in Seq(U)
    BY DEF IsSeq
<1> DEFINE V == S \cup T \cup U
<1>4. a \in Seq(V) /\ b \in Seq(V) /\ c \in Seq(V)
    BY <1>1, <1>2, <1>3, SeqMonotonic, Zenon
<1>5. QED
    BY <1>4, ConcatAssociative

LEMMA SeqTail ==
    ASSUME NEW a, IsSeq(a), a # <<>>
    PROVE  /\ IsSeq(Tail(a))
           /\ Len(a) \in Nat /\ Len(a) > 0
           /\ Len(Tail(a)) = Len(a) - 1
           /\ \A i \in 1..Len(a) - 1 : Tail(a)[i] = a[i + 1]
           /\ Head(a) = a[1]
BY HeadTailProperties, LenProperties, EmptySeq DEF IsSeq

LEMMA SeqNone == IsSeq(<<>>) /\ Len(<<>>) = 0
BY EmptySeq DEF IsSeq

LEMMA SeqNoneLeft ==
    ASSUME NEW a, IsSeq(a)
    PROVE  <<>> \o a = a /\ a \o <<>> = a
BY ConcatEmptySeq DEF IsSeq

LEMMA SeqOne ==
    ASSUME NEW u
    PROVE  IsSeq(<<u>>) /\ Len(<<u>>) = 1 /\ <<u>>[1] = u
<1>1. <<u>> \in Seq({u})
    OBVIOUS
<1>2. QED
    BY <1>1 DEF IsSeq

LEMMA SeqOfOne ==
    ASSUME NEW a, IsSeq(a), a # <<>>, Len(a) <= 1
    PROVE  a = <<a[1]>>
<1> DEFINE b == <<a[1]>>
<1>1. IsSeq(b) /\ Len(b) = 1 /\ b[1] = a[1]
    BY SeqOne
<1> HIDE DEF b
<1>2. Len(a) = 1
  <2>1. Len(a) \in Nat
    BY SeqTail
  <2>2. Len(a) > 0
    BY SeqTail
  <2>3. QED
    BY <2>1, <2>2
<1>3. \A i \in 1..Len(a) : a[i] = b[i]
    BY <1>1, <1>2
<1>4. a = b
    BY <1>1, <1>2, <1>3, SeqSame
<1>5. QED
    BY <1>4 DEF b

\* A queue is cut in two: what goes and what stays.
LEMMA SeqCut ==
    ASSUME NEW a, IsSeq(a), NEW n \in 0..Len(a)
    PROVE  /\ IsSeq(SubSeq(a, 1, n)) /\ IsSeq(SubSeq(a, n + 1, Len(a)))
           /\ Len(SubSeq(a, 1, n)) = n
           /\ \A i \in 1..n : SubSeq(a, 1, n)[i] = a[i]
           /\ SubSeq(a, 1, n) \o SubSeq(a, n + 1, Len(a)) = a
<1>1. PICK S : a \in Seq(S)
    BY DEF IsSeq
<1>2. Len(a) \in Nat /\ \A i \in 1..Len(a) : a[i] \in S
    BY <1>1, LenProperties, ElementOfSeq
<1>3. /\ SubSeq(a, 1, n) \in Seq(S)
      /\ Len(SubSeq(a, 1, n)) = n
      /\ \A i \in 1..n : SubSeq(a, 1, n)[i] = a[i]
    BY <1>2, SubSeqProperties
<1>4. /\ SubSeq(a, n + 1, Len(a)) \in Seq(S)
      /\ Len(SubSeq(a, n + 1, Len(a))) = Len(a) - n
      /\ \A i \in 1..Len(a) - n : SubSeq(a, n + 1, Len(a))[i] = a[n + i]
  <2>1. n + 1 \in Int /\ Len(a) \in Int /\ \A i \in n + 1..Len(a) : a[i] \in S
    BY <1>2
  <2>2. /\ SubSeq(a, n + 1, Len(a)) \in Seq(S)
        /\ Len(SubSeq(a, n + 1, Len(a))) =
              IF n + 1 <= Len(a) THEN Len(a) - (n + 1) + 1 ELSE 0
        /\ \A i \in 1..Len(a) - (n + 1) + 1 :
              SubSeq(a, n + 1, Len(a))[i] = a[(n + 1) + i - 1]
    BY <2>1, SubSeqProperties
  <2>3. QED
    BY <2>2, <1>2
<1>5. SubSeq(a, 1, n) \o SubSeq(a, n + 1, Len(a)) = a
  <2>1. IsSeq(SubSeq(a, 1, n)) /\ IsSeq(SubSeq(a, n + 1, Len(a)))
    BY <1>3, <1>4 DEF IsSeq
  <2> DEFINE p == SubSeq(a, 1, n)
             q == SubSeq(a, n + 1, Len(a))
  <2>2. /\ IsSeq(p \o q) /\ Len(p \o q) = n + (Len(a) - n)
        /\ \A i \in 1..n + (Len(a) - n) :
              (p \o q)[i] = IF i <= n THEN p[i] ELSE q[i - n]
    <3>1. IsSeq(p) /\ IsSeq(q) /\ Len(p) = n /\ Len(q) = Len(a) - n
      BY <2>1, <1>3, <1>4
    <3> HIDE DEF p, q
    <3>2. QED
      BY <3>1, SeqConcat
  <2>3. \A i \in 1..n : p[i] = a[i]
    BY <1>3
  <2>4. \A i \in 1..Len(a) - n : q[i] = a[n + i]
    BY <1>4
  <2> HIDE DEF p, q
  <2>5. Len(p \o q) = Len(a)
    BY <2>2, <1>2
  <2>6. ASSUME NEW i \in 1..Len(p \o q)
        PROVE  (p \o q)[i] = a[i]
    <3>1. i \in 1..n + (Len(a) - n)
      BY <2>5, <1>2
    <3>2. CASE i <= n
      <4>1. i \in 1..n
        BY <3>1, <3>2
      <4>2. QED
        BY <2>2, <2>3, <3>1, <3>2, <4>1
    <3>3. CASE ~(i <= n)
      <4>1. i - n \in 1..Len(a) - n /\ n + (i - n) = i
        BY <3>1, <3>3, <1>2
      <4>2. QED
        BY <2>2, <2>4, <3>1, <3>3, <4>1
    <3>4. QED
      BY <3>2, <3>3
  <2>7. p \o q = a
    BY <2>2, <2>5, <2>6, SeqSame
  <2>8. QED
    BY <2>7 DEF p, q
<1>6. QED
    BY <1>3, <1>4, <1>5 DEF IsSeq

-----------------------------------------------------------------------------
(* What is on its way from one end to the other: one unit after another.    *)

AspMsgs(F) == {F[i].m : i \in DOMAIN F}

Framed(F) ==
    /\ IsSeq(F)
    /\ \A i \in 1..Len(F) : IF i % 2 = 1 THEN F[i].part = "head"
                            ELSE F[i].part = "tail" /\ F[i].m = F[i - 1].m

\* Offers are made in the order of their ids.
OfferOrder(F) ==
    \A i, j \in 1..Len(F) :
        (i < j /\ F[i].m.type = "OFFER" /\ F[j].m.type = "OFFER") =>
            (F[i].m.id < F[j].m.id \/ (i % 2 = 1 /\ j = i + 1))

LEMMA UnitsAre ==
    ASSUME NEW m
    PROVE  /\ IsSeq(Units(m)) /\ Len(Units(m)) = 2
           /\ Units(m)[1].part = "head" /\ Units(m)[2].part = "tail"
           /\ Units(m)[1].m = m /\ Units(m)[2].m = m
<1> DEFINE h == [part |-> "head", m |-> m]
           t == [part |-> "tail", m |-> m]
<1>1. Units(m) = <<h, t>>
    BY DEF Units
<1>2. h.part = "head" /\ h.m = m /\ t.part = "tail" /\ t.m = m
    OBVIOUS
<1> HIDE DEF h, t
<1>3. <<h, t>> \in Seq({h, t}) /\ Len(<<h, t>>) = 2 /\ <<h, t>>[1] = h /\ <<h, t>>[2] = t
    OBVIOUS
<1>4. QED
    BY <1>1, <1>2, <1>3 DEF IsSeq

LEMMA MsgsConcat ==
    ASSUME NEW F, NEW G, IsSeq(F), IsSeq(G)
    PROVE  AspMsgs(F \o G) = AspMsgs(F) \cup AspMsgs(G)
<1>1. /\ IsSeq(F \o G) /\ Len(F) \in Nat /\ Len(G) \in Nat
      /\ Len(F \o G) = Len(F) + Len(G)
      /\ \A i \in 1..Len(F) + Len(G) :
            (F \o G)[i] = IF i <= Len(F) THEN F[i] ELSE G[i - Len(F)]
    BY SeqConcat
<1>2. /\ DOMAIN (F \o G) = 1..Len(F) + Len(G)
      /\ DOMAIN F = 1..Len(F) /\ DOMAIN G = 1..Len(G)
    BY <1>1, SeqLen
<1>3. ASSUME NEW m \in AspMsgs(F \o G)
      PROVE  m \in AspMsgs(F) \cup AspMsgs(G)
  <2>1. PICK i \in 1..Len(F) + Len(G) : m = (F \o G)[i].m
    BY <1>2 DEF AspMsgs
  <2>2. CASE i <= Len(F)
    <3>1. i \in DOMAIN F /\ m = F[i].m
      BY <1>1, <1>2, <2>1, <2>2
    <3>2. QED
      BY <3>1 DEF AspMsgs
  <2>3. CASE ~(i <= Len(F))
    <3>1. i - Len(F) \in DOMAIN G /\ m = G[i - Len(F)].m
      BY <1>1, <1>2, <2>1, <2>3
    <3>2. QED
      BY <3>1 DEF AspMsgs
  <2>4. QED
    BY <2>2, <2>3
<1>4. ASSUME NEW m \in AspMsgs(F)
      PROVE  m \in AspMsgs(F \o G)
  <2>1. PICK i \in 1..Len(F) : m = F[i].m
    BY <1>2 DEF AspMsgs
  <2>2. i \in DOMAIN (F \o G) /\ m = (F \o G)[i].m
    BY <1>1, <1>2, <2>1
  <2>3. QED
    BY <2>2 DEF AspMsgs
<1>5. ASSUME NEW m \in AspMsgs(G)
      PROVE  m \in AspMsgs(F \o G)
  <2>1. PICK i \in 1..Len(G) : m = G[i].m
    BY <1>2 DEF AspMsgs
  <2>2. i + Len(F) \in DOMAIN (F \o G) /\ m = (F \o G)[i + Len(F)].m
    BY <1>1, <1>2, <2>1
  <2>3. QED
    BY <2>2 DEF AspMsgs
<1>6. QED
    BY <1>3, <1>4, <1>5

\* A message queued behind the others.
LEMMA FlowAppend ==
    ASSUME NEW F, NEW m, Framed(F), OfferOrder(F), Len(F) % 2 = 0,
           m.type = "OFFER" =>
              \A k \in AspMsgs(F) : k.type = "OFFER" => k.id < m.id
    PROVE  /\ Framed(F \o Units(m)) /\ OfferOrder(F \o Units(m))
           /\ Len(F \o Units(m)) % 2 = 0
           /\ AspMsgs(F \o Units(m)) = AspMsgs(F) \cup {m}
           /\ F \o Units(m) # <<>>
           /\ (F \o Units(m))[1].m = IF F = <<>> THEN m ELSE F[1].m
<1> DEFINE U == Units(m)
           G == F \o U
           n == Len(F)
<1>1. /\ IsSeq(U) /\ Len(U) = 2
      /\ U[1].part = "head" /\ U[2].part = "tail" /\ U[1].m = m /\ U[2].m = m
    BY UnitsAre
<1>2. IsSeq(F)
    BY DEF Framed
<1> HIDE DEF U
<1>3. /\ IsSeq(G) /\ n \in Nat /\ Len(G) = n + 2
      /\ \A i \in 1..n + 2 : G[i] = IF i <= n THEN F[i] ELSE U[i - n]
  <2>1. /\ IsSeq(F \o U) /\ Len(F) \in Nat /\ Len(F \o U) = Len(F) + Len(U)
        /\ \A i \in 1..Len(F) + Len(U) :
              (F \o U)[i] = IF i <= Len(F) THEN F[i] ELSE U[i - Len(F)]
    BY <1>1, <1>2, SeqConcat
  <2>2. QED
    BY <2>1, <1>1
<1>4. n % 2 = 0
    OBVIOUS
<1>5. AspMsgs(G) = AspMsgs(F) \cup {m}
  <2>1. DOMAIN U = {1, 2}
    BY <1>1, SeqLen
  <2>2. AspMsgs(U) = {m}
    BY <1>1, <2>1 DEF AspMsgs
  <2>3. QED
    BY <1>1, <1>2, <2>2, MsgsConcat
<1>6. G # <<>>
    BY <1>3, SeqLen
<1>7. G[1].m = IF F = <<>> THEN m ELSE F[1].m
  <2>1. F = <<>> <=> n = 0
    BY <1>2, SeqLen
  <2>2. QED
    BY <1>1, <1>3, <2>1
<1>8. \A i \in 1..n : F[i].m \in AspMsgs(F)
    BY <1>2, SeqLen DEF AspMsgs
<1> HIDE DEF G, n
<1>9. ASSUME NEW i \in 1..n + 2
      PROVE  IF i % 2 = 1 THEN G[i].part = "head"
             ELSE G[i].part = "tail" /\ G[i].m = G[i - 1].m
  <2>1. CASE i <= n
    <3>1. i \in 1..n /\ (i > 1 => i - 1 \in 1..n + 2)
      BY <1>3, <2>1
    <3>2. IF i % 2 = 1 THEN F[i].part = "head"
          ELSE F[i].part = "tail" /\ F[i].m = F[i - 1].m
      BY <3>1 DEF Framed, n
    <3>3. i % 2 # 1 => i > 1
      BY <1>3
    <3>4. QED
      BY <1>3, <2>1, <3>1, <3>2, <3>3
  <2>2. CASE i = n + 1
    <3>1. i % 2 = 1 /\ G[i] = U[1]
      BY <1>3, <1>4, <2>2
    <3>2. QED
      BY <1>1, <3>1
  <2>3. CASE i = n + 2
    <3>1. i % 2 = 0 /\ G[i] = U[2] /\ G[i - 1] = U[1]
      BY <1>3, <1>4, <2>3
    <3>2. QED
      BY <1>1, <3>1
  <2>4. QED
    BY <1>3, <2>1, <2>2, <2>3
<1>10. ASSUME NEW i \in 1..n + 2, NEW j \in 1..n + 2, i < j,
              G[i].m.type = "OFFER", G[j].m.type = "OFFER"
       PROVE  G[i].m.id < G[j].m.id \/ (i % 2 = 1 /\ j = i + 1)
  <2>1. CASE j <= n
    <3>1. i \in 1..n /\ j \in 1..n /\ G[i] = F[i] /\ G[j] = F[j]
      BY <1>3, <1>10, <2>1
    <3>2. QED
      BY <1>10, <3>1 DEF OfferOrder, n
  <2>2. CASE i <= n /\ j > n
    <3>1. G[i] = F[i] /\ i \in 1..n /\ G[j] = U[j - n] /\ j - n \in {1, 2}
      BY <1>3, <2>2
    <3>2. G[j].m = m
      BY <1>1, <3>1
    <3>3. F[i].m \in AspMsgs(F)
      BY <1>8, <3>1
    <3>4. QED
      BY <1>10, <3>1, <3>2, <3>3
  <2>3. CASE i > n
    <3>1. i = n + 1 /\ j = n + 2
      BY <1>3, <1>10, <2>3
    <3>2. QED
      BY <1>3, <1>4, <3>1
  <2>4. QED
    BY <1>3, <2>1, <2>2, <2>3
<1>11. Len(G) % 2 = 0
    BY <1>3, <1>4
<1>12. Framed(G)
    BY <1>3, <1>9 DEF Framed
<1>13. OfferOrder(G)
    BY <1>3, <1>10 DEF OfferOrder
<1>14. QED
    BY <1>5, <1>6, <1>7, <1>11, <1>12, <1>13 DEF G, U

\* The reader has taken the first message.
LEMMA FlowTake ==
    ASSUME NEW F, Framed(F), OfferOrder(F), Len(F) >= 2
    PROVE  /\ Framed(Tail(Tail(F))) /\ OfferOrder(Tail(Tail(F)))
           /\ Len(Tail(Tail(F))) % 2 = Len(F) % 2
           /\ AspMsgs(Tail(Tail(F))) \subseteq AspMsgs(F)
           /\ F[1].m \in AspMsgs(F)
           /\ F[1].part = "head" /\ F[2].part = "tail" /\ F[2].m = F[1].m
           /\ F[1].m.type = "OFFER" =>
                 \A k \in AspMsgs(Tail(Tail(F))) :
                    k.type = "OFFER" => F[1].m.id < k.id
<1> DEFINE G == Tail(Tail(F))
           n == Len(F) - 2
<1>1. IsSeq(F)
    BY DEF Framed
<1>2. /\ IsSeq(Tail(F)) /\ Len(F) \in Nat /\ Len(Tail(F)) = Len(F) - 1
      /\ \A i \in 1..Len(F) - 1 : Tail(F)[i] = F[i + 1]
  <2>1. F # <<>>
    BY <1>1, SeqLen
  <2>2. QED
    BY <1>1, <2>1, SeqTail
<1>3. /\ IsSeq(G) /\ n \in Nat /\ Len(F) = n + 2 /\ Len(G) = n
      /\ \A i \in 1..n : G[i] = F[i + 2]
  <2>1. Tail(F) # <<>>
    <3>1. Len(Tail(F)) >= 1
      BY <1>2
    <3>2. QED
      BY <3>1, SeqNone
  <2>2. /\ IsSeq(Tail(Tail(F))) /\ Len(Tail(Tail(F))) = Len(Tail(F)) - 1
        /\ \A i \in 1..Len(Tail(F)) - 1 : Tail(Tail(F))[i] = Tail(F)[i + 1]
    BY <1>2, <2>1, SeqTail
  <2>3. QED
    BY <1>2, <2>2
<1>4. /\ DOMAIN F = 1..n + 2 /\ DOMAIN G = 1..n
    BY <1>1, <1>3, SeqLen
<1> HIDE DEF G, n
<1>5. F[1].part = "head" /\ F[2].part = "tail" /\ F[2].m = F[1].m
    BY <1>3 DEF Framed
<1>6. F[1].m \in AspMsgs(F)
    BY <1>3, <1>4 DEF AspMsgs
<1>7. \A m \in AspMsgs(G) : \E j \in 3..n + 2 : m = F[j].m
  <2> TAKE m \in AspMsgs(G)
  <2>1. PICK i \in 1..n : m = G[i].m
    BY <1>4 DEF AspMsgs
  <2>2. i + 2 \in 3..n + 2 /\ m = F[i + 2].m
    BY <1>3, <2>1
  <2>3. QED
    BY <2>2
<1>8. AspMsgs(G) \subseteq AspMsgs(F)
    BY <1>3, <1>4, <1>7 DEF AspMsgs
<1>9. F[1].m.type = "OFFER" =>
        \A k \in AspMsgs(G) : k.type = "OFFER" => F[1].m.id < k.id
  <2> SUFFICES ASSUME F[1].m.type = "OFFER", NEW k \in AspMsgs(G), k.type = "OFFER"
               PROVE  F[1].m.id < k.id
    OBVIOUS
  <2>1. PICK j \in 3..n + 2 : k = F[j].m
    BY <1>7
  <2>2. 1 < j /\ j # 2 /\ j \in 1..Len(F) /\ 1 \in 1..Len(F)
    BY <1>3, <2>1
  <2>3. QED
    BY <2>1, <2>2 DEF OfferOrder
<1>10. Framed(G)
  <2>1. ASSUME NEW i \in 1..n
        PROVE  IF i % 2 = 1 THEN G[i].part = "head"
               ELSE G[i].part = "tail" /\ G[i].m = G[i - 1].m
    <3>1. i + 2 \in 1..Len(F) /\ (i + 2) % 2 = i % 2 /\ G[i] = F[i + 2]
      BY <1>3
    <3>2. i % 2 # 1 => i - 1 \in 1..n
      BY <1>3
    <3>3. i % 2 # 1 => G[i - 1] = F[i + 1]
      BY <1>3, <3>2
    <3>4. (i + 2) - 1 = i + 1
      BY <1>3
    <3>5. IF i % 2 = 1 THEN F[i + 2].part = "head"
          ELSE F[i + 2].part = "tail" /\ F[i + 2].m = F[i + 1].m
      BY <3>1, <3>4 DEF Framed
    <3>6. QED
      BY <3>1, <3>3, <3>5
  <2>2. QED
    BY <1>3, <2>1 DEF Framed
<1>11. OfferOrder(G)
  <2> SUFFICES ASSUME NEW i \in 1..n, NEW j \in 1..n, i < j,
                      G[i].m.type = "OFFER", G[j].m.type = "OFFER"
               PROVE  G[i].m.id < G[j].m.id \/ (i % 2 = 1 /\ j = i + 1)
    BY <1>3 DEF OfferOrder
  <2>1. /\ i + 2 \in 1..Len(F) /\ j + 2 \in 1..Len(F) /\ i + 2 < j + 2
        /\ G[i] = F[i + 2] /\ G[j] = F[j + 2]
    BY <1>3
  <2>2. F[i + 2].m.id < F[j + 2].m.id \/ ((i + 2) % 2 = 1 /\ j + 2 = (i + 2) + 1)
    BY <2>1 DEF OfferOrder
  <2>3. QED
    BY <2>1, <2>2, <1>3
<1>12. Len(G) % 2 = Len(F) % 2
    BY <1>3
<1>13. QED
    BY <1>5, <1>6, <1>8, <1>9, <1>10, <1>11, <1>12 DEF G

\* The end of what was queued is dropped.
LEMMA FlowCut ==
    ASSUME NEW F, NEW G, IsSeq(F), IsSeq(G), Framed(F \o G), OfferOrder(F \o G)
    PROVE  /\ Framed(F) /\ OfferOrder(F)
           /\ AspMsgs(F) \subseteq AspMsgs(F \o G)
           /\ F # <<>> => F \o G # <<>> /\ (F \o G)[1] = F[1]
<1>1. /\ IsSeq(F \o G) /\ Len(F) \in Nat /\ Len(G) \in Nat
      /\ Len(F \o G) = Len(F) + Len(G)
      /\ \A i \in 1..Len(F) + Len(G) :
            (F \o G)[i] = IF i <= Len(F) THEN F[i] ELSE G[i - Len(F)]
    BY SeqConcat
<1>2. \A i \in 1..Len(F) : i \in 1..Len(F \o G) /\ (F \o G)[i] = F[i]
    BY <1>1
<1>3. AspMsgs(F) \subseteq AspMsgs(F \o G)
    BY MsgsConcat
<1>4. F # <<>> => F \o G # <<>> /\ (F \o G)[1] = F[1]
    BY <1>1, <1>2, SeqLen
<1>5. OfferOrder(F)
    BY <1>2 DEF OfferOrder
<1>6. Framed(F)
  <2>1. ASSUME NEW i \in 1..Len(F)
        PROVE  IF i % 2 = 1 THEN F[i].part = "head"
               ELSE F[i].part = "tail" /\ F[i].m = F[i - 1].m
    <3>1. i % 2 # 1 => i - 1 \in 1..Len(F)
      BY <1>1
    <3>2. QED
      BY <1>2, <3>1 DEF Framed
  <2>2. QED
    BY <2>1 DEF Framed
<1>7. QED
    BY <1>3, <1>4, <1>5, <1>6

-----------------------------------------------------------------------------
(* A transfer from s to r.  M is on its way from s to r, N from r to s.     *)

TransferIds(s, r, M, N) ==
    /\ s.txid \in Nat /\ s.next \in Nat /\ r.rxid \in Nat
    /\ s.txid < s.next /\ r.rxid < s.next
    /\ \A m \in M :
          m.type = "OFFER" => m.id \in Nat /\ r.rxid < m.id /\ m.id < s.next
    /\ \A m \in M : m.type \in {"START", "DONE"} => m.id \in Nat /\ m.id <= r.rxid
    /\ \A m \in N : m.type \in {"ACCEPT", "RESULT"} => m.id \in Nat /\ m.id <= r.rxid
    /\ s.tx \in {"RUNNING", "AWAIT_RESULT"} => s.txid <= r.rxid

\* The receiver has agreed to the offer it is at.
Answered(s, r, M, N) ==
    \/ \E m \in M : m.type \in {"START", "DONE"} /\ m.id = r.rxid
    \/ \E m \in N : m.type = "ACCEPT" /\ m.id = r.rxid
    \/ s.tx \in {"RUNNING", "AWAIT_RESULT"} /\ s.txid = r.rxid

\* From then on the file on disk is what the receiver has counted.
TransferBooked(s, r, M, N) ==
    (r.rx = "RECEIVING" /\ Answered(s, r, M, N)) =>
        (r.part = r.run \/ (~r.recvfp /\ r.run = <<>>))

\* Both ends mean the same file by an id.
TransferFile(s, r, M, N) ==
    /\ \A m \in M : m.type = "OFFER" => m.body \in s.offered /\ m.body # <<>>
    /\ r.rx = "RECEIVING" => r.rxfile \in s.offered /\ r.rxfile # <<>>
    /\ s.tx # "NONE" =>
          \A m \in M : (m.type = "OFFER" /\ m.id = s.txid) => m.body = s.txfile
    /\ (s.tx # "NONE" /\ r.rx = "RECEIVING" /\ r.rxid = s.txid) => r.rxfile = s.txfile
    /\ s.tx # "NONE" =>
          \A m \in N : (m.type = "RESULT" /\ m.id = s.txid /\ m.body = <<"OK">>) =>
                          s.txfile \in r.got

TransferWhole(s, r) ==
    /\ s.told \subseteq r.got
    /\ r.final # <<>> => r.final \in s.offered

Transfer(s, r, M, N) ==
    /\ TransferIds(s, r, M, N)
    /\ TransferBooked(s, r, M, N)
    /\ TransferFile(s, r, M, N)
    /\ TransferWhole(s, r)

SendSame(s, t) ==
    /\ t.tx = s.tx /\ t.txid = s.txid /\ t.txfile = s.txfile
    /\ t.next = s.next /\ t.offered = s.offered /\ t.told = s.told

RecvSame(r, t) ==
    /\ t.rx = r.rx /\ t.rxid = r.rxid /\ t.rxfile = r.rxfile
    /\ t.run = r.run /\ t.part = r.part /\ t.recvfp = r.recvfp
    /\ t.got = r.got /\ t.final = r.final

ForReceiver == {"OFFER", "START", "DONE"}
ForSender == {"ACCEPT", "RESULT"}

\* What a sender does, with the messages N to read, queueing m or nothing.
SendStays(s, t, m) == SendSame(s, t) /\ m.type \notin ForReceiver

SendSpendsId(s, t, m) ==
    /\ t.tx = s.tx /\ t.txid = s.txid /\ t.txfile = s.txfile
    /\ t.next = s.next + 1 /\ t.offered = s.offered /\ t.told = s.told
    /\ m.type \notin ForReceiver

SendOffers(s, t, m) ==
    /\ t.tx = "OFFERED" /\ t.txid = s.next /\ t.next = s.next + 1
    /\ t.txfile # <<>> /\ t.offered = s.offered \cup {t.txfile} /\ t.told = s.told
    /\ m.type = "OFFER" /\ m.id = s.next /\ m.body = t.txfile

SendGoesOn(s, t) ==
    /\ t.txid = s.txid /\ t.txfile = s.txfile
    /\ t.next = s.next /\ t.offered = s.offered

SendStarts(s, t, N, m) ==
    /\ SendGoesOn(s, t) /\ t.told = s.told
    /\ s.tx = "OFFERED" /\ t.tx = "RUNNING"
    /\ \E k \in N : k.type = "ACCEPT" /\ k.id = s.txid
    /\ m.type = "START" /\ m.id = s.txid

SendIsDone(s, t, m) ==
    /\ SendGoesOn(s, t) /\ t.told = s.told
    /\ s.tx = "RUNNING" /\ t.tx = "AWAIT_RESULT"
    /\ m.type = "DONE" /\ m.id = s.txid

SendEnds(s, t, N, m) ==
    /\ SendGoesOn(s, t) /\ t.tx = "NONE"
    /\ \/ t.told = s.told
       \/ /\ s.tx # "NONE" /\ t.told = s.told \cup {s.txfile}
          /\ \E k \in N : k.type = "RESULT" /\ k.id = s.txid /\ k.body = <<"OK">>
    /\ m.type \notin ForReceiver

SendMove(s, t, N, m) ==
    \/ SendStays(s, t, m)
    \/ SendSpendsId(s, t, m)
    \/ SendOffers(s, t, m)
    \/ SendStarts(s, t, N, m)
    \/ SendIsDone(s, t, m)
    \/ SendEnds(s, t, N, m)

\* What a receiver does, which leaves L of the messages M to read.
RecvStays(r, t, m) == RecvSame(r, t) /\ m.type \notin ForSender

RecvTakes(r, t, M, L, m) ==
    /\ \E k \in M : /\ k.type = "OFFER" /\ t.rxid = k.id /\ t.rxfile = k.body
                    /\ \A o \in L : o.type = "OFFER" => k.id < o.id
    /\ t.got = r.got /\ t.final = r.final
    /\ \/ m.type \notin ForSender
       \/ m.type = "ACCEPT" /\ m.id = t.rxid /\ t.run = t.part

RecvGoesOn(r, t) ==
    /\ r.rx = "RECEIVING" /\ t.rx = "RECEIVING"
    /\ t.rxid = r.rxid /\ t.rxfile = r.rxfile
    /\ t.got = r.got /\ t.final = r.final

RecvAgrees(r, t, m) ==
    /\ RecvGoesOn(r, t) /\ t.run = t.part
    /\ m.type = "ACCEPT" /\ m.id = r.rxid

RecvRestarts(r, t, M, m) ==
    /\ RecvGoesOn(r, t)
    /\ \E k \in M : k.type = "START" /\ k.id = r.rxid
    /\ t.run = <<>> /\ t.recvfp = r.recvfp
    /\ r.recvfp => t.part = <<>>
    /\ m.type \notin ForSender

RecvWrites(r, t, m) ==
    /\ RecvGoesOn(r, t)
    /\ r.recvfp
    /\ \E x : t.part = r.part \o x /\ t.run = r.run \o x
    /\ m.type \notin ForSender

RecvHasAll(r, t, M, m) ==
    /\ r.rx = "RECEIVING" /\ t.rx = "NONE" /\ t.rxid = r.rxid
    /\ r.run = r.rxfile
    /\ \E k \in M : k.type = "DONE" /\ k.id = r.rxid
    /\ t.got = r.got \cup {r.part} /\ t.final \in {r.final, r.part}
    /\ m.type = "RESULT" /\ m.id = r.rxid

RecvEnds(r, t, m) ==
    /\ t.rx = "NONE" /\ t.rxid = r.rxid
    /\ t.got = r.got /\ t.final = r.final
    /\ \/ m.type \notin ForSender
       \/ m.type = "RESULT" /\ m.id = r.rxid /\ m.body # <<"OK">>

RecvMove(r, t, M, L, m) ==
    \/ RecvStays(r, t, m)
    \/ RecvTakes(r, t, M, L, m)
    \/ RecvAgrees(r, t, m)
    \/ RecvRestarts(r, t, M, m)
    \/ RecvWrites(r, t, m)
    \/ RecvHasAll(r, t, M, m)
    \/ RecvEnds(r, t, m)

LEMMA SendMoveKeeps ==
    ASSUME NEW s, NEW t, NEW r, NEW m, NEW M, NEW N, NEW L, NEW K,
           Transfer(s, r, M, N), SendMove(s, t, N, m),
           L \subseteq M \cup {m}, K \subseteq N
    PROVE  Transfer(t, r, L, K)
<1> USE DEF SendMove, SendStays, SendSpendsId, SendOffers, SendStarts, SendIsDone,
            SendEnds, SendGoesOn, SendSame, ForReceiver
<1>1. TransferIds(s, r, M, N) /\ TransferBooked(s, r, M, N)
      /\ TransferFile(s, r, M, N) /\ TransferWhole(s, r)
    BY DEF Transfer
<1>2. TransferIds(t, r, L, K)
    BY <1>1 DEF TransferIds
<1>3. TransferBooked(t, r, L, K)
  <2>1. Answered(t, r, L, K) => Answered(s, r, M, N)
    <3>1. CASE m.type # "OFFER" /\ m.type \in ForReceiver
      BY <1>1, <3>1 DEF Answered, TransferIds
    <3>2. CASE m.type = "OFFER" \/ m.type \notin ForReceiver
      BY <1>1, <3>2 DEF Answered, TransferIds
    <3>3. QED
      BY <3>1, <3>2
  <2>2. QED
    BY <1>1, <2>1 DEF TransferBooked
<1>4. TransferFile(t, r, L, K)
    BY <1>1 DEF TransferIds, TransferFile
<1>5. TransferWhole(t, r)
    BY <1>1 DEF TransferFile, TransferWhole
<1>6. QED
    BY <1>2, <1>3, <1>4, <1>5 DEF Transfer

LEMMA RecvMoveKeeps ==
    ASSUME NEW s, NEW r, NEW t, NEW m, NEW M, NEW N, NEW L, NEW K,
           Transfer(s, r, M, N), RecvMove(r, t, M, L, m),
           L \subseteq M, K \subseteq N \cup {m}
    PROVE  Transfer(s, t, L, K)
<1> USE DEF ForSender, RecvGoesOn, RecvSame
<1>1. TransferIds(s, r, M, N) /\ TransferBooked(s, r, M, N)
      /\ TransferFile(s, r, M, N) /\ TransferWhole(s, r)
    BY DEF Transfer
<1>2. TransferIds(s, t, L, K)
    BY <1>1 DEF TransferIds, RecvMove, RecvStays, RecvTakes,
                RecvAgrees, RecvRestarts, RecvWrites, RecvHasAll, RecvEnds
<1>3. TransferBooked(s, t, L, K)
  <2> SUFFICES ASSUME t.rx = "RECEIVING", Answered(s, t, L, K)
               PROVE  t.part = t.run \/ (~t.recvfp /\ t.run = <<>>)
    BY DEF TransferBooked
  <2>1. CASE RecvStays(r, t, m)
    BY <1>1, <2>1 DEF TransferBooked, Answered, RecvStays
  <2>2. CASE RecvTakes(r, t, M, L, m)
    BY <1>1, <2>2 DEF TransferIds, Answered, RecvTakes
  <2>3. CASE RecvAgrees(r, t, m)
    BY <2>3 DEF RecvAgrees
  <2>4. CASE RecvRestarts(r, t, M, m)
    BY <2>4 DEF RecvRestarts
  <2>5. CASE RecvWrites(r, t, m)
    <3>1. r.rx = "RECEIVING" /\ Answered(s, r, M, N) /\ r.recvfp
      BY <2>5 DEF RecvWrites, Answered
    <3>2. r.part = r.run
      BY <1>1, <3>1 DEF TransferBooked
    <3>3. QED
      BY <2>5, <3>2 DEF RecvWrites
  <2>6. CASE RecvHasAll(r, t, M, m) \/ RecvEnds(r, t, m)
    BY <2>6 DEF RecvHasAll, RecvEnds
  <2>7. QED
    BY <2>1, <2>2, <2>3, <2>4, <2>5, <2>6 DEF RecvMove
<1>4. TransferFile(s, t, L, K)
    BY <1>1 DEF TransferIds, TransferBooked, Answered, TransferFile, RecvMove, RecvStays, RecvTakes,
                RecvAgrees, RecvRestarts, RecvWrites, RecvHasAll, RecvEnds
<1>5. TransferWhole(s, t)
    BY <1>1 DEF TransferBooked, Answered, TransferFile, TransferWhole, RecvMove, RecvStays, RecvTakes,
                RecvAgrees, RecvRestarts, RecvWrites, RecvHasAll, RecvEnds
<1>6. QED
    BY <1>2, <1>3, <1>4, <1>5 DEF Transfer

-----------------------------------------------------------------------------
(* The handlers make these moves.                                           *)

AspFields ==
    {"state", "tx", "txid", "txoff", "txfile", "rx", "rxid", "rxfile", "have",
     "run", "out", "in", "next", "open", "owned", "sendfp", "recvfp", "part",
     "final", "wire", "auto", "asked", "room", "offered", "told", "got"}

EndOk(s) ==
    /\ DOMAIN s = AspFields
    /\ ~s.owned
    /\ s.room \in Nat
    /\ IsSeq(s.wire) /\ IsSeq(s.out) /\ IsSeq(s.in)
    /\ Len(s.wire) <= s.room
    /\ Len(s.in) <= 1

SessionSame(s, t) == t.open = s.open /\ t.state = s.state /\ t.in = s.in

\* Nothing new is on its way, or m is, last.
Queued(s, t, m) ==
    \/ t.wire \o t.out = s.wire \o s.out
    \/ t.wire \o t.out = (s.wire \o s.out) \o Units(m)

LEMMA MinOfTwo ==
    ASSUME NEW a \in Nat, NEW b \in Nat
    PROVE  Min({a, b}) \in Nat /\ Min({a, b}) <= a /\ Min({a, b}) <= b
<1>1. \E x \in {a, b} : \A y \in {a, b} : x =< y
    OBVIOUS
<1>2. Min({a, b}) \in {a, b} /\ \A y \in {a, b} : Min({a, b}) =< y
    BY <1>1 DEF Min
<1>3. QED
    BY <1>2

LEMMA FlushDoes ==
    ASSUME NEW s, EndOk(s)
    PROVE  /\ EndOk(Flush(s)) /\ SendSame(s, Flush(s)) /\ RecvSame(s, Flush(s))
           /\ SessionSame(s, Flush(s))
           /\ Flush(s).wire \o Flush(s).out = s.wire \o s.out
<1> DEFINE n == Min({Len(s.out), Credit(s)})
           w == SubSeq(s.out, 1, n)
           o == SubSeq(s.out, n + 1, Len(s.out))
           t == [s EXCEPT !.wire = s.wire \o w, !.out = o]
<1>1. Flush(s) = t
    BY DEF Flush
<1>2. Len(s.out) \in Nat /\ Len(s.wire) \in Nat
    BY SeqLen DEF EndOk
<1>3. Credit(s) = s.room - Len(s.wire) /\ Credit(s) \in Nat
    BY <1>2 DEF Credit, EndOk
<1>4. n \in 0..Len(s.out) /\ Len(s.wire) + n <= s.room
  <2>1. n \in Nat /\ n <= Len(s.out) /\ n <= Credit(s)
    BY <1>2, <1>3, MinOfTwo
  <2> HIDE DEF n
  <2>2. QED
    BY <2>1, <1>2, <1>3 DEF EndOk
<1> HIDE DEF n
<1>5. /\ IsSeq(w) /\ IsSeq(o) /\ Len(w) = n /\ w \o o = s.out
    BY <1>4, SeqCut DEF EndOk
<1> HIDE DEF w, o
<1>6. /\ IsSeq(s.wire \o w) /\ Len(s.wire \o w) = Len(s.wire) + n
      /\ (s.wire \o w) \o o = s.wire \o s.out
  <2>1. IsSeq(s.wire)
    BY DEF EndOk
  <2>2. IsSeq(s.wire \o w) /\ Len(s.wire \o w) = Len(s.wire) + Len(w)
    BY <1>5, <2>1, SeqConcat
  <2>3. (s.wire \o w) \o o = s.wire \o s.out
    <3> DEFINE q == s.wire
    <3>1. IsSeq(q) /\ IsSeq(w) /\ IsSeq(o)
      BY <1>5, <2>1
    <3> HIDE DEF q
    <3>2. (q \o w) \o o = q \o (w \o o)
      BY <3>1, SeqGroup
    <3>3. QED
      BY <1>5, <3>2 DEF q
  <2>4. QED
    BY <1>5, <2>2, <2>3
<1>7. EndOk(t)
    BY <1>2, <1>4, <1>5, <1>6 DEF EndOk, AspFields
<1>8. SendSame(s, t) /\ RecvSame(s, t) /\ SessionSame(s, t)
    BY DEF SendSame, RecvSame, SessionSame, EndOk, AspFields
<1>9. t.wire \o t.out = s.wire \o s.out
    BY <1>6 DEF EndOk, AspFields
<1>10. QED
    BY <1>1, <1>7, <1>8, <1>9

LEMMA QueueDoes ==
    ASSUME NEW s, NEW m, EndOk(s)
    PROVE  /\ EndOk(QueueMsg(s, m))
           /\ SendSame(s, QueueMsg(s, m)) /\ RecvSame(s, QueueMsg(s, m))
           /\ SessionSame(s, QueueMsg(s, m))
           /\ Queued(s, QueueMsg(s, m), m)
<1>1. CASE s.out = <<>>
  <2> DEFINE u == [s EXCEPT !.out = Units(m)]
  <2>1. QueueMsg(s, m) = Flush(u)
    BY <1>1 DEF QueueMsg, CanQueue
  <2>2. EndOk(u) /\ u.wire = s.wire /\ u.out = Units(m)
    BY UnitsAre DEF EndOk, AspFields
  <2>3. SendSame(s, u) /\ RecvSame(s, u) /\ SessionSame(s, u)
    BY DEF SendSame, RecvSame, SessionSame, EndOk, AspFields
  <2>4. s.wire \o s.out = s.wire
    BY <1>1, SeqNoneLeft DEF EndOk
  <2> HIDE DEF u
  <2>5. /\ EndOk(Flush(u)) /\ SendSame(u, Flush(u)) /\ RecvSame(u, Flush(u))
        /\ SessionSame(u, Flush(u))
        /\ Flush(u).wire \o Flush(u).out = u.wire \o u.out
    BY <2>2, FlushDoes
  <2>6. SendSame(s, Flush(u)) /\ RecvSame(s, Flush(u)) /\ SessionSame(s, Flush(u))
    BY <2>3, <2>5 DEF SendSame, RecvSame, SessionSame
  <2>7. Queued(s, Flush(u), m)
    BY <2>2, <2>4, <2>5 DEF Queued
  <2>8. QED
    BY <2>1, <2>5, <2>6, <2>7
<1>2. CASE s.out # <<>>
  <2>1. QueueMsg(s, m) = s
    BY <1>2 DEF QueueMsg, CanQueue
  <2>2. QED
    BY <2>1 DEF SendSame, RecvSame, SessionSame, Queued
<1>3. QED
    BY <1>1, <1>2

\* A change that leaves the queues alone.
Apart(s, t) ==
    /\ DOMAIN t = DOMAIN s /\ t.owned = s.owned /\ t.room = s.room
    /\ t.wire = s.wire /\ t.out = s.out /\ SessionSame(s, t)

LEMMA ApartOk ==
    ASSUME NEW s, NEW t, EndOk(s), Apart(s, t)
    PROVE  EndOk(t)
BY DEF EndOk, Apart, SessionSame

\* One change apart from the queues and then a message.
LEMMA ChangeAndQueue ==
    ASSUME NEW s, NEW u, NEW m, EndOk(s), Apart(s, u)
    PROVE  /\ EndOk(QueueMsg(u, m))
           /\ SendSame(u, QueueMsg(u, m)) /\ RecvSame(u, QueueMsg(u, m))
           /\ SessionSame(s, QueueMsg(u, m))
           /\ Queued(s, QueueMsg(u, m), m)
<1>1. EndOk(u)
    BY ApartOk
<1>2. /\ EndOk(QueueMsg(u, m))
      /\ SendSame(u, QueueMsg(u, m)) /\ RecvSame(u, QueueMsg(u, m))
      /\ SessionSame(u, QueueMsg(u, m)) /\ Queued(u, QueueMsg(u, m), m)
    BY <1>1, QueueDoes
<1>3. QED
    BY <1>2 DEF Apart, SessionSame, Queued

\* What a handler of s does: the moves, and what it leaves of the session.
Does(s, t, M, L) ==
    \E m : /\ m.type # "MALFORMED"
           /\ EndOk(t) /\ SessionSame(s, t) /\ Queued(s, t, m)
           /\ SendMove(s, t, M, m)
           /\ RecvMove(s, t, M, L, m)

NoMsg == Msg("NOTHING", 0, 0, <<>>)

LEMMA StaysDoes ==
    ASSUME NEW s, NEW t, NEW M, NEW L, EndOk(s), Apart(s, t),
           SendSame(s, t), RecvSame(s, t)
    PROVE  Does(s, t, M, L)
<1>1. EndOk(t)
    BY ApartOk
<1>2. SessionSame(s, t) /\ Queued(s, t, NoMsg)
    BY DEF Apart, Queued
<1>3. SendStays(s, t, NoMsg) /\ RecvStays(s, t, NoMsg) /\ NoMsg.type # "MALFORMED"
    BY DEF SendStays, RecvStays, NoMsg, Msg, ForReceiver, ForSender
<1>4. QED
    BY <1>1, <1>2, <1>3 DEF Does, SendMove, RecvMove

LEMMA SameDoes ==
    ASSUME NEW s, NEW M, NEW L, EndOk(s)
    PROVE  Does(s, s, M, L)
BY StaysDoes DEF Apart, SessionSame, SendSame, RecvSame

\* A change of the receiver and a message, if there is one.
LEMMA RecvDoes ==
    ASSUME NEW s, NEW t, NEW m, NEW M, NEW L, EndOk(t), SessionSame(s, t),
           Queued(s, t, m), SendSame(s, t), RecvMove(s, t, M, L, m),
           m.type \notin ForReceiver, m.type # "MALFORMED"
    PROVE  Does(s, t, M, L)
BY DEF Does, SendMove, SendStays

LEMMA SendDoes ==
    ASSUME NEW s, NEW t, NEW m, NEW M, NEW L, EndOk(t), SessionSame(s, t),
           Queued(s, t, m), RecvSame(s, t), SendMove(s, t, M, m),
           m.type \notin ForSender, m.type # "MALFORMED"
    PROVE  Does(s, t, M, L)
BY DEF Does, RecvMove, RecvStays

LEMMA OnAcceptDoes ==
    ASSUME NEW s, NEW M, NEW L, NEW k \in M, EndOk(s), k.type = "ACCEPT"
    PROVE  Does(s, OnAccept(s, k), M, L)
<1> DEFINE from == IF PrefixMatches(s, k) THEN k.n ELSE 0
           u == [s EXCEPT !.txoff = from, !.tx = "RUNNING"]
           m == Msg("START", s.txid, from, <<>>)
           t == QueueMsg(u, m)
<1>1. CASE s.tx # "OFFERED" \/ k.id # s.txid \/ ~CanQueue(s)
    BY <1>1, SameDoes DEF OnAccept
<1>2. CASE ~(s.tx # "OFFERED" \/ k.id # s.txid \/ ~CanQueue(s))
  <2>1. OnAccept(s, k) = t
    BY <1>2 DEF OnAccept
  <2>2. /\ Apart(s, u) /\ RecvSame(s, u) /\ SendGoesOn(s, u)
        /\ u.told = s.told /\ u.tx = "RUNNING"
    BY DEF EndOk, AspFields, Apart, SessionSame, RecvSame, SendGoesOn
  <2>3. m.type = "START" /\ m.id = s.txid
    BY DEF Msg
  <2> HIDE DEF u, m, t
  <2>4. /\ EndOk(t) /\ SendSame(u, t) /\ RecvSame(u, t)
        /\ SessionSame(s, t) /\ Queued(s, t, m)
    BY <2>2, ChangeAndQueue DEF t
  <2>5. RecvSame(s, t)
    BY <2>2, <2>4 DEF RecvSame
  <2>6. SendStarts(s, t, M, m)
    BY <1>2, <2>2, <2>3, <2>4 DEF SendStarts, SendGoesOn, SendSame
  <2>7. QED
    BY <2>1, <2>3, <2>4, <2>5, <2>6, SendDoes DEF SendMove, ForSender
<1>3. QED
    BY <1>1, <1>2

LEMMA AnswerDoes ==
    ASSUME NEW s, NEW M, NEW L, NEW accept, EndOk(s)
    PROVE  Does(s, AnswerOffer(s, accept), M, L)
<1> DEFINE u == [s EXCEPT !.rx = "NONE"]
           no == Msg("REJECT", s.rxid, 0, <<>>)
           v == [s EXCEPT !.have = Len(s.part), !.run = s.part]
           yes == Msg("ACCEPT", s.rxid, Len(s.part), s.part)
<1>1. CASE s.rx # "RECEIVING" \/ (accept /\ ~CanQueue(s))
    BY <1>1, SameDoes DEF AnswerOffer
<1>2. CASE s.rx = "RECEIVING" /\ ~accept
  <2>1. AnswerOffer(s, accept) = QueueMsg(u, no)
    BY <1>2 DEF AnswerOffer
  <2>2. /\ Apart(s, u) /\ SendSame(s, u)
        /\ u.rx = "NONE" /\ u.rxid = s.rxid /\ u.got = s.got /\ u.final = s.final
    BY DEF EndOk, AspFields, Apart, SessionSame, SendSame
  <2>3. no.type = "REJECT"
    BY DEF Msg
  <2> HIDE DEF u, no
  <2> DEFINE t == QueueMsg(u, no)
  <2>4. /\ EndOk(t) /\ SendSame(u, t) /\ RecvSame(u, t)
        /\ SessionSame(s, t) /\ Queued(s, t, no)
    BY <2>2, ChangeAndQueue
  <2> HIDE DEF t
  <2>5. RecvEnds(s, t, no)
    BY <2>2, <2>3, <2>4 DEF RecvEnds, RecvSame, ForSender
  <2>6. SendSame(s, t)
    BY <2>2, <2>4 DEF SendSame
  <2>7. Does(s, t, M, L)
    BY <2>3, <2>4, <2>5, <2>6, RecvDoes DEF RecvMove, ForReceiver
  <2>8. QED
    BY <2>1, <2>7 DEF t
<1>3. CASE s.rx = "RECEIVING" /\ accept /\ CanQueue(s)
  <2>1. AnswerOffer(s, accept) = QueueMsg(v, yes)
    BY <1>3 DEF AnswerOffer
  <2>2. /\ Apart(s, v) /\ SendSame(s, v) /\ RecvGoesOn(s, v) /\ v.run = v.part
    BY <1>3 DEF EndOk, AspFields, Apart, SessionSame, SendSame, RecvGoesOn
  <2>3. yes.type = "ACCEPT" /\ yes.id = s.rxid
    BY DEF Msg
  <2> HIDE DEF v, yes
  <2> DEFINE t == QueueMsg(v, yes)
  <2>4. /\ EndOk(t) /\ SendSame(v, t) /\ RecvSame(v, t)
        /\ SessionSame(s, t) /\ Queued(s, t, yes)
    BY <2>2, ChangeAndQueue
  <2> HIDE DEF t
  <2>5. RecvAgrees(s, t, yes)
    BY <2>2, <2>3, <2>4 DEF RecvAgrees, RecvGoesOn, RecvSame
  <2>6. SendSame(s, t)
    BY <2>2, <2>4 DEF SendSame
  <2>7. Does(s, t, M, L)
    BY <2>3, <2>4, <2>5, <2>6, RecvDoes DEF RecvMove, ForReceiver
  <2>8. QED
    BY <2>1, <2>7 DEF t
<1>4. QED
    BY <1>1, <1>2, <1>3

LEMMA OnOfferDoes ==
    ASSUME NEW s, NEW M, NEW L, NEW k \in M, NEW disk, EndOk(s), k.type = "OFFER",
           \A o \in L : o.type = "OFFER" => k.id < o.id
    PROVE  Does(s, OnOffer(s, k, disk), M, L)
<1> DEFINE no == Msg("REJECT", k.id, 0, <<>>)
           u == [s EXCEPT !.rx = "RECEIVING", !.rxid = k.id,
                          !.rxfile = k.body, !.have = 0, !.run = <<>>,
                          !.recvfp = disk # "full"]
<1>1. CASE s.rx # "NONE"
  <2>1. OnOffer(s, k, disk) = QueueMsg(s, no)
    BY <1>1 DEF OnOffer
  <2>2. no.type = "REJECT"
    BY DEF Msg
  <2> HIDE DEF no
  <2> DEFINE t == QueueMsg(s, no)
  <2>3. /\ EndOk(t) /\ SendSame(s, t) /\ RecvSame(s, t)
        /\ SessionSame(s, t) /\ Queued(s, t, no)
    BY QueueDoes
  <2> HIDE DEF t
  <2>4. Does(s, t, M, L)
    BY <2>2, <2>3, RecvDoes DEF RecvMove, RecvStays, ForReceiver, ForSender
  <2>5. QED
    BY <2>1, <2>4 DEF t
<1>2. CASE s.rx = "NONE"
  <2>1. /\ Apart(s, u) /\ SendSame(s, u)
        /\ u.rx = "RECEIVING" /\ u.rxid = k.id /\ u.rxfile = k.body
        /\ u.got = s.got /\ u.final = s.final /\ u.recvfp = (disk # "full")
    BY DEF EndOk, AspFields, Apart, SessionSame, SendSame
  <2>2. EndOk(u)
    BY <2>1, ApartOk
  <2>3. ASSUME NEW t, Apart(u, t), SendSame(u, t), RecvSame(u, t)
        PROVE  Does(s, t, M, L)
    <3>1. EndOk(t) /\ SessionSame(s, t) /\ Queued(s, t, NoMsg) /\ SendSame(s, t)
      BY <2>1, <2>2, <2>3, ApartOk DEF Apart, SessionSame, SendSame, Queued
    <3>2. NoMsg.type = "NOTHING"
      BY DEF NoMsg, Msg
    <3>3. RecvTakes(s, t, M, L, NoMsg)
      BY <2>1, <2>3, <3>2 DEF RecvTakes, RecvSame, ForSender
    <3>4. QED
      BY <3>1, <3>2, <3>3, RecvDoes DEF RecvMove, ForReceiver
  <2>4. CASE ~u.recvfp
    <3>1. OnOffer(s, k, disk) = u
      BY <1>2, <2>4 DEF OnOffer
    <3>2. QED
      BY <3>1, <2>3 DEF Apart, SessionSame, SendSame, RecvSame
  <2>5. CASE u.recvfp /\ ~s.auto
    <3>1. OnOffer(s, k, disk) = [u EXCEPT !.asked = TRUE]
      BY <1>2, <2>5 DEF OnOffer
    <3>2. Apart(u, [u EXCEPT !.asked = TRUE])
      BY <2>2 DEF EndOk, AspFields, Apart, SessionSame
    <3>3. SendSame(u, [u EXCEPT !.asked = TRUE]) /\ RecvSame(u, [u EXCEPT !.asked = TRUE])
      BY <2>2 DEF EndOk, AspFields, SendSame, RecvSame
    <3>4. QED
      BY <3>1, <3>2, <3>3, <2>3
  <2>6. CASE u.recvfp /\ s.auto
    <3>1. OnOffer(s, k, disk) = AnswerOffer(u, TRUE)
      BY <1>2, <2>6 DEF OnOffer
    <3>2. CASE ~CanQueue(u)
      <4>1. AnswerOffer(u, TRUE) = u
        BY <2>1, <3>2 DEF AnswerOffer
      <4>2. QED
        BY <3>1, <4>1, <2>3 DEF Apart, SessionSame, SendSame, RecvSame
    <3>3. CASE CanQueue(u)
      <4> DEFINE v == [u EXCEPT !.have = Len(u.part), !.run = u.part]
                 yes == Msg("ACCEPT", u.rxid, Len(u.part), u.part)
      <4>1. AnswerOffer(u, TRUE) = QueueMsg(v, yes)
        BY <2>1, <3>3 DEF AnswerOffer
      <4>2. /\ Apart(s, v) /\ SendSame(s, v)
            /\ v.rxid = k.id /\ v.rxfile = k.body /\ v.run = v.part
            /\ v.got = s.got /\ v.final = s.final
        BY DEF EndOk, AspFields, Apart, SessionSame, SendSame
      <4>3. yes.type = "ACCEPT" /\ yes.id = k.id
        BY <2>1 DEF Msg
      <4> HIDE DEF u, v, yes
      <4> DEFINE t == QueueMsg(v, yes)
      <4>4. /\ EndOk(t) /\ SendSame(v, t) /\ RecvSame(v, t)
            /\ SessionSame(s, t) /\ Queued(s, t, yes)
        BY <4>2, ChangeAndQueue
      <4> HIDE DEF t
      <4>5. RecvTakes(s, t, M, L, yes)
        BY <4>2, <4>3, <4>4 DEF RecvTakes, RecvSame
      <4>6. SendSame(s, t)
        BY <4>2, <4>4 DEF SendSame
      <4>7. Does(s, t, M, L)
        BY <4>3, <4>4, <4>5, <4>6, RecvDoes DEF RecvMove, ForReceiver
      <4>8. QED
        BY <3>1, <4>1, <4>7 DEF t
    <3>4. QED
      BY <3>2, <3>3
  <2>7. QED
    BY <2>4, <2>5, <2>6
<1>3. QED
    BY <1>1, <1>2

LEMMA OnStartDoes ==
    ASSUME NEW s, NEW M, NEW L, NEW k \in M, EndOk(s), k.type = "START"
    PROVE  Does(s, OnStart(s, k), M, L)
<1> DEFINE c == TruncateFile(s)
           u == [c EXCEPT !.run = <<>>]
<1>1. CASE s.rx # "RECEIVING" \/ k.id # s.rxid
    BY <1>1, SameDoes DEF OnStart
<1>2. CASE s.rx = "RECEIVING" /\ k.id = s.rxid
  <2>1. CASE ~(k.n = 0 /\ s.have > 0)
    <3> DEFINE t == [s EXCEPT !.have = k.n]
    <3>1. OnStart(s, k) = t
      BY <1>2, <2>1 DEF OnStart
    <3>2. Apart(s, t) /\ SendSame(s, t) /\ RecvSame(s, t)
      BY DEF EndOk, AspFields, Apart, SessionSame, SendSame, RecvSame
    <3>3. QED
      BY <3>1, <3>2, StaysDoes
  <2>2. CASE k.n = 0 /\ s.have > 0
    <3> DEFINE t == [u EXCEPT !.have = k.n]
    <3>1. OnStart(s, k) = t
      BY <1>2, <2>2 DEF OnStart
    <3>2. c = IF s.recvfp THEN [s EXCEPT !.part = <<>>] ELSE s
      BY DEF TruncateFile
    <3> HIDE DEF c
    <3>3. Apart(s, t) /\ SendSame(s, t)
      BY <3>2 DEF EndOk, AspFields, Apart, SessionSame, SendSame
    <3>4. /\ t.rx = s.rx /\ t.rxid = s.rxid /\ t.rxfile = s.rxfile /\ t.got = s.got
          /\ t.final = s.final /\ t.run = <<>> /\ t.recvfp = s.recvfp
          /\ s.recvfp => t.part = <<>>
      BY <3>2 DEF EndOk, AspFields
    <3> HIDE DEF t
    <3>5. EndOk(t) /\ SessionSame(s, t) /\ Queued(s, t, NoMsg)
      BY <3>3, ApartOk DEF Apart, Queued
    <3>6. NoMsg.type = "NOTHING"
      BY DEF NoMsg, Msg
    <3>7. RecvRestarts(s, t, M, NoMsg)
      BY <1>2, <3>4, <3>6 DEF RecvRestarts, RecvGoesOn, ForSender
    <3>8. QED
      BY <3>1, <3>3, <3>5, <3>6, <3>7, RecvDoes DEF RecvMove, ForReceiver
  <2>3. QED
    BY <2>1, <2>2
<1>3. QED
    BY <1>1, <1>2

LEMMA OnDataDoes ==
    ASSUME NEW s, NEW M, NEW L, NEW k, NEW disk, EndOk(s)
    PROVE  Does(s, OnData(s, k, disk), M, L)
<1>1. CASE s.rx # "RECEIVING"
    BY <1>1, SameDoes DEF OnData
<1>2. CASE s.rx = "RECEIVING" /\ (disk = "full" \/ ~s.recvfp)
  <2> DEFINE u == [s EXCEPT !.rx = "NONE"]
             m == Msg("RESULT", s.rxid, 0, <<"WRITE_FAILED">>)
             t == QueueMsg(u, m)
  <2>1. OnData(s, k, disk) = t
    BY <1>2 DEF OnData
  <2>2. /\ Apart(s, u) /\ SendSame(s, u)
        /\ u.rx = "NONE" /\ u.rxid = s.rxid /\ u.got = s.got /\ u.final = s.final
    BY DEF EndOk, AspFields, Apart, SessionSame, SendSame
  <2>3. m.type = "RESULT" /\ m.id = s.rxid /\ m.body # <<"OK">>
    <3>1. m.body = <<"WRITE_FAILED">> /\ m.body[1] # <<"OK">>[1]
      BY DEF Msg
    <3>2. QED
      BY <3>1 DEF Msg
  <2> HIDE DEF u, m, t
  <2>4. /\ EndOk(t) /\ SendSame(u, t) /\ RecvSame(u, t)
        /\ SessionSame(s, t) /\ Queued(s, t, m)
    BY <2>2, ChangeAndQueue DEF t
  <2>5. RecvEnds(s, t, m)
    BY <2>2, <2>3, <2>4 DEF RecvEnds, RecvSame
  <2>6. SendSame(s, t)
    BY <2>2, <2>4 DEF SendSame
  <2>7. QED
    BY <2>1, <2>3, <2>4, <2>5, <2>6, RecvDoes DEF RecvMove, ForReceiver
<1>3. CASE s.rx = "RECEIVING" /\ ~(disk = "full" \/ ~s.recvfp)
  <2> DEFINE w == [s EXCEPT !.part = @ \o k.body]
             t == [w EXCEPT !.run = @ \o k.body, !.have = @ + Len(k.body)]
  <2>1. OnData(s, k, disk) = t
    BY <1>3 DEF OnData, WriteFile
  <2>2. Apart(s, t) /\ SendSame(s, t)
    BY DEF EndOk, AspFields, Apart, SessionSame, SendSame
  <2>3. /\ t.rx = s.rx /\ t.rxid = s.rxid /\ t.rxfile = s.rxfile /\ t.got = s.got
        /\ t.final = s.final /\ t.part = s.part \o k.body /\ t.run = s.run \o k.body
    BY DEF EndOk, AspFields
  <2> HIDE DEF t
  <2>4. EndOk(t) /\ SessionSame(s, t) /\ Queued(s, t, NoMsg)
    BY <2>2, ApartOk DEF Apart, Queued
  <2>5. NoMsg.type = "NOTHING"
    BY DEF NoMsg, Msg
  <2>6. RecvWrites(s, t, NoMsg)
    BY <1>3, <2>3, <2>5 DEF RecvWrites, RecvGoesOn, ForSender
  <2>7. QED
    BY <2>1, <2>2, <2>4, <2>5, <2>6, RecvDoes DEF RecvMove, ForReceiver
<1>4. QED
    BY <1>1, <1>2, <1>3

\* What is done with the file after a transfer.
LEMMA RecvDoneDoes ==
    ASSUME NEW s, NEW ok, NEW renamed, DOMAIN s = AspFields
    PROVE  /\ Apart(s, RecvDone(s, ok, renamed))
           /\ SendSame(s, RecvDone(s, ok, renamed))
           /\ RecvDone(s, ok, renamed).rx = "NONE"
           /\ RecvDone(s, ok, renamed).rxid = s.rxid
           /\ IF ok THEN /\ RecvDone(s, ok, renamed).got = s.got \cup {s.part}
                         /\ RecvDone(s, ok, renamed).final \in {s.final, s.part}
                    ELSE /\ RecvDone(s, ok, renamed).got = s.got
                         /\ RecvDone(s, ok, renamed).final = s.final
<1> DEFINE t == [s EXCEPT !.rx = "NONE", !.recvfp = FALSE, !.asked = FALSE]
           a == [t EXCEPT !.final = s.part, !.part = <<>>, !.got = @ \cup {s.part}]
           b == [t EXCEPT !.got = @ \cup {s.part}]
<1>1. RecvDone(s, ok, renamed) = IF ~ok THEN t ELSE IF renamed THEN a ELSE b
    BY DEF RecvDone
<1>2. /\ Apart(s, t) /\ SendSame(s, t) /\ t.rx = "NONE" /\ t.rxid = s.rxid
      /\ t.got = s.got /\ t.final = s.final
    BY DEF AspFields, Apart, SessionSame, SendSame
<1>3. /\ Apart(s, a) /\ SendSame(s, a) /\ a.rx = "NONE" /\ a.rxid = s.rxid
      /\ a.got = s.got \cup {s.part} /\ a.final = s.part
    BY DEF AspFields, Apart, SessionSame, SendSame
<1>4. /\ Apart(s, b) /\ SendSame(s, b) /\ b.rx = "NONE" /\ b.rxid = s.rxid
      /\ b.got = s.got \cup {s.part} /\ b.final = s.final
    BY DEF AspFields, Apart, SessionSame, SendSame
<1> HIDE DEF t, a, b
<1>5. QED
    BY <1>1, <1>2, <1>3, <1>4

LEMMA OnDoneDoes ==
    ASSUME NEW s, NEW M, NEW L, NEW k \in M, NEW disk, EndOk(s), k.type = "DONE"
    PROVE  Does(s, OnDone(s, k, disk), M, L)
<1>1. CASE s.rx # "RECEIVING" \/ k.id # s.rxid
    BY <1>1, SameDoes DEF OnDone
<1>2. CASE s.rx = "RECEIVING" /\ k.id = s.rxid
  <2> DEFINE result == IF s.have # Len(s.rxfile) THEN "SHORT"
                       ELSE IF s.run # s.rxfile THEN "CRC_MISMATCH" ELSE "OK"
             m == Msg("RESULT", k.id, 0, <<result>>)
             q == QueueMsg(s, m)
             ok == result = "OK"
             renamed == disk # "norename"
             t == RecvDone(q, ok, renamed)
  <2>1. ok => s.run = s.rxfile
    OBVIOUS
  <2>2. OnDone(s, k, disk) = t
    BY <1>2 DEF OnDone
  <2>3. m.type = "RESULT" /\ m.id = s.rxid /\ m.body = <<result>>
    BY <1>2 DEF Msg
  <2>4. ok <=> result = "OK"
    OBVIOUS
  <2> HIDE DEF m, ok, renamed, result
  <2>5. /\ EndOk(q) /\ SendSame(s, q) /\ RecvSame(s, q)
        /\ SessionSame(s, q) /\ Queued(s, q, m)
    BY QueueDoes
  <2> HIDE DEF q
  <2>6. DOMAIN q = AspFields
    BY <2>5 DEF EndOk
  <2>7. /\ Apart(q, t) /\ SendSame(q, t) /\ t.rx = "NONE" /\ t.rxid = q.rxid
        /\ IF ok THEN t.got = q.got \cup {q.part} /\ t.final \in {q.final, q.part}
                 ELSE t.got = q.got /\ t.final = q.final
    BY <2>6, RecvDoneDoes
  <2> HIDE DEF t
  <2>8. /\ EndOk(t) /\ SessionSame(s, t) /\ Queued(s, t, m) /\ SendSame(s, t)
    BY <2>5, <2>7, ApartOk DEF Apart, SessionSame, SendSame, Queued
  <2>9. ~ok => m.body # <<"OK">>
    <3>1. <<result>>[1] = result /\ <<"OK">>[1] = "OK"
      OBVIOUS
    <3>2. QED
      BY <2>3, <2>4, <3>1
  <2>10. RecvMove(s, t, M, L, m)
    <3>1. CASE ok
      <4>1. RecvHasAll(s, t, M, m)
        BY <1>2, <2>1, <2>3, <2>5, <2>7, <3>1 DEF RecvHasAll, RecvSame
      <4>2. QED
        BY <4>1 DEF RecvMove
    <3>2. CASE ~ok
      <4>1. RecvEnds(s, t, m)
        BY <2>3, <2>5, <2>7, <2>9, <3>2 DEF RecvEnds, RecvSame
      <4>2. QED
        BY <4>1 DEF RecvMove
    <3>3. QED
      BY <3>1, <3>2
  <2>11. QED
    BY <2>2, <2>3, <2>8, <2>10, RecvDoes DEF ForReceiver
<1>3. QED
    BY <1>1, <1>2

\* The outbound transfer is over; nothing is queued.
LEMMA SendDoneDoes ==
    ASSUME NEW s, NEW u, NEW M, NEW L, EndOk(s), Apart(s, u), RecvSame(s, u),
           SendGoesOn(s, u),
           \/ u.told = s.told
           \/ /\ s.tx # "NONE" /\ u.told = s.told \cup {s.txfile}
              /\ \E k \in M : k.type = "RESULT" /\ k.id = s.txid /\ k.body = <<"OK">>
    PROVE  Does(s, SendDone(u), M, L)
<1> DEFINE t == SendDone(u)
<1>1. DOMAIN u = AspFields
    BY DEF EndOk, Apart
<1>2. /\ Apart(s, t) /\ RecvSame(s, t) /\ SendGoesOn(s, t) /\ t.told = u.told
      /\ t.tx = "NONE"
    BY <1>1 DEF SendDone, AspFields, Apart, SessionSame, RecvSame, SendGoesOn
<1> HIDE DEF t
<1>3. EndOk(t) /\ SessionSame(s, t) /\ Queued(s, t, NoMsg)
    BY <1>2, ApartOk DEF Apart, Queued
<1>4. NoMsg.type = "NOTHING"
    BY DEF NoMsg, Msg
<1>5. SendEnds(s, t, M, NoMsg)
    BY <1>2, <1>4 DEF SendEnds, ForReceiver
<1>6. Does(s, t, M, L)
    BY <1>2, <1>3, <1>4, <1>5, SendDoes DEF SendMove, ForSender
<1>7. QED
    BY <1>6 DEF t

LEMMA OnResultDoes ==
    ASSUME NEW s, NEW M, NEW L, NEW k \in M, EndOk(s), k.type = "RESULT"
    PROVE  Does(s, OnResult(s, k), M, L)
<1> DEFINE u == [s EXCEPT !.told = @ \cup {s.txfile}]
<1>1. CASE s.tx = "NONE" \/ k.id # s.txid
    BY <1>1, SameDoes DEF OnResult
<1>2. CASE ~(s.tx = "NONE" \/ k.id # s.txid)
  <2>1. CASE k.body = <<"OK">>
    <3>1. OnResult(s, k) = SendDone(u)
      BY <1>2, <2>1 DEF OnResult
    <3>2. /\ Apart(s, u) /\ RecvSame(s, u) /\ SendGoesOn(s, u)
          /\ u.told = s.told \cup {s.txfile}
      BY DEF EndOk, AspFields, Apart, SessionSame, RecvSame, SendGoesOn
    <3> HIDE DEF u
    <3>3. Does(s, SendDone(u), M, L)
      BY <1>2, <2>1, <3>2, SendDoneDoes
    <3>4. QED
      BY <3>1, <3>3
  <2>2. CASE k.body # <<"OK">>
    <3>1. OnResult(s, k) = SendDone(s)
      BY <1>2, <2>2 DEF OnResult
    <3>2. Apart(s, s) /\ RecvSame(s, s) /\ SendGoesOn(s, s)
      BY DEF Apart, SessionSame, RecvSame, SendGoesOn
    <3>3. QED
      BY <3>1, <3>2, SendDoneDoes
  <2>3. QED
    BY <2>1, <2>2
<1>3. QED
    BY <1>1, <1>2

LEMMA OnRefusalDoes ==
    ASSUME NEW s, NEW M, NEW L, NEW k, EndOk(s)
    PROVE  Does(s, OnRefusal(s, k), M, L)
<1>1. CASE s.tx # "NONE" /\ k.id = s.txid
  <2>1. OnRefusal(s, k) = SendDone(s)
    BY <1>1 DEF OnRefusal
  <2>2. Apart(s, s) /\ RecvSame(s, s) /\ SendGoesOn(s, s)
    BY DEF Apart, SessionSame, RecvSame, SendGoesOn
  <2>3. QED
    BY <2>1, <2>2, SendDoneDoes
<1>2. CASE ~(s.tx # "NONE" /\ k.id = s.txid) /\ s.rx # "NONE" /\ k.id = s.rxid
  <2> DEFINE no == FALSE
             t == RecvDone(s, no, no)
  <2>1. OnRefusal(s, k) = t
    BY <1>2 DEF OnRefusal
  <2>2. DOMAIN s = AspFields /\ ~no
    BY DEF EndOk
  <2> HIDE DEF no
  <2>3. /\ Apart(s, t) /\ SendSame(s, t) /\ t.rx = "NONE" /\ t.rxid = s.rxid
        /\ t.got = s.got /\ t.final = s.final
    BY <2>2, RecvDoneDoes
  <2> HIDE DEF t
  <2>4. EndOk(t) /\ SessionSame(s, t) /\ Queued(s, t, NoMsg)
    BY <2>3, ApartOk DEF Apart, Queued
  <2>5. NoMsg.type = "NOTHING"
    BY DEF NoMsg, Msg
  <2>6. RecvEnds(s, t, NoMsg)
    BY <2>3, <2>5 DEF RecvEnds, ForSender
  <2>7. QED
    BY <2>1, <2>3, <2>4, <2>5, <2>6, RecvDoes DEF RecvMove, ForReceiver
<1>3. CASE /\ ~(s.tx # "NONE" /\ k.id = s.txid)
           /\ ~(s.rx # "NONE" /\ k.id = s.rxid)
  <2>1. OnRefusal(s, k) = s
    BY <1>3 DEF OnRefusal
  <2>2. QED
    BY <2>1, SameDoes
<1>4. QED
    BY <1>1, <1>2, <1>3

\* The same after something that changed none of this.
LEMMA AfterDoes ==
    ASSUME NEW s, NEW f, NEW t, NEW M, NEW L, SendSame(s, f), RecvSame(s, f),
           SessionSame(s, f), f.wire \o f.out = s.wire \o s.out, Does(f, t, M, L)
    PROVE  Does(s, t, M, L)
<1>1. PICK m : /\ m.type # "MALFORMED"
               /\ EndOk(t) /\ SessionSame(f, t) /\ Queued(f, t, m)
               /\ SendMove(f, t, M, m)
               /\ RecvMove(f, t, M, L, m)
    BY DEF Does
<1>2. SessionSame(s, t) /\ Queued(s, t, m)
    BY <1>1 DEF SessionSame, Queued
<1>3. SendMove(s, t, M, m)
    BY <1>1 DEF SendMove, SendStays, SendSpendsId, SendOffers, SendStarts,
                SendIsDone, SendEnds, SendGoesOn, SendSame
<1>4. RecvMove(s, t, M, L, m)
    BY <1>1 DEF RecvMove, RecvStays, RecvTakes, RecvAgrees, RecvRestarts,
                RecvWrites, RecvHasAll, RecvEnds, RecvGoesOn, RecvSame
<1>5. QED
    BY <1>1, <1>2, <1>3, <1>4 DEF Does

\* A message of the sender's, after a change of its own.
LEMMA SendQueueDoes ==
    ASSUME NEW s, NEW u, NEW m, NEW M, NEW L, EndOk(s), Apart(s, u), RecvSame(s, u),
           \A t : SendSame(u, t) => SendMove(s, t, M, m),
           m.type \notin ForSender, m.type # "MALFORMED"
    PROVE  Does(s, QueueMsg(u, m), M, L)
<1> DEFINE t == QueueMsg(u, m)
<1>1. /\ EndOk(t) /\ SendSame(u, t) /\ RecvSame(u, t)
      /\ SessionSame(s, t) /\ Queued(s, t, m)
    BY ChangeAndQueue
<1> HIDE DEF t
<1>2. RecvSame(s, t) /\ SendMove(s, t, M, m)
    BY <1>1 DEF RecvSame
<1>3. Does(s, t, M, L)
    BY <1>1, <1>2, SendDoes
<1>4. QED
    BY <1>3 DEF t

LEMMA PlainQueueDoes ==
    ASSUME NEW s, NEW u, NEW m, NEW M, NEW L, EndOk(s), Apart(s, u), RecvSame(s, u),
           SendSame(s, u), m.type \in {"HELLO", "TEXT", "DATA", "REJECT", "CANCEL"}
    PROVE  Does(s, QueueMsg(u, m), M, L)
<1>1. \A t : SendSame(u, t) => SendMove(s, t, M, m)
    BY DEF SendMove, SendStays, SendSame, ForReceiver
<1>2. QED
    BY <1>1, SendQueueDoes DEF ForSender

LEMMA AspPumpDoes ==
    ASSUME NEW s, NEW M, NEW L, EndOk(s)
    PROVE  Does(s, PumpTx(s), M, L)
<1> DEFINE dn == Msg("DONE", s.txid, 0, <<>>)
           cancel == Msg("CANCEL", s.txid, 0, <<>>)
           data == Msg("DATA", 0, 0, <<s.sendfp[s.txoff + 1]>>)
           u == [s EXCEPT !.tx = "AWAIT_RESULT"]
           v == [s EXCEPT !.txoff = @ + 1]
<1>1. CASE s.tx # "RUNNING" \/ ~CanQueue(s) \/ Credit(s) < 2
    BY <1>1, SameDoes DEF PumpTx
<1>2. CASE ~(s.tx # "RUNNING" \/ ~CanQueue(s) \/ Credit(s) < 2)
  <2>1. CASE s.txoff >= Len(s.txfile)
    <3>1. PumpTx(s) = QueueMsg(u, dn)
      BY <1>2, <2>1 DEF PumpTx
    <3>2. /\ Apart(s, u) /\ RecvSame(s, u) /\ SendGoesOn(s, u) /\ u.told = s.told
          /\ u.tx = "AWAIT_RESULT"
      BY DEF EndOk, AspFields, Apart, SessionSame, RecvSame, SendGoesOn
    <3>3. dn.type = "DONE" /\ dn.id = s.txid
      BY DEF Msg
    <3> HIDE DEF u, dn
    <3>4. \A t : SendSame(u, t) => SendMove(s, t, M, dn)
      BY <1>2, <3>2, <3>3 DEF SendMove, SendIsDone, SendGoesOn, SendSame
    <3>5. Does(s, QueueMsg(u, dn), M, L)
      BY <3>2, <3>3, <3>4, SendQueueDoes DEF ForSender
    <3>6. QED
      BY <3>1, <3>5
  <2>2. CASE ~(s.txoff >= Len(s.txfile)) /\ s.txoff >= Len(s.sendfp)
    <3> DEFINE q == QueueMsg(s, cancel)
               t == SendDone(q)
    <3>1. PumpTx(s) = t
      BY <1>2, <2>2 DEF PumpTx
    <3>2. cancel.type = "CANCEL"
      BY DEF Msg
    <3> HIDE DEF cancel
    <3>3. /\ EndOk(q) /\ SendSame(s, q) /\ RecvSame(s, q)
          /\ SessionSame(s, q) /\ Queued(s, q, cancel)
      BY QueueDoes
    <3> HIDE DEF q
    <3>4. /\ Apart(q, t) /\ RecvSame(q, t) /\ SendGoesOn(q, t) /\ t.told = q.told
          /\ t.tx = "NONE"
      BY <3>3 DEF EndOk, SendDone, AspFields, Apart, SessionSame, RecvSame, SendGoesOn
    <3> HIDE DEF t
    <3>5. EndOk(t) /\ SessionSame(s, t) /\ Queued(s, t, cancel) /\ RecvSame(s, t)
      BY <3>3, <3>4, ApartOk DEF Apart, SessionSame, Queued, RecvSame
    <3>6. SendEnds(s, t, M, cancel)
      BY <3>2, <3>3, <3>4 DEF SendEnds, SendGoesOn, SendSame, ForReceiver
    <3>7. QED
      BY <3>1, <3>2, <3>5, <3>6, SendDoes DEF SendMove, ForSender
  <2>3. CASE ~(s.txoff >= Len(s.txfile)) /\ ~(s.txoff >= Len(s.sendfp))
    <3>1. PumpTx(s) = QueueMsg(v, data)
      BY <1>2, <2>3 DEF PumpTx
    <3>2. Apart(s, v) /\ RecvSame(s, v) /\ SendSame(s, v)
      BY DEF EndOk, AspFields, Apart, SessionSame, RecvSame, SendSame
    <3>3. data.type = "DATA"
      BY DEF Msg
    <3> HIDE DEF v, data
    <3>4. QED
      BY <3>1, <3>2, <3>3, PlainQueueDoes
  <2>4. QED
    BY <2>1, <2>2, <2>3
<1>3. QED
    BY <1>1, <1>2

LEMMA ServiceDoes ==
    ASSUME NEW s, NEW M, NEW L, EndOk(s)
    PROVE  Does(s, PumpTx(Flush(s)), M, L)
<1> DEFINE f == Flush(s)
<1>1. /\ EndOk(f) /\ SendSame(s, f) /\ RecvSame(s, f) /\ SessionSame(s, f)
      /\ f.wire \o f.out = s.wire \o s.out
    BY FlushDoes
<1> HIDE DEF f
<1>2. Does(f, PumpTx(f), M, L)
    BY <1>1, AspPumpDoes
<1>3. Does(s, PumpTx(f), M, L)
    BY <1>1, <1>2, AfterDoes
<1>4. QED
    BY <1>3 DEF f

LEMMA OfferFileDoes ==
    ASSUME NEW s, NEW f, NEW M, NEW L, EndOk(s), f # <<>>
    PROVE  Does(s, OfferFile(s, f), M, L)
<1> DEFINE u == [s EXCEPT !.sendfp = f, !.tx = "OFFERED", !.txid = s.next,
                          !.next = @ + 1, !.txfile = f, !.txoff = 0,
                          !.offered = @ \cup {f}]
           m == Msg("OFFER", s.next, Len(f), f)
<1>1. CASE ~CanQueue(s)
  <2> DEFINE t == [s EXCEPT !.next = @ + 1]
  <2>1. OfferFile(s, f) = t
    BY <1>1 DEF OfferFile
  <2>2. /\ Apart(s, t) /\ RecvSame(s, t)
        /\ t.tx = s.tx /\ t.txid = s.txid /\ t.txfile = s.txfile
        /\ t.next = s.next + 1 /\ t.offered = s.offered /\ t.told = s.told
    BY DEF EndOk, AspFields, Apart, SessionSame, RecvSame
  <2> HIDE DEF t
  <2>3. EndOk(t) /\ SessionSame(s, t) /\ Queued(s, t, NoMsg)
    BY <2>2, ApartOk DEF Apart, Queued
  <2>4. NoMsg.type = "NOTHING"
    BY DEF NoMsg, Msg
  <2>5. SendSpendsId(s, t, NoMsg)
    BY <2>2, <2>4 DEF SendSpendsId, ForReceiver
  <2>6. QED
    BY <2>1, <2>2, <2>3, <2>4, <2>5, SendDoes DEF SendMove, ForSender
<1>2. CASE CanQueue(s)
  <2>1. OfferFile(s, f) = QueueMsg(u, m)
    BY <1>2 DEF OfferFile
  <2>2. /\ Apart(s, u) /\ RecvSame(s, u)
        /\ u.tx = "OFFERED" /\ u.txid = s.next /\ u.txfile = f
        /\ u.next = s.next + 1 /\ u.offered = s.offered \cup {f} /\ u.told = s.told
    BY DEF EndOk, AspFields, Apart, SessionSame, RecvSame
  <2>3. m.type = "OFFER" /\ m.id = s.next /\ m.body = f
    BY DEF Msg
  <2> HIDE DEF u, m
  <2>4. \A t : SendSame(u, t) => SendMove(s, t, M, m)
    BY <2>2, <2>3 DEF SendMove, SendOffers, SendSame
  <2>5. Does(s, QueueMsg(u, m), M, L)
    BY <2>2, <2>3, <2>4, SendQueueDoes DEF ForSender
  <2>6. QED
    BY <2>1, <2>5
<1>3. QED
    BY <1>1, <1>2

LEMMA CancelDoes ==
    ASSUME NEW s, NEW inbound, NEW M, NEW L, EndOk(s)
    PROVE  Does(s, AspCancel(s, inbound), M, L)
<1> DEFINE u == [s EXCEPT !.rx = "NONE"]
           v == [s EXCEPT !.tx = "NONE"]
           m == Msg("CANCEL", s.rxid, 0, <<>>)
           n == Msg("CANCEL", s.txid, 0, <<>>)
<1>1. CASE inbound
  <2> DEFINE t == QueueMsg(u, m)
  <2>1. AspCancel(s, inbound) = t
    BY <1>1 DEF AspCancel
  <2>2. /\ Apart(s, u) /\ SendSame(s, u)
        /\ u.rx = "NONE" /\ u.rxid = s.rxid /\ u.got = s.got /\ u.final = s.final
    BY DEF EndOk, AspFields, Apart, SessionSame, SendSame
  <2>3. m.type = "CANCEL"
    BY DEF Msg
  <2> HIDE DEF u, m, t
  <2>4. /\ EndOk(t) /\ SendSame(u, t) /\ RecvSame(u, t)
        /\ SessionSame(s, t) /\ Queued(s, t, m)
    BY <2>2, ChangeAndQueue DEF t
  <2>5. RecvEnds(s, t, m) /\ SendSame(s, t)
    BY <2>2, <2>3, <2>4 DEF RecvEnds, RecvSame, SendSame, ForSender
  <2>6. QED
    BY <2>1, <2>3, <2>4, <2>5, RecvDoes DEF RecvMove, ForReceiver
<1>2. CASE ~inbound
  <2>1. AspCancel(s, inbound) = QueueMsg(v, n)
    BY <1>2 DEF AspCancel
  <2>2. /\ Apart(s, v) /\ RecvSame(s, v) /\ SendGoesOn(s, v) /\ v.told = s.told
        /\ v.tx = "NONE"
    BY DEF EndOk, AspFields, Apart, SessionSame, RecvSame, SendGoesOn
  <2>3. n.type = "CANCEL"
    BY DEF Msg
  <2> HIDE DEF v, n
  <2>4. \A t : SendSame(v, t) => SendMove(s, t, M, n)
    BY <2>2, <2>3 DEF SendMove, SendEnds, SendGoesOn, SendSame, ForReceiver
  <2>5. Does(s, QueueMsg(v, n), M, L)
    BY <2>2, <2>3, <2>4, SendQueueDoes DEF ForSender
  <2>6. QED
    BY <2>1, <2>5
<1>3. QED
    BY <1>1, <1>2

\* A message that was read: what Dispatch makes of it.
LEMMA DispatchDoes ==
    ASSUME NEW s, NEW M, NEW L, NEW k \in M, NEW disk, EndOk(s),
           k.type \notin {"HELLO", "MALFORMED"},
           k.type = "OFFER" => \A o \in L : o.type = "OFFER" => k.id < o.id
    PROVE  Does(s, Dispatch(s, k, disk), M, L)
<1>1. CASE k.type = "OFFER"
    BY <1>1, OnOfferDoes DEF Dispatch
<1>2. CASE k.type = "ACCEPT"
    BY <1>2, OnAcceptDoes DEF Dispatch
<1>3. CASE k.type = "START"
    BY <1>3, OnStartDoes DEF Dispatch
<1>4. CASE k.type = "DATA"
    BY <1>4, OnDataDoes DEF Dispatch
<1>5. CASE k.type = "DONE"
    BY <1>5, OnDoneDoes DEF Dispatch
<1>6. CASE k.type = "RESULT"
    BY <1>6, OnResultDoes DEF Dispatch
<1>7. CASE k.type \in {"REJECT", "CANCEL"}
    BY <1>7, OnRefusalDoes DEF Dispatch
<1>8. CASE k.type \notin {"OFFER", "ACCEPT", "START", "DATA", "DONE", "RESULT",
                          "REJECT", "CANCEL"}
    BY <1>8, SameDoes DEF Dispatch
<1>9. QED
    BY <1>1, <1>2, <1>3, <1>4, <1>5, <1>6, <1>7, <1>8

-----------------------------------------------------------------------------
(* One unit is read.                                                        *)

FlowOk(F) ==
    /\ Framed(F) /\ OfferOrder(F)
    /\ \A m \in AspMsgs(F) : m.type # "MALFORMED"

LEMMA TailOfConcat ==
    ASSUME NEW w, NEW o, IsSeq(w), IsSeq(o), w # <<>>
    PROVE  /\ Tail(w \o o) = Tail(w) \o o
           /\ <<Head(w)>> \o (Tail(w) \o o) = w \o o
           /\ (w \o o)[1] = Head(w) /\ w \o o # <<>>
           /\ IsSeq(w \o o) /\ IsSeq(Tail(w) \o o)
<1> DEFINE T == Tail(w)
           h == Head(w)
           C == w \o o
           D == T \o o
<1>1. /\ IsSeq(T) /\ Len(w) \in Nat /\ Len(w) > 0 /\ Len(T) = Len(w) - 1
      /\ \A i \in 1..Len(w) - 1 : T[i] = w[i + 1]
      /\ h = w[1]
    BY SeqTail
<1>2. /\ IsSeq(C) /\ Len(o) \in Nat /\ Len(C) = Len(w) + Len(o)
      /\ \A i \in 1..Len(w) + Len(o) :
            C[i] = IF i <= Len(w) THEN w[i] ELSE o[i - Len(w)]
    BY SeqConcat
<1> HIDE DEF T, h
<1>3. /\ IsSeq(D) /\ Len(D) = Len(T) + Len(o)
      /\ \A i \in 1..Len(T) + Len(o) :
            D[i] = IF i <= Len(T) THEN T[i] ELSE o[i - Len(T)]
    BY <1>1, SeqConcat
<1> HIDE DEF C, D
<1>4. C # <<>>
  <2>1. Len(C) > 0
    BY <1>1, <1>2
  <2>2. QED
    BY <2>1, SeqNone
<1>5. /\ IsSeq(Tail(C)) /\ Len(Tail(C)) = Len(C) - 1
      /\ \A i \in 1..Len(C) - 1 : Tail(C)[i] = C[i + 1]
    BY <1>2, <1>4, SeqTail
<1>6. \A i \in 1..Len(D) : D[i] = C[i + 1]
  <2> TAKE i \in 1..Len(D)
  <2>1. i \in 1..Len(T) + Len(o) /\ i + 1 \in 1..Len(w) + Len(o) /\ Len(T) = Len(w) - 1
    BY <1>1, <1>2, <1>3
  <2>2. CASE i <= Len(T)
    <3>1. D[i] = T[i] /\ i \in 1..Len(w) - 1 /\ C[i + 1] = w[i + 1]
      BY <1>1, <1>2, <1>3, <2>1, <2>2
    <3>2. QED
      BY <1>1, <3>1
  <2>3. CASE ~(i <= Len(T))
    <3>1. D[i] = o[i - Len(T)] /\ C[i + 1] = o[(i + 1) - Len(w)]
      BY <1>1, <1>2, <1>3, <2>1, <2>3
    <3>2. i - Len(T) = (i + 1) - Len(w)
      BY <1>1, <2>1
    <3>3. QED
      BY <3>1, <3>2
  <2>4. QED
    BY <2>2, <2>3
<1>7. Len(D) = Len(C) - 1 /\ Len(C) \in Nat
    BY <1>1, <1>2, <1>3
<1>8. Tail(C) = D
  <2>1. Len(Tail(C)) = Len(D) /\ \A i \in 1..Len(Tail(C)) : Tail(C)[i] = D[i]
    BY <1>5, <1>6, <1>7
  <2>2. QED
    BY <1>3, <1>5, <2>1, SeqSame
<1>9. <<h>> \o D = C
  <2> DEFINE H == <<h>>
  <2>1. IsSeq(H) /\ Len(H) = 1 /\ H[1] = h
    BY SeqOne
  <2> HIDE DEF H
  <2>2. /\ IsSeq(H \o D) /\ Len(H \o D) = 1 + Len(D)
        /\ \A i \in 1..1 + Len(D) : (H \o D)[i] = IF i <= 1 THEN H[i] ELSE D[i - 1]
    <3>1. /\ IsSeq(H \o D) /\ Len(H \o D) = Len(H) + Len(D)
          /\ \A i \in 1..Len(H) + Len(D) :
                (H \o D)[i] = IF i <= Len(H) THEN H[i] ELSE D[i - Len(H)]
      BY <1>3, <2>1, SeqConcat
    <3>2. QED
      BY <2>1, <3>1
  <2>3. Len(H \o D) = Len(C)
    BY <1>7, <2>2
  <2>4. C[1] = h
    BY <1>1, <1>2
  <2>5. ASSUME NEW i \in 1..Len(H \o D)
        PROVE  (H \o D)[i] = C[i]
    <3>1. i \in 1..1 + Len(D)
      BY <2>2
    <3>2. CASE i = 1
      BY <2>1, <2>2, <2>4, <3>1, <3>2
    <3>3. CASE i # 1
      <4>1. i - 1 \in 1..Len(D) /\ (i - 1) + 1 = i
        BY <1>7, <3>1, <3>3
      <4>2. (H \o D)[i] = D[i - 1]
        BY <2>2, <3>1, <4>1
      <4>3. QED
        BY <1>6, <4>1, <4>2
    <3>4. QED
      BY <3>2, <3>3
  <2>6. H \o D = C
    BY <1>2, <2>2, <2>3, <2>5, SeqSame
  <2>7. QED
    BY <2>6 DEF H
<1>10. C[1] = h
    BY <1>1, <1>2
<1>11. QED
    BY <1>2, <1>3, <1>4, <1>8, <1>9, <1>10 DEF C, D, T, h

LEMMA OneThenTail ==
    ASSUME NEW h, NEW q, IsSeq(q)
    PROVE  /\ Tail(<<h>> \o q) = q
           /\ (<<h>> \o q)[1] = h
           /\ IsSeq(<<h>> \o q) /\ Len(<<h>> \o q) = Len(q) + 1
           /\ q # <<>> => (<<h>> \o q)[2] = q[1]
<1> DEFINE H == <<h>>
<1>1. IsSeq(H) /\ Len(H) = 1 /\ H[1] = h
    BY SeqOne
<1>2. H # <<>>
  <2>1. Len(H) # 0
    BY <1>1
  <2>2. QED
    BY <2>1, SeqNone
<1>3. Head(H) = h /\ Tail(H) = <<>>
    OBVIOUS
<1> HIDE DEF H
<1>4. Tail(H \o q) = Tail(H) \o q /\ (H \o q)[1] = Head(H)
    BY <1>1, <1>2, TailOfConcat
<1>5. Tail(H \o q) = q
    BY <1>3, <1>4, SeqNoneLeft
<1>6. /\ IsSeq(H \o q) /\ Len(H \o q) = 1 + Len(q) /\ Len(q) \in Nat
      /\ \A i \in 1..1 + Len(q) : (H \o q)[i] = IF i <= 1 THEN H[i] ELSE q[i - 1]
    BY <1>1, SeqConcat
<1>7. q # <<>> => (H \o q)[2] = q[1]
    BY <1>6, SeqLen
<1>8. QED
    BY <1>3, <1>4, <1>5, <1>6, <1>7 DEF H

\* What is read and what is left of it.
Reads(s, t, F, G, m) ==
    /\ FlowOk(G) /\ AspMsgs(G) \subseteq AspMsgs(F) /\ Len(G) % 2 = Len(F) % 2
    /\ m.type # "MALFORMED"
    /\ EndOk(t) /\ t.open = s.open /\ t.state \in {"HELLO_SENT", "ASP"}
    /\ t.state # "ASP" => G = F /\ s.state # "ASP"
    /\ Queued(s, t, m)
    /\ SendMove(s, t, AspMsgs(F), m)
    /\ RecvMove(s, t, AspMsgs(F), AspMsgs(G), m)

LEMMA RecvReads ==
    ASSUME NEW s, NEW w, NEW o, NEW disk, EndOk(s), s.open,
           s.state \in {"HELLO_SENT", "ASP"}, IsSeq(w), IsSeq(o), w # <<>>,
           FlowOk(s.in \o (w \o o)),
           s.state # "ASP" => (s.in \o (w \o o))[1].m.type = "HELLO"
    PROVE  \E m : Reads(s, Recv(s, Head(w), disk), s.in \o (w \o o),
                        Recv(s, Head(w), disk).in \o (Tail(w) \o o), m)
<1> DEFINE u == Head(w)
           q == w \o o
           d == Tail(w) \o o
           F == s.in \o q
           t == Recv(s, u, disk)
           G == t.in \o d
<1>1. Tail(q) = d /\ <<u>> \o d = q /\ q[1] = u /\ q # <<>> /\ IsSeq(q) /\ IsSeq(d)
    BY TailOfConcat
<1>2. FlowOk(F) /\ (s.state # "ASP" => F[1].m.type = "HELLO")
    OBVIOUS
<1> HIDE DEF u, q, d
<1>3. CASE s.in = <<>>
  <2>1. F = q
    BY <1>1, <1>3, SeqNoneLeft
  <2>2. u.part = "head"
    <3>1. Len(q) >= 1
      BY <1>1, SeqLen
    <3>2. F[1].part = "head"
      BY <1>1, <1>2, <2>1, <3>1, SeqLen DEF FlowOk, Framed
    <3>3. QED
      BY <1>1, <2>1, <3>2
  <2>3. s.state = "HELLO_SENT" => IsHello(u)
    BY <1>1, <1>2, <2>1, <2>2 DEF IsHello
  <2>4. t = [s EXCEPT !.in = <<u>>]
    BY <1>3, <2>2, <2>3 DEF Recv
  <2>5. /\ DOMAIN t = DOMAIN s /\ t.owned = s.owned /\ t.room = s.room
        /\ t.wire = s.wire /\ t.out = s.out /\ t.in = <<u>>
        /\ t.open = s.open /\ t.state = s.state
        /\ SendSame(s, t) /\ RecvSame(s, t)
    BY <2>4 DEF EndOk, AspFields, SendSame, RecvSame
  <2> HIDE DEF t
  <2>6. G = F
    BY <1>1, <2>1, <2>5
  <2>7. EndOk(t)
    BY <2>5, SeqOne DEF EndOk
  <2>8. NoMsg.type = "NOTHING"
    BY DEF NoMsg, Msg
  <2>9. Queued(s, t, NoMsg)
    BY <2>5 DEF Queued
  <2>10. SendStays(s, t, NoMsg) /\ RecvStays(s, t, NoMsg)
    BY <2>5, <2>8 DEF SendStays, RecvStays, ForReceiver, ForSender
  <2> HIDE DEF F, G
  <2>11. Reads(s, t, F, G, NoMsg)
    BY <1>2, <2>5, <2>6, <2>7, <2>8, <2>9, <2>10 DEF Reads, SendMove, RecvMove
  <2>12. QED
    BY <2>11 DEF F, G, t, u, q, d
<1>4. CASE s.in # <<>>
  <2>1. s.in = <<s.in[1]>>
    BY <1>4, SeqOfOne DEF EndOk
  <2> DEFINE h == s.in[1]
             k == F[1].m
             v == [s EXCEPT !.in = <<>>]
  <2>2. /\ Tail(F) = q /\ F[1] = h /\ IsSeq(F) /\ Len(F) = Len(q) + 1 /\ F[2] = u
    <3>1. s.in = <<h>>
      BY <2>1
    <3> HIDE DEF h
    <3>2. QED
      BY <1>1, <3>1, OneThenTail
  <2>3. Tail(Tail(F)) = d
    BY <1>1, <2>2
  <2>4. Len(F) >= 2
    BY <1>1, <2>2, SeqLen
  <2> HIDE DEF F, h
  <2>5. /\ Framed(d) /\ OfferOrder(d) /\ Len(d) % 2 = Len(F) % 2
        /\ AspMsgs(d) \subseteq AspMsgs(F) /\ k \in AspMsgs(F)
        /\ h.part = "head" /\ u.part = "tail" /\ u.m = k
        /\ k.type = "OFFER" => \A n \in AspMsgs(d) : n.type = "OFFER" => k.id < n.id
    BY <1>2, <2>2, <2>3, <2>4, FlowTake DEF FlowOk
  <2>6. h.m = k
    BY <2>2
  <2> HIDE DEF k
  <2>7. k.type # "MALFORMED" /\ FlowOk(d) /\ (s.state # "ASP" => k.type = "HELLO")
    BY <1>2, <2>5 DEF FlowOk, k
  <2>8. Assemble(h, u) = k
    BY <2>5, <2>6 DEF Assemble
  <2>9. t = Dispatch(v, k, disk)
    BY <1>4, <2>5, <2>7, <2>8 DEF Recv, h
  <2>10. /\ DOMAIN v = DOMAIN s /\ v.owned = s.owned /\ v.room = s.room
         /\ v.wire = s.wire /\ v.out = s.out /\ v.in = <<>>
         /\ v.open = s.open /\ v.state = s.state
         /\ SendSame(s, v) /\ RecvSame(s, v)
    BY DEF EndOk, AspFields, SendSame, RecvSame
  <2>11. EndOk(v)
    BY <2>10, SeqNone DEF EndOk
  <2> HIDE DEF t
  <2>12. CASE k.type = "HELLO"
    <3>1. t = [v EXCEPT !.state = "ASP"]
      BY <2>9, <2>12 DEF Dispatch
    <3>2. /\ DOMAIN t = DOMAIN v /\ t.owned = v.owned /\ t.room = v.room
          /\ t.wire = v.wire /\ t.out = v.out /\ t.in = v.in
          /\ t.open = v.open /\ t.state = "ASP"
          /\ SendSame(v, t) /\ RecvSame(v, t)
      BY <2>11, <3>1 DEF EndOk, AspFields, SendSame, RecvSame
    <3>3. EndOk(t) /\ SendSame(s, t) /\ RecvSame(s, t) /\ Queued(s, t, NoMsg)
      BY <2>10, <2>11, <3>2 DEF EndOk, SendSame, RecvSame, Queued
    <3>4. NoMsg.type = "NOTHING"
      BY DEF NoMsg, Msg
    <3>5. SendStays(s, t, NoMsg) /\ RecvStays(s, t, NoMsg)
      BY <3>3, <3>4 DEF SendStays, RecvStays, ForReceiver, ForSender
    <3>6. G = d
      BY <1>1, <2>10, <3>2, SeqNoneLeft
    <3> HIDE DEF G
    <3>7. Reads(s, t, F, G, NoMsg)
      BY <2>5, <2>7, <2>10, <3>2, <3>3, <3>4, <3>5, <3>6
         DEF Reads, SendMove, RecvMove
    <3>8. QED
      BY <3>7 DEF F, G, t, u, q, d
  <2>13. CASE k.type # "HELLO"
    <3>1. Does(v, t, AspMsgs(F), AspMsgs(d))
      BY <2>5, <2>7, <2>9, <2>11, <2>13, DispatchDoes
    <3>2. PICK m : /\ m.type # "MALFORMED"
                   /\ EndOk(t) /\ SessionSame(v, t) /\ Queued(v, t, m)
                   /\ SendMove(v, t, AspMsgs(F), m)
                   /\ RecvMove(v, t, AspMsgs(F), AspMsgs(d), m)
      BY <3>1 DEF Does
    <3>3. SendMove(s, t, AspMsgs(F), m)
      BY <2>10, <3>2 DEF SendMove, SendStays, SendSpendsId, SendOffers, SendStarts,
                SendIsDone, SendEnds, SendGoesOn, SendSame
    <3>4. RecvMove(s, t, AspMsgs(F), AspMsgs(d), m)
      BY <2>10, <3>2 DEF RecvMove, RecvStays, RecvTakes, RecvAgrees, RecvRestarts,
                RecvWrites, RecvHasAll, RecvEnds, RecvGoesOn, RecvSame
    <3>5. Queued(s, t, m)
      BY <2>10, <3>2 DEF Queued
    <3>6. t.in = <<>> /\ t.open = s.open /\ t.state = s.state
      BY <2>10, <3>2 DEF SessionSame
    <3>7. G = d
      BY <1>1, <3>6, SeqNoneLeft
    <3> HIDE DEF G
    <3>8. Reads(s, t, F, G, m)
      BY <2>5, <2>7, <2>13, <3>2, <3>3, <3>4, <3>5, <3>6, <3>7 DEF Reads
    <3>9. QED
      BY <3>8 DEF F, G, t, u, q, d
  <2>14. QED
    BY <2>12, <2>13
<1>5. QED
    BY <1>3, <1>4

-----------------------------------------------------------------------------
(* Both ends.                                                               *)

\* One call and no guest: nothing is left over from an earlier session.
AspFirstSession == aspLeft.calls \in {0, 1} /\ aspLeft.guests = 0

AspLeftOk ==
    /\ {"calls", "guests", "contents"} \subseteq DOMAIN aspLeft
    /\ aspLeft.calls \in {0, 1} /\ aspLeft.guests = 0
    /\ <<>> \notin aspLeft.contents

\* End e reads, or will.
AspAlive(e) == asp[e].open \/ aspUp \/ aspLeft.calls = 1

\* What is on its way from p to e.
AspFlow(p, e) ==
    IF AspAlive(e) THEN asp[e].in \o (asp[p].wire \o asp[p].out) ELSE <<>>

AspFresh(s) ==
    /\ ~s.open /\ s.state = "IDLE"
    /\ s.tx = "NONE" /\ s.txid = 0 /\ s.txfile = <<>> /\ s.next = 1
    /\ s.rx = "NONE" /\ s.rxid = 0 /\ s.rxfile = <<>> /\ s.run = <<>>
    /\ s.recvfp = FALSE
    /\ s.in = <<>> /\ s.wire = <<>> /\ s.out = <<>>

AspEnd(s) ==
    /\ EndOk(s) /\ s.open \in BOOLEAN
    /\ IF s.open THEN s.state \in {"HELLO_SENT", "ASP"} ELSE s.sendfp = <<>>
    /\ (aspUp /\ ~s.open) => AspFresh(s)
    /\ aspLeft.calls = 1 => ~aspUp /\ AspFresh(s)

\* What e has to read begins with a HELLO, and ends within a message only if p
\* has closed.
AspReads(p, e) ==
    LET F == AspFlow(p, e)
    IN  /\ FlowOk(F)
        /\ AspAlive(p) => Len(F) % 2 = 0
        /\ (AspAlive(e) /\ asp[e].state # "ASP") =>
              IF F = <<>> THEN ~asp[p].open ELSE F[1].m.type = "HELLO"

AspSends(e, p) ==
    Transfer(asp[e], asp[p], AspMsgs(AspFlow(e, p)), AspMsgs(AspFlow(p, e)))

AspInv ==
    /\ AspLeftOk
    /\ DOMAIN asp = Ends
    /\ \A e \in Ends : AspEnd(asp[e])
    /\ \A e \in Ends : AspReads(Peer(e), e)
    /\ \A e \in Ends : AspSends(e, Peer(e))

LEMMA Peers ==
    ASSUME NEW e \in Ends
    PROVE  /\ Peer(e) \in Ends /\ Peer(e) # e /\ Peer(Peer(e)) = e
           /\ Ends = {e, Peer(e)}
<1>1. \E p \in Ends : p # e
    BY DEF Ends
<1>2. Peer(e) \in Ends /\ Peer(e) # e
    BY <1>1 DEF Peer
<1>3. \E p \in Ends : p # Peer(e)
    BY <1>2
<1>4. Peer(Peer(e)) \in Ends /\ Peer(Peer(e)) # Peer(e)
    BY <1>3 DEF Peer
<1>5. QED
    BY <1>2, <1>4 DEF Ends

LEMMA NoFlow == FlowOk(<<>>) /\ AspMsgs(<<>>) = {} /\ Len(<<>>) % 2 = 0
<1>1. IsSeq(<<>>) /\ Len(<<>>) = 0
    BY SeqNone
<1>2. DOMAIN <<>> = {}
    BY <1>1, SeqLen
<1>3. AspMsgs(<<>>) = {}
    BY <1>2 DEF AspMsgs
<1>4. QED
    BY <1>1, <1>3 DEF FlowOk, Framed, OfferOrder

\* Only these parts of the two ends matter, and fewer messages say less.
LEMMA TransferLess ==
    ASSUME NEW s, NEW r, NEW t, NEW q, NEW M, NEW N, NEW L, NEW K,
           Transfer(s, r, M, N), SendSame(s, t), RecvSame(r, q),
           L \subseteq M, K \subseteq N
    PROVE  Transfer(t, q, L, K)
<1> USE DEF SendSame, RecvSame
<1>1. TransferIds(s, r, M, N) /\ TransferBooked(s, r, M, N)
      /\ TransferFile(s, r, M, N) /\ TransferWhole(s, r)
    BY DEF Transfer
<1>2. TransferIds(t, q, L, K)
    BY <1>1 DEF TransferIds
<1>3. TransferBooked(t, q, L, K)
    BY <1>1 DEF TransferBooked, Answered
<1>4. TransferFile(t, q, L, K)
    BY <1>1 DEF TransferFile
<1>5. TransferWhole(t, q)
    BY <1>1 DEF TransferWhole
<1>6. QED
    BY <1>2, <1>3, <1>4, <1>5 DEF Transfer

LEMMA QueuedBehind ==
    ASSUME NEW a, NEW q, NEW m, IsSeq(a), IsSeq(q)
    PROVE  q \o (a \o Units(m)) = (q \o a) \o Units(m)
<1> DEFINE U == Units(m)
<1>1. IsSeq(U)
    BY UnitsAre
<1> HIDE DEF U
<1>2. (q \o a) \o U = q \o (a \o U)
    BY <1>1, SeqGroup
<1>3. QED
    BY <1>2 DEF U

\* m is queued behind F by a sender whose offers are all older.
LEMMA FlowQueues ==
    ASSUME NEW F, NEW m, FlowOk(F), Len(F) % 2 = 0, m.type # "MALFORMED",
           m.type = "OFFER" =>
              \A k \in AspMsgs(F) : k.type = "OFFER" => k.id < m.id
    PROVE  /\ FlowOk(F \o Units(m)) /\ Len(F \o Units(m)) % 2 = 0
           /\ AspMsgs(F \o Units(m)) \subseteq AspMsgs(F) \cup {m}
           /\ F # <<>> => F \o Units(m) # <<>> /\ (F \o Units(m))[1].m = F[1].m
           /\ F = <<>> => F \o Units(m) # <<>> /\ (F \o Units(m))[1].m = m
<1> DEFINE H == F \o Units(m)
<1>1. Framed(F) /\ OfferOrder(F)
    BY DEF FlowOk
<1>2. \A k \in AspMsgs(F) : k.type # "MALFORMED"
    BY DEF FlowOk
<1>3. Framed(H) /\ OfferOrder(H) /\ Len(H) % 2 = 0
    BY <1>1, FlowAppend, Zenon
<1>4. AspMsgs(H) = AspMsgs(F) \cup {m}
    BY <1>1, FlowAppend, Zenon
<1>5. H # <<>> /\ H[1].m = IF F = <<>> THEN m ELSE F[1].m
    BY <1>1, FlowAppend, Zenon
<1> HIDE DEF H
<1>6. FlowOk(H)
    BY <1>2, <1>3, <1>4 DEF FlowOk
<1>7. /\ FlowOk(H) /\ Len(H) % 2 = 0
      /\ AspMsgs(H) \subseteq AspMsgs(F) \cup {m}
      /\ F # <<>> => H # <<>> /\ H[1].m = F[1].m
      /\ F = <<>> => H # <<>> /\ H[1].m = m
    BY <1>3, <1>4, <1>5, <1>6
<1>8. QED
    BY <1>7 DEF H

\* End e becomes t, reading from the flow F and queueing m; its peer becomes r
\* by losing what was read from its queue.
Handled(e, t, r, m) ==
    LET s == asp[e]
        o == asp[Peer(e)]
        F == AspFlow(Peer(e), e)
        G == t.in \o (r.wire \o r.out)
    IN  /\ aspUp' = aspUp /\ AspLeftOk' /\ aspLeft'.calls = aspLeft.calls
        /\ DOMAIN asp' = Ends /\ asp'[e] = t /\ asp'[Peer(e)] = r
        /\ EndOk(r) /\ r.out = o.out /\ r.sendfp = o.sendfp
        /\ SessionSame(o, r) /\ SendSame(o, r) /\ RecvSame(o, r)
        /\ o.wire = <<>> => r.wire = <<>>
        /\ t.open /\ (aspUp \/ s.open)
        /\ ~s.open => m.type = "HELLO" /\ t.wire \o t.out # s.wire \o s.out
        /\ EndOk(s) /\ EndOk(t) /\ t.state \in {"HELLO_SENT", "ASP"}
        /\ Queued(s, t, m) /\ m.type # "MALFORMED"
        /\ FlowOk(G) /\ AspMsgs(G) \subseteq AspMsgs(F)
        /\ Len(G) % 2 = Len(F) % 2
        /\ t.state # "ASP" => G = F /\ s.state # "ASP"
        /\ SendMove(s, t, AspMsgs(F), m)
        /\ RecvMove(s, t, AspMsgs(F), AspMsgs(G), m)

LEMMA HandlerKeeps ==
    ASSUME AspInv, NEW e \in Ends, NEW t, NEW r, NEW m, Handled(e, t, r, m)
    PROVE  AspInv'
<1> DEFINE p == Peer(e)
           F == AspFlow(p, e)
           G == t.in \o (r.wire \o r.out)
           D == AspFlow(e, p)
           C == AspFlow(e, p)'
<1>1. p \in Ends /\ p # e /\ Peer(p) = e /\ Ends = {e, p}
    BY Peers
<1>2. /\ aspUp' = aspUp /\ AspLeftOk' /\ aspLeft'.calls = aspLeft.calls
      /\ DOMAIN asp' = Ends /\ asp'[e] = t /\ asp'[p] = r
      /\ EndOk(r) /\ r.out = asp[p].out /\ r.sendfp = asp[p].sendfp
      /\ SessionSame(asp[p], r) /\ SendSame(asp[p], r) /\ RecvSame(asp[p], r)
      /\ asp[p].wire = <<>> => r.wire = <<>>
    BY DEF Handled
<1>3. /\ t.open /\ (aspUp \/ asp[e].open)
      /\ ~asp[e].open =>
            m.type = "HELLO" /\ t.wire \o t.out # asp[e].wire \o asp[e].out
      /\ EndOk(asp[e]) /\ EndOk(t) /\ t.state \in {"HELLO_SENT", "ASP"}
      /\ Queued(asp[e], t, m) /\ m.type # "MALFORMED"
    BY DEF Handled
<1>4. /\ SendMove(asp[e], t, AspMsgs(F), m)
      /\ RecvMove(asp[e], t, AspMsgs(F), AspMsgs(G), m)
      /\ AspMsgs(G) \subseteq AspMsgs(F) /\ FlowOk(G) /\ Len(G) % 2 = Len(F) % 2
      /\ (t.state # "ASP" => G = F /\ asp[e].state # "ASP")
    BY DEF Handled
<1>5. /\ AspLeftOk /\ AspEnd(asp[e]) /\ AspEnd(asp[p])
      /\ AspReads(p, e) /\ AspReads(e, p)
      /\ AspSends(e, p) /\ AspSends(p, e)
    BY <1>1 DEF AspInv
<1>6. /\ AspAlive(e) /\ AspAlive(e)' /\ (AspAlive(p)' <=> AspAlive(p))
    BY <1>1, <1>2, <1>3 DEF AspAlive, SessionSame
<1>7. AspFlow(p, e)' = G
    BY <1>1, <1>2, <1>6 DEF AspFlow
<1>8. Transfer(asp[e], asp[p], AspMsgs(D), AspMsgs(F))
      /\ Transfer(asp[p], asp[e], AspMsgs(F), AspMsgs(D))
    BY <1>5 DEF AspSends
<1>9. /\ FlowOk(F) /\ (AspAlive(p) => Len(F) % 2 = 0)
      /\ asp[e].state # "ASP" => IF F = <<>> THEN ~asp[p].open
                                             ELSE F[1].m.type = "HELLO"
      /\ FlowOk(D) /\ Len(D) % 2 = 0
      /\ (AspAlive(p) /\ asp[p].state # "ASP") =>
            IF D = <<>> THEN ~asp[e].open ELSE D[1].m.type = "HELLO"
    BY <1>5, <1>6 DEF AspReads
<1>10. /\ FlowOk(C) /\ Len(C) % 2 = 0
       /\ AspMsgs(C) \subseteq AspMsgs(D) \cup {m}
       /\ (AspAlive(p) /\ asp[p].state # "ASP") => C # <<>> /\ C[1].m.type = "HELLO"
  <2>1. CASE ~AspAlive(p)
    <3>1. C = <<>>
      BY <1>1, <1>6, <2>1 DEF AspFlow
    <3>2. QED
      BY <2>1, <3>1, NoFlow
  <2>2. CASE AspAlive(p)
    <3>1. D = asp[p].in \o (asp[e].wire \o asp[e].out)
      BY <2>2 DEF AspFlow
    <3>2. C = asp[p].in \o (t.wire \o t.out)
      BY <1>1, <1>2, <1>6, <2>2 DEF AspFlow, SessionSame
    <3>3. IsSeq(asp[p].in)
      BY <1>5 DEF AspEnd, EndOk
    <3>4. TransferIds(asp[e], asp[p], AspMsgs(D), AspMsgs(F))
      BY <1>8 DEF Transfer
    <3> DEFINE a == asp[e].wire \o asp[e].out
               b == t.wire \o t.out
               q == asp[p].in
    <3>5. m.type = "OFFER" => \A k \in AspMsgs(D) : k.type = "OFFER" => k.id < m.id
      BY <1>4, <3>4 DEF SendMove, SendStays, SendSpendsId, SendOffers, SendStarts,
           SendIsDone, SendEnds, ForReceiver, TransferIds
    <3>6. IsSeq(a) /\ (b = a \/ b = a \o Units(m))
      BY <1>3, SeqConcat DEF EndOk, Queued
    <3>7. D = q \o a /\ C = q \o b /\ IsSeq(q)
      BY <3>1, <3>2, <3>3
    <3>8. FlowOk(D) /\ Len(D) % 2 = 0 /\ m.type # "MALFORMED"
      BY <1>9, <1>3
    <3> HIDE DEF F, G, D, C, q, a, b
    <3>9. CASE b = a
      <4>1. C = D
        BY <3>7, <3>9
      <4>2. t.wire \o t.out = asp[e].wire \o asp[e].out
        BY <3>9 DEF a, b
      <4>3. QED
        BY <1>9, <1>3, <2>2, <4>1, <4>2, <3>8
    <3>10. CASE b # a
      <4>1. C = D \o Units(m)
        <5>1. C = q \o (a \o Units(m))
          BY <3>6, <3>7, <3>10
        <5>2. q \o (a \o Units(m)) = (q \o a) \o Units(m)
          BY <3>6, <3>7, QueuedBehind
        <5>3. D = q \o a
          BY <3>7
        <5>4. QED
          BY <5>1, <5>2, <5>3
      <4> DEFINE H == D \o Units(m)
      <4>2. FlowOk(D) /\ Len(D) % 2 = 0 /\ m.type # "MALFORMED"
        BY <3>8
      <4>3. FlowOk(H)
        BY <3>5, <4>2, FlowQueues
      <4>4. Len(H) % 2 = 0
        BY <3>5, <4>2, FlowQueues
      <4>5. AspMsgs(H) \subseteq AspMsgs(D) \cup {m}
        BY <3>5, <4>2, FlowQueues
      <4>6. D # <<>> => H # <<>> /\ H[1].m = D[1].m
        BY <3>5, <4>2, FlowQueues
      <4>7. D = <<>> => H # <<>> /\ H[1].m = m
        BY <3>5, <4>2, FlowQueues
      <4> HIDE DEF H
      <4>8. /\ FlowOk(H) /\ Len(H) % 2 = 0
            /\ AspMsgs(H) \subseteq AspMsgs(D) \cup {m}
            /\ D # <<>> => H # <<>> /\ H[1].m = D[1].m
            /\ D = <<>> => H # <<>> /\ H[1].m = m
        BY <4>3, <4>4, <4>5, <4>6, <4>7
      <4> USE DEF H
      <4>9. ~asp[e].open => m.type = "HELLO"
        BY <1>3
      <4>10. (asp[p].state # "ASP" /\ D = <<>>) => m.type = "HELLO"
        BY <1>9, <2>2, <4>9
      <4>11. C = H
        BY <4>1
      <4> HIDE DEF H
      <4>12. (AspAlive(p) /\ asp[p].state # "ASP") => C # <<>> /\ C[1].m.type = "HELLO"
        <5>1. CASE D = <<>>
          BY <4>8, <4>10, <4>11, <5>1
        <5>2. CASE D # <<>>
          BY <1>9, <4>8, <4>11, <5>2
        <5>3. QED
          BY <5>1, <5>2
      <4>13. QED
        BY <4>8, <4>11, <4>12
    <3>11. QED
      BY <3>9, <3>10
  <2>3. QED
    BY <2>1, <2>2
<1> HIDE DEF F, G, D, C
<1>11. Transfer(t, r, AspMsgs(C), AspMsgs(G))
  <2>1. Transfer(t, asp[p], AspMsgs(C), AspMsgs(G))
    BY <1>8, <1>10, <1>4, <1>3, SendMoveKeeps
  <2>2. SendSame(t, t)
    BY DEF SendSame
  <2>3. QED
    BY <1>2, <2>1, <2>2, TransferLess
<1>12. Transfer(r, t, AspMsgs(G), AspMsgs(C))
  <2>1. Transfer(asp[p], t, AspMsgs(G), AspMsgs(C))
    BY <1>8, <1>10, <1>4, <1>3, RecvMoveKeeps
  <2>2. RecvSame(t, t)
    BY DEF RecvSame
  <2>3. QED
    BY <1>2, <2>1, <2>2, TransferLess
<1>13. AspSends(e, p)' /\ AspSends(p, e)'
    BY <1>1, <1>2, <1>7, <1>11, <1>12 DEF AspSends, C
<1>14. AspEnd(t)'
  <2>1. aspLeft.calls = 1 => FALSE
    BY <1>5, <1>3 DEF AspEnd, AspFresh
  <2>2. QED
    BY <1>2, <1>3, <2>1 DEF AspEnd
<1>15. AspEnd(r)'
    BY <1>5, <1>2 DEF AspEnd, AspFresh, SessionSame, SendSame, RecvSame
<1>16. AspReads(p, e)'
  <2>1. asp[p].open <=> r.open
    BY <1>2 DEF SessionSame
  <2>2. QED
    BY <1>1, <1>2, <1>6, <1>7, <1>9, <1>4, <2>1 DEF AspReads
<1>17. AspReads(e, p)'
  <2>1. asp[p].state = r.state
    BY <1>2 DEF SessionSame
  <2>2. QED
    BY <1>1, <1>2, <1>6, <1>10, <2>1 DEF AspReads, C
<1>18. QED
    BY <1>1, <1>2, <1>13, <1>14, <1>15, <1>16, <1>17 DEF AspInv

\* A step of end e alone.
LEMMA LocalKeeps ==
    ASSUME AspInv, NEW e \in Ends, NEW t, asp[e].open, Set(e, t),
           aspUp' = aspUp, AspLeftOk', aspLeft'.calls = aspLeft.calls,
           Does(asp[e], t, AspMsgs(AspFlow(Peer(e), e)),
                AspMsgs(AspFlow(Peer(e), e)))
    PROVE  AspInv'
<1> DEFINE p == Peer(e)
           F == AspFlow(p, e)
           r == asp[p]
<1>1. p \in Ends /\ p # e
    BY Peers
<1>2. /\ DOMAIN asp = Ends /\ EndOk(asp[e]) /\ EndOk(r)
      /\ asp[e].state \in {"HELLO_SENT", "ASP"} /\ AspReads(p, e)
    BY <1>1 DEF AspInv, AspEnd
<1>3. DOMAIN asp' = Ends /\ asp'[e] = t /\ asp'[p] = r
    BY <1>1, <1>2 DEF Set
<1>4. SessionSame(r, r) /\ SendSame(r, r) /\ RecvSame(r, r)
    BY DEF SessionSame, SendSame, RecvSame
<1>5. PICK m : /\ m.type # "MALFORMED"
               /\ EndOk(t) /\ SessionSame(asp[e], t) /\ Queued(asp[e], t, m)
               /\ SendMove(asp[e], t, AspMsgs(F), m)
               /\ RecvMove(asp[e], t, AspMsgs(F), AspMsgs(F), m)
    BY DEF Does
<1>6. t.open /\ t.state = asp[e].state /\ t.in = asp[e].in
    BY <1>5 DEF SessionSame
<1>7. t.in \o (r.wire \o r.out) = F
    BY <1>6 DEF AspFlow, AspAlive
<1>8. FlowOk(F)
    BY <1>2 DEF AspReads
<1>9. Handled(e, t, r, m)
  <2> HIDE DEF F
  <2> QED
    BY <1>2, <1>3, <1>4, <1>5, <1>6, <1>7, <1>8 DEF Handled, F
<1>10. QED
    BY <1>9, HandlerKeeps

\* What is spent besides calls and guests.
LEMMA SpendKeeps ==
    ASSUME AspLeftOk, NEW what, what \notin {"calls", "guests", "contents"},
           Spend(what)
    PROVE  AspLeftOk' /\ aspLeft'.calls = aspLeft.calls
BY DEF AspLeftOk, Spend

\* An end that has something open is open.
LEMMA SendsOpen ==
    ASSUME AspInv, NEW e \in Ends, asp[e].sendfp # <<>>
    PROVE  asp[e].open
BY DEF AspInv, AspEnd

LEMMA ServiceKeeps == ASSUME AspInv, NEW e \in Ends, Service(e) PROVE AspInv'
<1> DEFINE M == AspMsgs(AspFlow(Peer(e), e))
<1>1. EndOk(asp[e]) /\ AspLeftOk
    BY DEF AspInv, AspEnd
<1>2. Does(asp[e], PumpTx(Flush(asp[e])), M, M)
    BY <1>1, ServiceDoes
<1>3. /\ asp[e].open /\ Set(e, PumpTx(Flush(asp[e])))
      /\ aspUp' = aspUp /\ aspLeft' = aspLeft
    BY DEF Service
<1>4. AspLeftOk'
    BY <1>1, <1>3 DEF AspLeftOk
<1>5. QED
    BY <1>2, <1>3, <1>4, LocalKeeps

LEMMA SendTextKeeps == ASSUME AspInv, NEW e \in Ends, SendText(e) PROVE AspInv'
<1> DEFINE M == AspMsgs(AspFlow(Peer(e), e))
           s == asp[e]
           m == Msg("TEXT", 0, 0, <<>>)
<1>1. s.open /\ Spend("texts") /\ aspUp' = aspUp
    BY DEF SendText
<1>2. EndOk(s) /\ AspLeftOk /\ s.state \in {"HELLO_SENT", "ASP"}
    BY <1>1 DEF AspInv, AspEnd
<1>3. Set(e, QueueMsg(s, m))
    BY <1>2 DEF SendText
<1>4. Apart(s, s) /\ RecvSame(s, s) /\ SendSame(s, s)
    BY DEF Apart, SessionSame, RecvSame, SendSame
<1>5. m.type = "TEXT"
    BY DEF Msg
<1> HIDE DEF m
<1>6. Does(s, QueueMsg(s, m), M, M)
    BY <1>2, <1>4, <1>5, PlainQueueDoes
<1>7. AspLeftOk' /\ aspLeft'.calls = aspLeft.calls
    BY <1>1, <1>2, SpendKeeps
<1>8. QED
    BY <1>1, <1>3, <1>6, <1>7, LocalKeeps

LEMMA SendFileKeeps ==
    ASSUME AspInv, NEW e \in Ends, NEW f \in aspLeft.contents, SendFile(e, f)
    PROVE  AspInv'
<1> DEFINE M == AspMsgs(AspFlow(Peer(e), e))
<1>1. /\ asp[e].open /\ Spend("files") /\ aspUp' = aspUp
      /\ Set(e, OfferFile(asp[e], f))
    BY DEF SendFile, CanSendFiles
<1>2. EndOk(asp[e]) /\ AspLeftOk
    BY DEF AspInv, AspEnd
<1>3. f # <<>>
    BY <1>2 DEF AspLeftOk
<1>4. Does(asp[e], OfferFile(asp[e], f), M, M)
    BY <1>2, <1>3, OfferFileDoes
<1>5. AspLeftOk' /\ aspLeft'.calls = aspLeft.calls
    BY <1>1, <1>2, SpendKeeps
<1>6. QED
    BY <1>1, <1>4, <1>5, LocalKeeps

LEMMA CancelKeeps ==
    ASSUME AspInv, NEW e \in Ends, NEW inbound, Cancel(e, inbound)
    PROVE  AspInv'
<1> DEFINE M == AspMsgs(AspFlow(Peer(e), e))
<1>1. /\ asp[e].open /\ Spend("cancels") /\ aspUp' = aspUp
      /\ Set(e, AspCancel(asp[e], inbound))
    BY DEF Cancel
<1>2. EndOk(asp[e]) /\ AspLeftOk
    BY DEF AspInv, AspEnd
<1>3. Does(asp[e], AspCancel(asp[e], inbound), M, M)
    BY <1>2, CancelDoes
<1>4. AspLeftOk' /\ aspLeft'.calls = aspLeft.calls
    BY <1>1, <1>2, SpendKeeps
<1>5. QED
    BY <1>1, <1>3, <1>4, LocalKeeps

LEMMA ShrinkKeeps == ASSUME AspInv, NEW e \in Ends, Shrink(e) PROVE AspInv'
<1> DEFINE M == AspMsgs(AspFlow(Peer(e), e))
           s == asp[e]
           t == [s EXCEPT !.sendfp = Front(@)]
<1>1. /\ s.sendfp # <<>> /\ Spend("shrinks") /\ aspUp' = aspUp /\ Set(e, t)
    BY DEF Shrink
<1>2. EndOk(s) /\ AspLeftOk /\ s.open
    BY <1>1, SendsOpen DEF AspInv, AspEnd
<1>3. Apart(s, t) /\ SendSame(s, t) /\ RecvSame(s, t)
    BY <1>2 DEF EndOk, AspFields, Apart, SessionSame, RecvSame, SendSame
<1> HIDE DEF t
<1>4. Does(s, t, M, M)
    BY <1>2, <1>3, StaysDoes
<1>5. AspLeftOk' /\ aspLeft'.calls = aspLeft.calls
    BY <1>1, <1>2, SpendKeeps
<1>6. QED
    BY <1>1, <1>2, <1>4, <1>5, LocalKeeps

LEMMA AnswerKeeps ==
    ASSUME AspInv, NEW e \in Ends, NEW accept, Answer(e, accept)
    PROVE  AspInv'
<1> DEFINE M == AspMsgs(AspFlow(Peer(e), e))
           s == asp[e]
           v == [s EXCEPT !.asked = FALSE]
           t == AnswerOffer(v, accept)
<1>1. s.open /\ aspUp' = aspUp /\ aspLeft' = aspLeft /\ Set(e, t)
    BY DEF Answer
<1>2. EndOk(s) /\ AspLeftOk
    BY DEF AspInv, AspEnd
<1>3. Apart(s, v) /\ SendSame(s, v) /\ RecvSame(s, v)
    BY <1>2 DEF EndOk, AspFields, Apart, SessionSame, RecvSame, SendSame
<1> HIDE DEF v
<1>4. EndOk(v)
    BY <1>2, <1>3, ApartOk
<1>5. Does(v, t, M, M)
    BY <1>4, AnswerDoes
<1> HIDE DEF t
<1>6. SessionSame(s, v) /\ v.wire \o v.out = s.wire \o s.out
    BY <1>3 DEF Apart
<1>7. Does(s, t, M, M)
    BY <1>3, <1>5, <1>6, AfterDoes
<1>8. AspLeftOk'
    BY <1>1, <1>2 DEF AspLeftOk
<1>9. QED
    BY <1>1, <1>7, <1>8, LocalKeeps

\* A guest never comes.
LEMMA NoGuest ==
    ASSUME AspInv, NEW e \in Ends
    PROVE  ~GuestTakes(e) /\ ~GuestLeaves(e) /\ ~Unheard(e)
<1>1. ~asp[e].owned /\ aspLeft.guests = 0
    BY DEF AspInv, AspEnd, EndOk, AspLeftOk
<1>2. QED
    BY <1>1 DEF GuestTakes, GuestLeaves, Unheard, Spend

LEMMA DeliverKeeps ==
    ASSUME AspInv, NEW e \in Ends, NEW disk, Deliver(e, disk)
    PROVE  AspInv'
<1> DEFINE p == Peer(e)
           s == asp[e]
           o == asp[p]
           w == o.wire
           F == AspFlow(p, e)
           t == Recv(s, Head(w), disk)
           r == [o EXCEPT !.wire = Tail(w)]
<1>1. p \in Ends /\ p # e
    BY Peers
<1>2. /\ s.open /\ w # <<>> /\ aspUp' = aspUp
      /\ disk = "ok" => aspLeft' = aspLeft
      /\ disk # "ok" => Spend("faults")
      /\ asp' = [asp EXCEPT ![p].wire = Tail(@), ![e] = t]
    BY DEF Deliver
<1>3. /\ DOMAIN asp = Ends /\ EndOk(s) /\ EndOk(o) /\ AspLeftOk
      /\ s.state \in {"HELLO_SENT", "ASP"} /\ AspReads(p, e)
    BY <1>1, <1>2 DEF AspInv, AspEnd
<1>4. AspLeftOk' /\ aspLeft'.calls = aspLeft.calls
  <2>1. CASE disk = "ok"
    BY <1>2, <1>3, <2>1 DEF AspLeftOk
  <2>2. CASE disk # "ok"
    BY <1>2, <1>3, <2>2, SpendKeeps
  <2>3. QED
    BY <2>1, <2>2
<1>5. DOMAIN asp' = Ends /\ asp'[e] = t /\ asp'[p] = r
  <2> HIDE DEF t
  <2>1. QED
    BY <1>1, <1>2, <1>3
<1>6. IsSeq(s.in) /\ IsSeq(w) /\ IsSeq(o.out) /\ Len(w) \in Nat /\ Len(w) <= o.room
    BY <1>3, SeqLen DEF EndOk
<1>7. F = s.in \o (w \o o.out)
    BY <1>2 DEF AspFlow, AspAlive
<1>8. F # <<>>
  <2> DEFINE a == s.in
             b == o.out
             c == w \o b
  <2>1. IsSeq(c) /\ Len(c) = Len(w) + Len(b)
    BY <1>6, SeqConcat
  <2>2. Len(w) \in Nat /\ Len(w) # 0 /\ Len(b) \in Nat /\ Len(a) \in Nat
    BY <1>2, <1>6, SeqLen
  <2> HIDE DEF w, a, b, c
  <2>3. Len(a \o c) = Len(a) + Len(c)
    BY <1>6, <2>1, SeqConcat DEF a
  <2>4. Len(a \o c) # 0
    BY <2>1, <2>2, <2>3
  <2>5. a \o c # <<>>
    BY <2>4, SeqNone
  <2>6. QED
    BY <1>7, <2>5 DEF a, c, b
<1>9. FlowOk(F) /\ (s.state # "ASP" => F[1].m.type = "HELLO")
    BY <1>2, <1>3, <1>8 DEF AspReads, AspAlive
<1>10. \E m : Reads(s, t, F, t.in \o (Tail(w) \o o.out), m)
  <2> HIDE DEF F, w, o, s
  <2>1. /\ FlowOk(s.in \o (w \o o.out))
        /\ s.state # "ASP" => (s.in \o (w \o o.out))[1].m.type = "HELLO"
    BY <1>7, <1>9
  <2>2. QED
    BY <1>2, <1>3, <1>6, <1>7, <2>1, RecvReads
<1>11. /\ DOMAIN r = DOMAIN o /\ r.wire = Tail(w) /\ r.out = o.out
       /\ r.in = o.in /\ r.owned = o.owned /\ r.room = o.room
       /\ r.sendfp = o.sendfp
       /\ SessionSame(o, r) /\ SendSame(o, r) /\ RecvSame(o, r)
    BY <1>3 DEF EndOk, AspFields, SessionSame, SendSame, RecvSame
<1>12. IsSeq(Tail(w)) /\ Len(Tail(w)) <= o.room
  <2>1. Len(Tail(w)) = Len(w) - 1 /\ IsSeq(Tail(w))
    BY <1>2, <1>6, SeqTail
  <2>2. o.room \in Nat
    BY <1>3 DEF EndOk
  <2>3. QED
    BY <1>6, <2>1, <2>2
<1> HIDE DEF t, r
<1>13. EndOk(r)
    BY <1>3, <1>11, <1>12 DEF EndOk
<1>14. PICK m : Reads(s, t, F, t.in \o (Tail(w) \o o.out), m)
    BY <1>10
<1>15. Handled(e, t, r, m)
  <2> DEFINE G == t.in \o (r.wire \o r.out)
  <2>1. Reads(s, t, F, G, m)
    BY <1>11, <1>14
  <2>2. t.open
    BY <1>2, <2>1 DEF Reads
  <2> HIDE DEF F, G
  <2>3. QED
    BY <1>2, <1>3, <1>4, <1>5, <1>11, <1>13, <2>1, <2>2
       DEF Handled, Reads, F, G
<1>16. QED
    BY <1>15, HandlerKeeps

LEMMA LinkUpKeeps == ASSUME AspInv, LinkUp PROVE AspInv'
<1>1. /\ ~aspUp /\ aspUp' /\ asp' = asp /\ aspLeft.calls > 0
      /\ aspLeft' = [aspLeft EXCEPT !["calls"] = @ - 1]
    BY DEF LinkUp, Spend
<1>2. aspLeft.calls = 1 /\ aspLeft'.calls = 0 /\ AspLeftOk'
    BY <1>1 DEF AspInv, AspLeftOk
<1>3. \A e \in Ends : AspEnd(asp[e])'
    BY <1>1, <1>2 DEF AspInv, AspEnd, AspFresh
<1>4. ASSUME NEW e \in Ends PROVE AspAlive(e) /\ AspAlive(e)'
    BY <1>1, <1>2 DEF AspAlive
<1>5. ASSUME NEW e \in Ends
      PROVE  /\ Peer(e) \in Ends
             /\ AspFlow(Peer(e), e)' = AspFlow(Peer(e), e)
             /\ AspFlow(e, Peer(e))' = AspFlow(e, Peer(e))
    BY <1>1, <1>4, Peers DEF AspFlow
<1>6. ASSUME NEW e \in Ends PROVE AspReads(Peer(e), e)'
  <2>1. AspReads(Peer(e), e)
    BY DEF AspInv
  <2>2. QED
    BY <1>1, <1>4, <1>5, <2>1 DEF AspReads
<1>7. ASSUME NEW e \in Ends PROVE AspSends(e, Peer(e))'
  <2>1. AspSends(e, Peer(e))
    BY DEF AspInv
  <2>2. QED
    BY <1>1, <1>5, <2>1 DEF AspSends
<1>8. DOMAIN asp' = Ends
    BY <1>1 DEF AspInv
<1>9. QED
    BY <1>2, <1>3, <1>6, <1>7, <1>8 DEF AspInv

LEMMA LinkDownKeeps == ASSUME AspInv, LinkDown PROVE AspInv'
<1>1. aspUp /\ ~aspUp' /\ asp' = asp /\ aspLeft' = aspLeft
    BY DEF LinkDown
<1>2. AspLeftOk /\ AspLeftOk' /\ aspLeft.calls # 1
  <2>1. "A" \in Ends
    BY DEF Ends
  <2>2. AspLeftOk /\ AspEnd(asp["A"])
    BY <2>1 DEF AspInv
  <2>3. QED
    BY <1>1, <2>2 DEF AspEnd, AspLeftOk
<1>3. \A e \in Ends : AspEnd(asp[e])'
    BY <1>1, <1>2 DEF AspInv, AspEnd, AspFresh
<1>4. ASSUME NEW e \in Ends PROVE AspAlive(e) /\ (AspAlive(e)' <=> asp[e].open)
    BY <1>1, <1>2 DEF AspAlive
<1>5. ASSUME NEW e \in Ends
      PROVE  /\ Peer(e) \in Ends /\ Peer(Peer(e)) = e
             /\ AspFlow(Peer(e), e)' = IF asp[e].open THEN AspFlow(Peer(e), e)
                                       ELSE <<>>
    BY <1>1, <1>4, Peers DEF AspFlow
<1>6. ASSUME NEW e \in Ends PROVE AspReads(Peer(e), e)'
  <2>1. AspReads(Peer(e), e)
    BY DEF AspInv
  <2>2. Peer(e) \in Ends
    BY <1>5
  <2>3. AspAlive(e) /\ AspAlive(Peer(e)) /\ (AspAlive(e)' <=> asp[e].open)
    BY <1>4, <2>2
  <2>4. CASE asp[e].open
    BY <1>1, <1>5, <2>1, <2>3, <2>4 DEF AspReads
  <2>5. CASE ~asp[e].open
    <3>1. AspFlow(Peer(e), e)' = <<>>
      BY <1>5, <2>5
    <3>2. QED
      BY <2>3, <2>5, <3>1, NoFlow DEF AspReads
  <2>6. QED
    BY <2>4, <2>5
<1>7. ASSUME NEW e \in Ends PROVE AspSends(e, Peer(e))'
  <2> DEFINE p == Peer(e)
             C == AspMsgs(AspFlow(e, p))
             D == AspMsgs(AspFlow(p, e))
  <2>1. Transfer(asp[e], asp[p], C, D)
    BY DEF AspInv, AspSends
  <2>2. p \in Ends /\ Peer(p) = e
    BY <1>5
  <2>3. AspMsgs(AspFlow(p, e)') \subseteq D
    BY <1>5, NoFlow
  <2>4. AspMsgs(AspFlow(e, p)') \subseteq C
    BY <1>5, <2>2, NoFlow
  <2>5. SendSame(asp[e], asp[e]) /\ RecvSame(asp[p], asp[p])
    BY DEF SendSame, RecvSame
  <2> HIDE DEF C, D
  <2>6. Transfer(asp[e], asp[p], AspMsgs(AspFlow(e, p)'), AspMsgs(AspFlow(p, e)'))
    BY <2>1, <2>3, <2>4, <2>5, TransferLess
  <2>7. QED
    BY <1>1, <2>6 DEF AspSends
<1>8. DOMAIN asp' = Ends
    BY <1>1 DEF AspInv
<1>9. QED
    BY <1>2, <1>3, <1>6, <1>7, <1>8 DEF AspInv

LEMMA OpenKeeps ==
    ASSUME AspInv, NEW e \in Ends, Reconsider(e), ~asp[e].open
    PROVE  AspInv'
<1> DEFINE p == Peer(e)
           s == asp[e]
           o == asp[p]
           F == AspFlow(p, e)
           m == Msg("HELLO", 0, 0, <<>>)
           u == [s EXCEPT !.open = TRUE, !.state = "HELLO_SENT",
                          !.tx = "NONE", !.txid = 0, !.txoff = 0, !.txfile = <<>>,
                          !.rx = "NONE", !.rxid = 0, !.have = 0, !.run = <<>>,
                          !.rxfile = <<>>, !.out = <<>>, !.in = <<>>,
                          !.next = 1, !.sendfp = <<>>, !.recvfp = FALSE]
           v == [u EXCEPT !.out = Units(m)]
           t == AspOpen(s)
<1>1. p \in Ends /\ p # e
    BY Peers
<1>2. /\ DOMAIN asp = Ends /\ EndOk(s) /\ EndOk(o) /\ AspLeftOk
      /\ AspReads(p, e) /\ s.open \in BOOLEAN
    BY <1>1 DEF AspInv, AspEnd
<1>3. aspUp /\ aspUp' = aspUp /\ aspLeft' = aspLeft /\ Set(e, t)
  <2>1. s.open = FALSE
    BY <1>2
  <2>2. (aspUp /\ ~s.owned) # FALSE
    BY <2>1 DEF Reconsider
  <2>3. QED
    BY <2>1, <2>2 DEF Reconsider
<1>4. AspFresh(s)
    BY <1>3 DEF AspInv, AspEnd
<1>5. DOMAIN asp' = Ends /\ asp'[e] = t /\ asp'[p] = o
  <2> HIDE DEF t
  <2>1. QED
    BY <1>1, <1>2, <1>3 DEF Set
<1>6. /\ DOMAIN u = DOMAIN s /\ u.owned = s.owned /\ u.room = s.room
      /\ u.wire = s.wire /\ u.out = <<>> /\ u.in = <<>>
      /\ u.open /\ u.state = "HELLO_SENT"
    BY <1>2 DEF EndOk, AspFields
<1>7. SendSame(s, u)
    BY <1>2, <1>4 DEF EndOk, AspFields, SendSame, AspFresh
<1>8. RecvSame(s, u)
    BY <1>2, <1>4 DEF EndOk, AspFields, RecvSame, AspFresh
<1>9. EndOk(u) /\ s.wire = <<>> /\ s.out = <<>> /\ s.in = <<>> /\ s.state = "IDLE"
    BY <1>2, <1>4, <1>6, SeqNone DEF EndOk, AspFresh
<1>10. t = QueueMsg(u, m)
    BY DEF AspOpen
<1>11. m.type = "HELLO"
    BY DEF Msg
<1> HIDE DEF m
<1>12. t = Flush(v)
    BY <1>6, <1>10 DEF QueueMsg, CanQueue
<1>13. /\ DOMAIN v = DOMAIN u /\ v.owned = u.owned /\ v.room = u.room
       /\ v.wire = u.wire /\ v.out = Units(m) /\ v.in = u.in
  <2> HIDE DEF u
  <2>1. QED
    BY <1>9 DEF EndOk, AspFields
<1>14. IsSeq(Units(m)) /\ Units(m) # <<>>
    BY UnitsAre, SeqNone
<1> HIDE DEF u, v, t
<1>15. EndOk(v)
    BY <1>9, <1>13, <1>14 DEF EndOk
<1>16. t.wire \o t.out = Units(m)
  <2>1. t.wire \o t.out = v.wire \o v.out
    BY <1>12, <1>15, FlushDoes
  <2>2. v.wire = <<>> /\ v.out = Units(m)
    BY <1>6, <1>9, <1>13
  <2>3. QED
    BY <1>14, <2>1, <2>2, SeqNoneLeft
<1>17. s.wire \o s.out = <<>>
    BY <1>9, SeqNone, SeqNoneLeft
<1>18. /\ EndOk(t) /\ SendSame(u, t) /\ RecvSame(u, t) /\ SessionSame(u, t)
       /\ Queued(u, t, m)
    BY <1>9, <1>10, QueueDoes
<1>19. t.open /\ t.state = "HELLO_SENT" /\ t.in = <<>>
    BY <1>6, <1>18 DEF SessionSame
<1>20. SendSame(s, t) /\ RecvSame(s, t) /\ Queued(s, t, m)
  <2>1. SendSame(s, t) /\ RecvSame(s, t)
    BY <1>7, <1>8, <1>18 DEF SendSame, RecvSame
  <2>2. Queued(s, t, m)
    <3>1. u.wire \o u.out = s.wire \o s.out
      BY <1>6, <1>9
    <3>2. QED
      BY <1>18, <3>1 DEF Queued
  <2>3. QED
    BY <2>1, <2>2
<1>21. SendMove(s, t, AspMsgs(F), m) /\ RecvMove(s, t, AspMsgs(F), AspMsgs(F), m)
    BY <1>11, <1>20 DEF SendMove, RecvMove, SendStays, RecvStays, ForReceiver,
                        ForSender
<1>22. t.in \o (o.wire \o o.out) = F
    BY <1>3, <1>9, <1>19 DEF AspFlow, AspAlive
<1>23. FlowOk(F)
    BY <1>2 DEF AspReads
<1>24. SessionSame(o, o) /\ SendSame(o, o) /\ RecvSame(o, o)
    BY DEF SessionSame, SendSame, RecvSame
<1>25. AspLeftOk'
    BY <1>2, <1>3 DEF AspLeftOk
<1>26. Handled(e, t, o, m)
  <2> DEFINE G == t.in \o (o.wire \o o.out)
  <2>1. G = F
    BY <1>22
  <2> HIDE DEF F, G
  <2>2. QED
    BY <1>2, <1>3, <1>5, <1>9, <1>11, <1>14, <1>16, <1>17, <1>18, <1>19, <1>20,
       <1>21, <1>23, <1>24, <1>25, <2>1 DEF Handled, F, G
<1>27. QED
    BY <1>26, HandlerKeeps

LEMMA CloseKeeps ==
    ASSUME AspInv, NEW e \in Ends, Reconsider(e), asp[e].open
    PROVE  AspInv'
<1> DEFINE p == Peer(e)
           s == asp[e]
           o == asp[p]
           t == AspClose(s)
           D == AspFlow(e, p)
           F == AspFlow(p, e)
           C == AspFlow(e, p)'
<1>1. p \in Ends /\ p # e /\ Peer(p) = e /\ Ends = {e, p}
    BY Peers
<1>2. /\ DOMAIN asp = Ends /\ AspEnd(s) /\ AspEnd(o) /\ AspLeftOk
      /\ AspReads(p, e) /\ AspReads(e, p) /\ AspSends(e, p) /\ AspSends(p, e)
    BY <1>1 DEF AspInv
<1>3. ~aspUp /\ aspUp' = aspUp /\ aspLeft' = aspLeft /\ Set(e, t)
    BY <1>2 DEF Reconsider, AspEnd, EndOk
<1>4. DOMAIN asp' = Ends /\ asp'[e] = t /\ asp'[p] = o
  <2> HIDE DEF t
  <2>1. QED
    BY <1>1, <1>2, <1>3 DEF Set
<1>5. EndOk(s) /\ EndOk(o)
    BY <1>2 DEF AspEnd
<1>6. /\ DOMAIN t = DOMAIN s /\ t.owned = s.owned /\ t.room = s.room
      /\ t.wire = s.wire /\ t.out = <<>> /\ t.in = <<>>
      /\ t.open = FALSE /\ t.state = "IDLE" /\ t.sendfp = <<>>
    BY <1>5 DEF AspClose, EndOk, AspFields
<1>7. SendGoesOn(s, t) /\ t.tx = "NONE" /\ t.told = s.told
    BY <1>5 DEF AspClose, EndOk, AspFields, SendGoesOn
<1>8. /\ t.rx = "NONE" /\ t.rxid = s.rxid
      /\ t.got = s.got /\ t.final = s.final
    BY <1>5 DEF AspClose, EndOk, AspFields
<1> HIDE DEF t
<1>9. EndOk(t)
    BY <1>5, <1>6, SeqNone DEF EndOk
<1>10. NoMsg.type = "NOTHING"
    BY DEF NoMsg, Msg
<1>11. \A N : SendMove(s, t, N, NoMsg)
    BY <1>7, <1>10 DEF SendMove, SendEnds, ForReceiver
<1>12. \A M, L : RecvMove(s, t, M, L, NoMsg)
    BY <1>8, <1>10 DEF RecvMove, RecvEnds, ForSender
<1>13. aspLeft.calls # 1
    BY <1>2 DEF AspEnd, AspFresh
<1>14. AspAlive(e) /\ ~AspAlive(e)' /\ (AspAlive(p) <=> o.open) /\ (AspAlive(p)' <=> o.open)
    BY <1>3, <1>4, <1>6, <1>13 DEF AspAlive
<1>15. AspFlow(p, e)' = <<>>
    BY <1>14 DEF AspFlow
<1>16. FlowOk(D) /\ ((AspAlive(p) /\ o.state # "ASP") =>
                        IF D = <<>> THEN ~s.open ELSE D[1].m.type = "HELLO")
    BY <1>2 DEF AspReads
<1>17. /\ FlowOk(C) /\ AspMsgs(C) \subseteq AspMsgs(D)
       /\ (AspAlive(p)' /\ o.state # "ASP" /\ C # <<>>) => C[1].m.type = "HELLO"
  <2>1. CASE ~o.open
    <3>1. C = <<>>
      BY <1>14, <2>1 DEF AspFlow
    <3>2. QED
      BY <1>14, <2>1, <3>1, NoFlow
  <2>2. CASE o.open
    <3> DEFINE a == o.in
               b == s.wire
               c == s.out
    <3>1. IsSeq(a) /\ IsSeq(b) /\ IsSeq(c)
      BY <1>5 DEF EndOk
    <3>2. D = a \o (b \o c)
      BY <1>14, <2>2 DEF AspFlow
    <3>3. C = a \o (b \o <<>>)
      BY <1>4, <1>6, <1>14, <2>2 DEF AspFlow
    <3> HIDE DEF a, b, c, D, C
    <3>4. b \o <<>> = b
      BY <3>1, SeqNoneLeft
    <3>5. D = (a \o b) \o c
      BY <3>1, <3>2, SeqGroup
    <3>6. IsSeq(a \o b)
      BY <3>1, SeqConcat
    <3>7. C = a \o b
      BY <3>3, <3>4
    <3>8. Framed(C \o c) /\ OfferOrder(C \o c) /\ IsSeq(C) /\ D = C \o c
      BY <1>16, <3>5, <3>6, <3>7 DEF FlowOk
    <3>9. /\ Framed(C) /\ OfferOrder(C) /\ AspMsgs(C) \subseteq AspMsgs(D)
          /\ C # <<>> => D # <<>> /\ D[1] = C[1]
      BY <3>1, <3>8, FlowCut
    <3>10. QED
      BY <1>14, <1>16, <3>9 DEF FlowOk
  <2>3. QED
    BY <2>1, <2>2
<1>18. Transfer(s, o, AspMsgs(D), AspMsgs(F)) /\ Transfer(o, s, AspMsgs(F), AspMsgs(D))
    BY <1>1, <1>2 DEF AspSends
<1> HIDE DEF D, F, C
<1>19. Transfer(t, o, AspMsgs(C), {})
  <2>1. SendMove(s, t, AspMsgs(F), NoMsg)
    BY <1>11
  <2>2. QED
    BY <1>17, <1>18, <2>1, SendMoveKeeps
<1>20. Transfer(o, t, {}, AspMsgs(C))
  <2>1. RecvMove(s, t, AspMsgs(F), {}, NoMsg)
    BY <1>12
  <2>2. QED
    BY <1>17, <1>18, <2>1, RecvMoveKeeps
<1>21. AspSends(e, p)' /\ AspSends(p, e)'
    BY <1>1, <1>4, <1>15, <1>19, <1>20, NoFlow DEF AspSends, C
<1>22. AspEnd(asp[e])' /\ AspEnd(asp[p])'
    BY <1>2, <1>3, <1>4, <1>6, <1>9, <1>13 DEF AspEnd, AspFresh
<1>23. AspReads(p, e)'
    BY <1>14, <1>15, NoFlow DEF AspReads
<1>24. AspReads(e, p)'
    BY <1>4, <1>6, <1>14, <1>17 DEF AspReads, C
<1>25. AspLeftOk'
    BY <1>2, <1>3 DEF AspLeftOk
<1>26. QED
    BY <1>1, <1>4, <1>21, <1>22, <1>23, <1>24, <1>25 DEF AspInv

LEMMA StepKeeps == AspInv /\ [AspNext]_aspVars => AspInv'
<1> SUFFICES ASSUME AspInv, [AspNext]_aspVars
             PROVE  AspInv'
    OBVIOUS
<1>1. CASE LinkUp
    BY <1>1, LinkUpKeeps
<1>2. CASE LinkDown
    BY <1>2, LinkDownKeeps
<1>3. ASSUME NEW e \in Ends, Reconsider(e) PROVE AspInv'
    BY <1>3, OpenKeeps, CloseKeeps
<1>4. ASSUME NEW e \in Ends, NEW disk \in {"ok", "full", "norename"},
             Deliver(e, disk)
      PROVE  AspInv'
    BY <1>4, DeliverKeeps
<1>5. ASSUME NEW e \in Ends, Service(e) PROVE AspInv'
    BY <1>5, ServiceKeeps
<1>6. ASSUME NEW e \in Ends, SendText(e) PROVE AspInv'
    BY <1>6, SendTextKeeps
<1>7. ASSUME NEW e \in Ends, NEW f \in aspLeft.contents, SendFile(e, f)
      PROVE  AspInv'
    BY <1>7, SendFileKeeps
<1>8. ASSUME NEW e \in Ends, NEW accept \in BOOLEAN, Answer(e, accept)
      PROVE  AspInv'
    BY <1>8, AnswerKeeps
<1>9. ASSUME NEW e \in Ends, NEW inbound \in BOOLEAN, Cancel(e, inbound)
      PROVE  AspInv'
    BY <1>9, CancelKeeps
<1>10. ASSUME NEW e \in Ends, Shrink(e) PROVE AspInv'
    BY <1>10, ShrinkKeeps
<1>11. CASE UNCHANGED aspVars
  <2>1. asp' = asp /\ aspUp' = aspUp /\ aspLeft' = aspLeft
    BY <1>11 DEF aspVars
  <2>2. AspLeftOk' /\ DOMAIN asp' = Ends /\ \A e \in Ends : AspEnd(asp[e])'
    BY <2>1 DEF AspInv, AspLeftOk, AspEnd, AspFresh
  <2>3. ASSUME NEW e \in Ends PROVE AspFlow(e, Peer(e))' = AspFlow(e, Peer(e))
                                /\ AspFlow(Peer(e), e)' = AspFlow(Peer(e), e)
    BY <2>1 DEF AspFlow, AspAlive
  <2>4. ASSUME NEW e \in Ends PROVE AspReads(Peer(e), e)'
    <3>1. AspReads(Peer(e), e)
      BY DEF AspInv
    <3>2. QED
      BY <2>1, <2>3, <3>1 DEF AspReads, AspAlive
  <2>5. ASSUME NEW e \in Ends PROVE AspSends(e, Peer(e))'
    <3>1. AspSends(e, Peer(e))
      BY DEF AspInv
    <3>2. QED
      BY <2>1, <2>3, <3>1 DEF AspSends
  <2>6. QED
    BY <2>2, <2>4, <2>5 DEF AspInv
<1>12. QED
    BY <1>1, <1>2, <1>3, <1>4, <1>5, <1>6, <1>7, <1>8, <1>9, <1>10, <1>11, NoGuest
       DEF AspNext

LEMMA StartOk == ASSUME AspFirstSession, AspInit PROVE AspInv
<1>1. AspLeftOk
  <2>1. /\ {"calls", "guests", "contents"} \subseteq DOMAIN aspLeft
        /\ <<>> \notin aspLeft.contents
    BY AspAssumption DEF AspInit
  <2>2. QED
    BY <2>1 DEF AspFirstSession, AspLeftOk
<1>2. \A e \in Ends : aspLeft.room[e] \in Nat
    BY AspAssumption DEF AspInit, Ends
<1>3. PICK auto \in BOOLEAN :
          asp = [e \in Ends |-> [AspStart EXCEPT !.auto = auto,
                                                 !.room = aspLeft.room[e]]]
    BY DEF AspInit
<1>4. ~aspUp /\ DOMAIN asp = Ends
    BY <1>3 DEF AspInit
<1>5. ASSUME NEW e \in Ends
      PROVE  /\ DOMAIN asp[e] = AspFields /\ ~asp[e].owned
             /\ asp[e].room = aspLeft.room[e] /\ asp[e].open = FALSE
             /\ asp[e].sendfp = <<>> /\ asp[e].part = <<>>
             /\ asp[e].final = <<>> /\ asp[e].told = {} /\ asp[e].got = {}
             /\ AspFresh(asp[e])
  <2> DEFINE s == [AspStart EXCEPT !.auto = auto, !.room = aspLeft.room[e]]
  <2>1. asp[e] = s
    BY <1>3
  <2>2. /\ DOMAIN s = AspFields /\ ~s.owned
        /\ s.room = aspLeft.room[e] /\ s.open = FALSE
        /\ s.sendfp = <<>> /\ s.part = <<>>
        /\ s.final = <<>> /\ s.told = {} /\ s.got = {}
        /\ AspFresh(s)
    BY DEF AspStart, AspFields, AspFresh
  <2>3. QED
    BY <2>1, <2>2
<1>6. ASSUME NEW e \in Ends PROVE AspEnd(asp[e])
  <2> DEFINE s == asp[e]
  <2>1. /\ DOMAIN s = AspFields /\ ~s.owned /\ s.room \in Nat
        /\ s.wire = <<>> /\ s.out = <<>> /\ s.in = <<>>
    BY <1>2, <1>5 DEF AspFresh
  <2>2. EndOk(s)
    <3> HIDE DEF s
    <3>1. Len(s.wire) = 0 /\ Len(s.in) = 0 /\ IsSeq(s.wire) /\ IsSeq(s.in)
          /\ IsSeq(s.out)
      BY <2>1, SeqNone
    <3>2. QED
      BY <2>1, <3>1 DEF EndOk
  <2>3. QED
    BY <1>4, <1>5, <2>2 DEF AspEnd
<1>7. ASSUME NEW e \in Ends, NEW p \in Ends PROVE AspFlow(e, p) = <<>>
    BY <1>5, SeqNone, SeqNoneLeft DEF AspFlow, AspFresh
<1>8. ASSUME NEW e \in Ends PROVE AspReads(Peer(e), e) /\ AspSends(e, Peer(e))
  <2>1. Peer(e) \in Ends
    BY Peers
  <2>2. AspFlow(Peer(e), e) = <<>> /\ AspFlow(e, Peer(e)) = <<>>
    BY <1>7, <2>1
  <2>3. AspReads(Peer(e), e)
    BY <1>5, <2>1, <2>2, NoFlow DEF AspReads
  <2>4. Transfer(asp[e], asp[Peer(e)], {}, {})
    <3> DEFINE s == asp[e]
               r == asp[Peer(e)]
    <3>1. /\ s.txid = 0 /\ s.next = 1 /\ s.tx = "NONE" /\ s.told = {}
          /\ r.rxid = 0 /\ r.rx = "NONE" /\ r.final = <<>> /\ r.got = {}
      BY <1>5, <2>1 DEF AspFresh
    <3> HIDE DEF s, r
    <3>2. TransferIds(s, r, {}, {})
      BY <3>1 DEF TransferIds
    <3>3. TransferBooked(s, r, {}, {}) /\ TransferFile(s, r, {}, {})
          /\ TransferWhole(s, r)
      BY <3>1 DEF TransferBooked, TransferFile, TransferWhole
    <3>4. QED
      BY <3>2, <3>3 DEF Transfer, s, r
  <2>5. QED
    BY <2>2, <2>3, <2>4, NoFlow DEF AspSends
<1>9. QED
    BY <1>1, <1>4, <1>6, <1>8 DEF AspInv

LEMMA AspInvHolds == AspSpec /\ AspFirstSession => []AspInv
<1>1. AspInit /\ AspFirstSession => AspInv
    BY StartOk
<1>2. QED
    BY <1>1, StepKeeps, PTL DEF AspSpec

\* In the first session of two stations without guests, a file that appears
\* under its real name is whole and one the peer offered, and a sender is told
\* OK only of a file its peer holds whole: by the offer, partial-file and
\* result handlers of src/app/asp.c and the renaming of src/app/asp_app.c,
\* however queues cut messages, whatever is refused, cancelled, shrinks or
\* cannot be written, and wherever the session breaks off.
THEOREM AspFilesAreWhole == AspSpec /\ AspFirstSession => []AspFilesWhole
<1>1. AspInv => AspFilesWhole
  <2> SUFFICES ASSUME AspInv PROVE AspFilesWhole
      OBVIOUS
  <2>1. ASSUME NEW e \in Ends
        PROVE  /\ asp[e].final # <<>> => asp[e].final \in asp[Peer(e)].offered
               /\ asp[e].told \subseteq asp[Peer(e)].got
    <3>1. Peer(e) \in Ends /\ Peer(Peer(e)) = e
      BY Peers
    <3>2. AspSends(e, Peer(e)) /\ AspSends(Peer(e), Peer(Peer(e)))
      BY <3>1 DEF AspInv
    <3>3. TransferWhole(asp[e], asp[Peer(e)]) /\ TransferWhole(asp[Peer(e)], asp[e])
      BY <3>1, <3>2 DEF AspSends, Transfer
    <3>4. QED
      BY <3>3 DEF TransferWhole
  <2>2. QED
    BY <2>1 DEF AspFilesWhole, AspOnlyWholeFiles, AspOkMeansWhole
<1>2. QED
    BY <1>1, AspInvHolds, PTL

\* In that session neither end falls back to raw text nor meets a malformed
\* message: asp_frame_get always finds the head and the tail of one message,
\* and what is read first is a HELLO.
THEOREM AspFramingKept == AspSpec /\ AspFirstSession => []AspFramingHolds
<1>1. AspInv => AspFramingHolds
    BY DEF AspInv, AspEnd, AspFramingHolds
<1>2. QED
    BY <1>1, AspInvHolds, PTL

-----------------------------------------------------------------------------
(* Cat: a listener with whatever number of frames and of lines and frames   *)
(* that are not for it.  Of the modem under a sender nothing is said.       *)

CatSpec == CatInit /\ [][CatNext]_catVars

CatLines == [kind : {"CONNECTED", "DISCONNECTED", "OTHER"}, n : {0}]
CatFrames == [tag : {"ARQ", "IDF"}, n : Nat]

\* The records have their fields.
CatShape ==
    cat = [role |-> cat.role, pc |-> cat.pc, lines |-> cat.lines,
              queued |-> cat.queued, read |-> cat.read, eof |-> cat.eof,
              disconnected |-> cat.disconnected, rc |-> cat.rc, out |-> cat.out,
           ready |-> cat.ready, drops |-> cat.drops]
ModemShape ==
    modem = [link |-> modem.link, queue |-> modem.queue, acked |-> modem.acked,
                turn |-> modem.turn, cmds |-> modem.cmds, datas |-> modem.datas,
                toCmd |-> modem.toCmd, toData |-> modem.toData,
                sent |-> modem.sent, noise |-> modem.noise, hangup |-> modem.hangup]

CatSendPcs == {"start", "dialling", "ask", "answer", "input", "askstate", "state",
               "hangup", "ending", "giveup", "done"}
CatSends == cat.role = "send" /\ cat.pc \in CatSendPcs /\ cat.out = <<>>

\* What a listener and the modem under it hold.
CatListenTypes ==
    /\ cat.role = "listen"
    /\ cat.pc \in {"start", "listening", "wait", "data", "line", "done"}
    /\ cat.lines \in Seq(CatLines) /\ modem.toCmd \in Seq(CatLines)
    /\ cat.out \in Seq(CatFrames) /\ modem.toData \in Seq(CatFrames)
    /\ cat.ready \in SUBSET {"cmd", "data"}
    /\ modem.link \in {"DISC", "IRS"}
    /\ modem.cmds \in {<<>>, <<"LISTEN">>} /\ modem.datas = 0
    /\ modem.sent \in Nat

\* Before the call has been noticed.
CatUnheard ==
    /\ cat.pc = "start" => modem.link = "DISC" /\ modem.cmds = <<>> /\ modem.toCmd = <<>>
    /\ cat.pc \in {"start", "listening"} =>
          /\ cat.lines = <<>>
          /\ modem.link = "IRS" => modem.toCmd # <<>>
          /\ modem.toCmd # <<>> => modem.toCmd[1].kind = "CONNECTED"

\* The end of the call is the last thing that is said of it.
CatHangs(lines) == \E i \in 1..Len(lines) : lines[i].kind = "DISCONNECTED"
CatEnded ==
    /\ CatHangs(modem.toCmd) => modem.link = "DISC"
    /\ CatHangs(cat.lines) => modem.link = "DISC" /\ modem.toCmd = <<>>

\* A command socket that was ready still is, and if the end is the next line to
\* be looked at there is no data left.
CatDrained ==
    /\ (cat.pc \in {"data", "line"} /\ "cmd" \in cat.ready) =>
          /\ modem.toCmd # <<>>
          /\ (modem.toCmd[1].kind = "DISCONNECTED"
                /\ ("data" \notin cat.ready \/ cat.pc = "line")) => modem.toData = <<>>
    /\ cat.pc = "done" => modem.toData = <<>> /\ modem.link = "DISC"

\* Output and data socket hold every frame that was sent, in order.
CatStream ==
    /\ cat.out = [i \in 1..Len(cat.out) |-> DataFrame("ARQ", i)]
    /\ Len(cat.out) <= modem.sent
    /\ \A j \in 1..Len(modem.toData) : modem.toData[j].tag = "ARQ" =>
          modem.toData[j].n \in Len(cat.out) + 1 .. modem.sent
    /\ \A j, k \in 1..Len(modem.toData) :
          (j < k /\ modem.toData[j].tag = "ARQ" /\ modem.toData[k].tag = "ARQ") =>
              modem.toData[j].n < modem.toData[k].n
    /\ \A n \in Len(cat.out) + 1 .. modem.sent :
          \E j \in 1..Len(modem.toData) : modem.toData[j] = DataFrame("ARQ", n)

CatListens == ModemShape /\ CatListenTypes /\ CatUnheard /\ CatEnded /\ CatDrained /\ CatStream

CatInv == CatShape /\ (CatSends \/ CatListens)

(* A fold over the one command a listener gives. *)

LEMMA MaxOne == Max({1}) = 1
  BY DEF Max
LEMMA FoldOne ==
    ASSUME NEW m
    PROVE  FoldLeft(ModemCommand, m, <<"LISTEN">>) = ModemCommand(m, "LISTEN")
  <1> DEFINE S == {1}
             F(g) == [s \in SUBSET S |-> IF s = {} THEN m
                        ELSE ModemCommand(g[s \ {Max(s)}], <<"LISTEN">>[Max(s)])]
             iter == CHOOSE g : g = F(g)
             w == [s \in SUBSET S |-> IF s = {} THEN m ELSE ModemCommand(m, "LISTEN")]
  <1>1. w = F(w)
    <2>1. ASSUME NEW s \in SUBSET S
          PROVE  w[s] = F(w)[s]
      <3>1. CASE s = {}
        BY <3>1
      <3>2. CASE s = {1}
        <4>1. Max(s) = 1 /\ s \ {Max(s)} = {} /\ <<"LISTEN">>[1] = "LISTEN"
          BY <3>2, MaxOne
        <4>2. {} \in SUBSET S /\ w[{}] = m
          OBVIOUS
        <4> QED BY <3>2, <4>1, <4>2
      <3> QED BY <3>1, <3>2
    <2> QED BY <2>1
  <1>2. iter = F(iter)
    <2> HIDE DEF F, w
    <2> QED BY <1>1
  <1>3. FoldLeft(ModemCommand, m, <<"LISTEN">>) = iter[S]
    BY DEF FoldLeft, MapThenFoldSet
  <1>4. iter[{}] = m
    <2>1. F(iter)[{}] = m
      OBVIOUS
    <2> HIDE DEF F, iter
    <2> QED BY <1>2, <2>1
  <1>5. iter[S] = ModemCommand(m, "LISTEN")
    <2>1. F(iter)[S] = ModemCommand(iter[S \ {Max(S)}], <<"LISTEN">>[Max(S)])
      <3> HIDE DEF iter
      <3> QED OBVIOUS
    <2>2. Max(S) = 1 /\ S \ {Max(S)} = {} /\ <<"LISTEN">>[1] = "LISTEN"
      BY MaxOne
    <2> HIDE DEF F, iter, S
    <2> QED BY <1>2, <1>4, <2>1, <2>2
  <1> QED BY <1>3, <1>5

LEMMA CatStarts == CatInit => CatInv
  <1> SUFFICES ASSUME CatInit PROVE CatInv
    OBVIOUS
  <1>1. PICK role \in {"send", "listen"}, drops \in BOOLEAN :
           cat = [CatStart EXCEPT !.role = role, !.drops = drops]
    BY DEF CatInit
  <1>2. CatShape /\ cat.role = role /\ cat.pc = "start" /\ cat.out = <<>> /\ cat.lines = <<>>
        /\ cat.ready = {}
    BY <1>1 DEF CatStart, CatShape
  <1>3. CASE role = "send"
    BY <1>2, <1>3 DEF CatInv, CatSends, CatSendPcs
  <1>4. CASE role = "listen"
    <2> USE DEF CatInit, ModemStart
    <2>1. ModemShape
      BY DEF ModemShape
    <2>2. CatListenTypes
      <3>1. <<>> \in Seq(CatLines) /\ <<>> \in Seq(CatFrames)
        OBVIOUS
      <3> QED BY <1>2, <1>4, <3>1 DEF CatListenTypes
    <2>3. CatUnheard /\ CatEnded /\ CatDrained
      BY <1>2 DEF CatUnheard, CatEnded, CatDrained, CatHangs
    <2>4. CatStream
      BY <1>2 DEF CatStream
    <2> QED BY <1>2, <2>1, <2>2, <2>3, <2>4 DEF CatInv, CatListens
  <1> QED BY <1>3, <1>4

(* The sender writes nothing. *)

LEMMA CatSendsOn ==
    ASSUME CatShape, CatSends, [CatNext]_catVars
    PROVE  CatShape' /\ CatSends'
  <1> USE DEF CatShape, CatSends, CatSendPcs
  <1>1. CASE CatModem
    <2>1. cat' = cat
      BY <1>1 DEF CatModem, ModemReads, LinkAnswers, LinkAcks, LinkEnds, LinkHears, ModemNoise
    <2> QED BY <2>1
  <1>2. CASE UNCHANGED catVars
    BY <1>2 DEF catVars
  <1>3. CASE CatClient
    <2> USE DEF Finish
    <2>1. CASE SendDial
      BY <2>1 DEF SendDial
    <2>2. CASE SendDialled
      BY <2>2 DEF SendDialled, AfterLine
    <2>3. CASE SendAsk
      BY <2>3 DEF SendAsk
    <2>4. CASE SendAnswer
      BY <2>4 DEF SendAnswer, AfterLine
    <2>5. CASE SendInput
      BY <2>5 DEF SendInput
    <2>6. CASE SendAskState
      BY <2>6 DEF SendAskState
    <2>7. CASE SendState
      BY <2>7 DEF SendState, AfterLine
    <2>8. CASE SendHangUp
      BY <2>8 DEF SendHangUp
    <2>9. CASE SendEnding
      BY <2>9 DEF SendEnding, AfterLine
    <2>10. CASE SendGivesUp
      BY <2>10 DEF SendGivesUp
    <2>11. CASE ListenStart \/ ListenConnected \/ ListenWait \/ ListenData \/ ListenLine
      BY <2>11 DEF ListenStart, ListenConnected, ListenWait, ListenData, ListenTakes, ListenLine
    <2> QED BY <1>3, <2>1, <2>2, <2>3, <2>4, <2>5, <2>6, <2>7, <2>8, <2>9, <2>10, <2>11
            DEF CatClient
  <1> QED BY <1>1, <1>2, <1>3 DEF CatNext

(* Lines. *)

LEMMA LineAppended ==
    ASSUME NEW s \in Seq(CatLines), NEW l \in CatLines
    PROVE  /\ Append(s, l) \in Seq(CatLines) /\ Append(s, l) # <<>>
           /\ Append(s, l)[1] = IF s = <<>> THEN l ELSE s[1]
           /\ CatHangs(Append(s, l)) => CatHangs(s) \/ l.kind = "DISCONNECTED"
  <1>1. Len(Append(s, l)) = Len(s) + 1 /\ Append(s, l) \in Seq(CatLines)
    OBVIOUS
  <1>2. \A i \in 1..Len(s) + 1 : Append(s, l)[i] = IF i = Len(s) + 1 THEN l ELSE s[i]
    OBVIOUS
  <1>3. (s = <<>> <=> Len(s) = 0) /\ Len(s) \in Nat
    OBVIOUS
  <1> DEFINE t == Append(s, l)
  <1>4. t # <<>>
    BY <1>1, <1>3
  <1> HIDE DEF t
  <1>5. t[1] = IF s = <<>> THEN l ELSE s[1]
    BY <1>2, <1>3 DEF t
  <1>6. CatHangs(t) => CatHangs(s) \/ l.kind = "DISCONNECTED"
    BY <1>1, <1>2, <1>3 DEF t, CatHangs
  <1> QED BY <1>1, <1>4, <1>5, <1>6 DEF t

LEMMA LineTaken ==
    ASSUME NEW s \in Seq(CatLines), s # <<>>
    PROVE  /\ Tail(s) \in Seq(CatLines)
           /\ CatHangs(Tail(s)) => CatHangs(s)
           /\ Head(s) = s[1] /\ s[1] \in CatLines
           /\ s[1].kind = "DISCONNECTED" => CatHangs(s)
  <1>1. Len(s) \in Nat \ {0} /\ Len(Tail(s)) = Len(s) - 1 /\ Tail(s) \in Seq(CatLines)
    OBVIOUS
  <1>2. \A i \in 1..Len(s) - 1 : Tail(s)[i] = s[i + 1]
    OBVIOUS
  <1> QED BY <1>1, <1>2 DEF CatHangs

\* The line a listener looks at, and what is left of the lines.
LEMMA LineLookedAt ==
    ASSUME CatListenTypes, HasLine
    PROVE  /\ cat.lines # <<>> => NextLine = cat.lines[1]
           /\ cat.lines = <<>> => modem.toCmd # <<>> /\ NextLine = modem.toCmd[1]
  <1>1. cat.lines \in Seq(CatLines) /\ modem.toCmd \in Seq(CatLines)
    BY DEF CatListenTypes
  <1>2. ASSUME NEW a \in Seq(CatLines), NEW b \in Seq(CatLines), a \o b # <<>>
        PROVE  Head(a \o b) = IF a # <<>> THEN a[1] ELSE b[1]
    <2>1. CASE a # <<>>
      <3>1. Len(a) \in Nat \ {0}
        BY <2>1
      <3>2. (a \o b)[1] = a[1]
        BY <3>1
      <3>3. a \o b \in Seq(CatLines)
        OBVIOUS
      <3> QED BY <1>2, <2>1, <3>2, <3>3
    <2>2. CASE a = <<>>
      <3>1. a \o b = b
        BY <2>2
      <3> QED BY <1>2, <2>2, <3>1
    <2> QED BY <2>1, <2>2
  <1>3. cat.lines \o modem.toCmd # <<>>
    <2>1. cat.lines # <<>> \/ modem.toCmd # <<>>
      BY DEF HasLine
    <2> QED BY <1>1, <2>1, ConcatEqualIffEmpty
  <1> QED BY <1>1, <1>2, <1>3 DEF NextLine, HasLine

(* The stream. *)

LEMMA StreamSent ==
    ASSUME CatStream, CatListenTypes, cat'.out = cat.out, modem'.sent = modem.sent + 1,
           modem'.toData = Append(modem.toData, DataFrame("ARQ", modem.sent + 1))
    PROVE  CatStream'
  <1> USE DEF CatListenTypes
  <1> DEFINE f == DataFrame("ARQ", modem.sent + 1)
             q == modem.toData
  <1>1. Len(modem'.toData) = Len(q) + 1 /\ Len(q) \in Nat /\ Len(cat.out) \in Nat
    OBVIOUS
  <1>2. \A i \in 1..Len(q) + 1 : modem'.toData[i] = IF i = Len(q) + 1 THEN f ELSE q[i]
    OBVIOUS
  <1>3. f.tag = "ARQ" /\ f.n = modem.sent + 1
    BY DEF DataFrame
  <1>4. \A i \in 1..Len(q) : q[i] \in CatFrames
    OBVIOUS
  <1>5. ASSUME NEW j \in 1..Len(q) + 1, modem'.toData[j].tag = "ARQ"
        PROVE  modem'.toData[j].n \in Len(cat.out) + 1 .. modem.sent + 1
    <2> HIDE DEF f, q
    <2>1. CASE j = Len(q) + 1
      BY <1>1, <1>2, <1>3, <2>1 DEF CatStream
    <2>2. CASE j \in 1..Len(q)
      BY <1>1, <1>2, <1>5, <2>2 DEF CatStream, q
    <2> QED BY <1>1, <2>1, <2>2
  <1>6. ASSUME NEW j \in 1..Len(q) + 1, NEW k \in 1..Len(q) + 1, j < k,
               modem'.toData[j].tag = "ARQ", modem'.toData[k].tag = "ARQ"
        PROVE  modem'.toData[j].n < modem'.toData[k].n
    <2> HIDE DEF f
    <2>1. j \in 1..Len(q) /\ modem'.toData[j] = q[j]
      BY <1>1, <1>2, <1>6
    <2>2. CASE k = Len(q) + 1
      <3>1. modem'.toData[k].n = modem.sent + 1
        BY <1>2, <1>3, <2>2
      <3>2. q[j].n \in Len(cat.out) + 1 .. modem.sent
        BY <1>6, <2>1 DEF CatStream
      <3> QED BY <1>1, <2>1, <3>1, <3>2
    <2>3. CASE k \in 1..Len(q)
      BY <1>2, <1>6, <2>1, <2>3 DEF CatStream
    <2> QED BY <1>1, <2>2, <2>3
  <1>7. ASSUME NEW n \in Len(cat.out) + 1 .. modem.sent + 1
        PROVE  \E j \in 1..Len(q) + 1 : modem'.toData[j] = DataFrame("ARQ", n)
    <2>1. CASE n = modem.sent + 1
      BY <1>1, <1>2, <2>1
    <2>2. CASE n \in Len(cat.out) + 1 .. modem.sent
      <3>1. PICK j \in 1..Len(q) : q[j] = DataFrame("ARQ", n)
        BY <2>2 DEF CatStream
      <3>2. j \in 1..Len(q) + 1 /\ modem'.toData[j] = q[j]
        BY <1>1, <1>2
      <3> QED BY <3>1, <3>2
    <2> QED BY <1>1, <2>1, <2>2
  <1> HIDE DEF f, q
  <1>8. \A j \in 1..Len(modem'.toData) : modem'.toData[j].tag = "ARQ" =>
            modem'.toData[j].n \in Len(cat'.out) + 1 .. modem'.sent
    BY <1>1, <1>5
  <1>9. \A n \in Len(cat'.out) + 1 .. modem'.sent :
            \E j \in 1..Len(modem'.toData) : modem'.toData[j] = DataFrame("ARQ", n)
    BY <1>1, <1>7
  <1>10. \A j, k \in 1..Len(modem'.toData) :
          (j < k /\ modem'.toData[j].tag = "ARQ" /\ modem'.toData[k].tag = "ARQ") =>
              modem'.toData[j].n < modem'.toData[k].n
    BY <1>1, <1>6
  <1>11. Len(cat'.out) <= modem'.sent /\ cat'.out = [i \in 1..Len(cat'.out) |-> DataFrame("ARQ", i)]
    BY <1>1 DEF CatStream
  <1> QED BY <1>8, <1>9, <1>10, <1>11 DEF CatStream

\* A frame of another tag, in or out, is not of the stream.
LEMMA StreamPadded ==
    ASSUME CatStream, CatListenTypes, cat'.out = cat.out, modem'.sent = modem.sent,
           modem'.toData = Append(modem.toData, DataFrame("IDF", 0))
    PROVE  CatStream'
  <1> USE DEF CatListenTypes
  <1> DEFINE f == DataFrame("IDF", 0)
             q == modem.toData
  <1>1. Len(modem'.toData) = Len(q) + 1 /\ Len(q) \in Nat /\ Len(cat.out) \in Nat
    OBVIOUS
  <1>2. \A i \in 1..Len(q) + 1 : modem'.toData[i] = IF i = Len(q) + 1 THEN f ELSE q[i]
    OBVIOUS
  <1>3. f.tag # "ARQ"
    BY DEF DataFrame
  <1>4. \A j \in 1..Len(q) + 1 : modem'.toData[j].tag = "ARQ" =>
            j \in 1..Len(q) /\ modem'.toData[j] = q[j]
    BY <1>1, <1>2, <1>3
  <1>5. ASSUME NEW n \in Len(cat.out) + 1 .. modem.sent
        PROVE  \E j \in 1..Len(q) + 1 : modem'.toData[j] = DataFrame("ARQ", n)
    <2>1. PICK j \in 1..Len(q) : q[j] = DataFrame("ARQ", n)
      BY DEF CatStream
    <2>2. j \in 1..Len(q) + 1 /\ modem'.toData[j] = q[j]
      BY <1>1, <1>2
    <2> QED BY <2>1, <2>2
  <1> HIDE DEF f
  <1>6. \A j \in 1..Len(modem'.toData) : modem'.toData[j].tag = "ARQ" =>
            modem'.toData[j].n \in Len(cat.out) + 1 .. modem.sent
    BY <1>1, <1>4 DEF CatStream
  <1>7. \A j, k \in 1..Len(modem'.toData) :
          (j < k /\ modem'.toData[j].tag = "ARQ" /\ modem'.toData[k].tag = "ARQ") =>
              modem'.toData[j].n < modem'.toData[k].n
    BY <1>1, <1>4 DEF CatStream
  <1> QED BY <1>1, <1>5, <1>6, <1>7 DEF CatStream

\* The first message is looked at: the next frame of the stream, or none of it.
LEMMA StreamTaken ==
    ASSUME CatStream, CatListenTypes, modem.toData # <<>>, modem'.sent = modem.sent,
           modem'.toData = Tail(modem.toData),
           cat'.out = IF Head(modem.toData).tag = "ARQ"
                      THEN Append(cat.out, Head(modem.toData)) ELSE cat.out
    PROVE  CatStream' /\ cat'.out \in Seq(CatFrames) /\ modem'.toData \in Seq(CatFrames)
  <1> USE DEF CatListenTypes
  <1> DEFINE q == modem.toData
             f == q[1]
             r == Tail(q)
             L == Len(cat.out)
  <1>1. /\ Len(q) \in Nat \ {0} /\ Len(r) = Len(q) - 1 /\ L \in Nat
        /\ r \in Seq(CatFrames) /\ Head(q) = f /\ f \in CatFrames /\ 1 \in 1..Len(q)
    OBVIOUS
  <1>2. \A i \in 1..Len(r) : i + 1 \in 1..Len(q) /\ r[i] = q[i + 1]
    BY <1>1
  <1>3. modem'.toData = r
    OBVIOUS
  <1>4. \A j, k \in 1..Len(r) : (j < k /\ r[j].tag = "ARQ" /\ r[k].tag = "ARQ") =>
              r[j].n < r[k].n
    <2>1. SUFFICES ASSUME NEW j \in 1..Len(r), NEW k \in 1..Len(r), j < k,
                          r[j].tag = "ARQ", r[k].tag = "ARQ"
                   PROVE  r[j].n < r[k].n
      OBVIOUS
    <2>2. j + 1 < k + 1
      BY <1>1, <2>1
    <2>3. j + 1 \in 1..Len(q) /\ k + 1 \in 1..Len(q) /\ r[j] = q[j + 1] /\ r[k] = q[k + 1]
      BY <1>2
    <2> HIDE DEF r
    <2> QED BY <2>1, <2>2, <2>3 DEF CatStream
  <1>5. CASE f.tag # "ARQ"
    <2>1. cat'.out = cat.out
      BY <1>1, <1>5
    <2>2. ASSUME NEW n \in L + 1 .. modem.sent
          PROVE  \E j \in 1..Len(r) : r[j] = DataFrame("ARQ", n)
      <3>1. PICK j \in 1..Len(q) : q[j] = DataFrame("ARQ", n)
        BY DEF CatStream
      <3>2. j # 1
        BY <1>5, <3>1 DEF DataFrame
      <3>3. j - 1 \in 1..Len(r)
        BY <1>1, <3>2
      <3>4. r[j - 1] = q[j]
        BY <1>2, <3>3
      <3> QED BY <3>1, <3>3, <3>4
    <2>3. \A j \in 1..Len(r) : r[j].tag = "ARQ" => r[j].n \in L + 1 .. modem.sent
      BY <1>2 DEF CatStream
    <2> HIDE DEF r
    <2> QED BY <1>1, <1>3, <1>4, <2>1, <2>2, <2>3 DEF CatStream
  <1>6. CASE f.tag = "ARQ"
    <2>1. cat'.out = Append(cat.out, f)
      BY <1>1, <1>6
    <2>2. f.n \in L + 1 .. modem.sent
      BY <1>1, <1>6 DEF CatStream
    <2>3. PICK j \in 1..Len(q) : q[j] = DataFrame("ARQ", L + 1)
      <3>1. L + 1 \in L + 1 .. modem.sent
        BY <1>1, <2>2
      <3> HIDE DEF f, r
      <3> QED BY <3>1 DEF CatStream
    <2>4. q[j].tag = "ARQ" /\ q[j].n = L + 1
      BY <2>3 DEF DataFrame
    <2>5. j = 1
      <3>1. SUFFICES ASSUME 1 < j PROVE FALSE
        BY <1>1
      <3>2. q[1].n < q[j].n
        BY <1>1, <1>6, <2>4, <3>1 DEF CatStream
      <3> QED BY <1>1, <2>2, <2>4, <3>2
    <2>6. f = DataFrame("ARQ", L + 1) /\ f.n = L + 1 /\ L + 1 <= modem.sent
      BY <1>1, <2>2, <2>3, <2>4, <2>5
    <2>7. Len(cat'.out) = L + 1 /\ cat'.out \in Seq(CatFrames)
      BY <1>1, <2>1
    <2>8. cat'.out = [i \in 1..L + 1 |-> DataFrame("ARQ", i)]
      <3>1. \A i \in 1..L + 1 : cat'.out[i] = IF i = L + 1 THEN f ELSE cat.out[i]
        BY <1>1, <2>1
      <3>2. \A i \in 1..L : cat.out[i] = DataFrame("ARQ", i)
        BY DEF CatStream
      <3>3. \A i \in 1..L + 1 : cat'.out[i] = DataFrame("ARQ", i)
        <4> HIDE DEF f
        <4> QED BY <1>1, <2>6, <3>1, <3>2
      <3>4. cat'.out = [i \in 1..L + 1 |-> cat'.out[i]]
        BY <2>7
      <3> HIDE DEF L
      <3> QED BY <3>3, <3>4
    <2>9. ASSUME NEW n \in L + 2 .. modem.sent
          PROVE  \E k \in 1..Len(r) : r[k] = DataFrame("ARQ", n)
      <3>1. n \in L + 1 .. modem.sent /\ n # L + 1
        BY <1>1
      <3>2. PICK k \in 1..Len(q) : q[k] = DataFrame("ARQ", n)
        BY <3>1 DEF CatStream
      <3>3. k # 1
        BY <2>6, <3>1, <3>2 DEF DataFrame
      <3>4. k - 1 \in 1..Len(r)
        BY <1>1, <3>3
      <3>5. r[k - 1] = q[k]
        BY <1>2, <3>4
      <3> QED BY <3>2, <3>4, <3>5
    <2>10. ASSUME NEW k \in 1..Len(r), r[k].tag = "ARQ"
           PROVE  r[k].n \in L + 2 .. modem.sent
      <3>1. k + 1 \in 1..Len(q) /\ r[k] = q[k + 1] /\ 1 < k + 1
        BY <1>1, <1>2
      <3>2. q[k + 1].n \in L + 1 .. modem.sent /\ q[1].n < q[k + 1].n
        BY <1>1, <1>6, <2>10, <3>1 DEF CatStream
      <3> QED BY <1>1, <2>6, <3>1, <3>2
    <2> HIDE DEF r, f
    <2>11. L + 2 = Len(cat'.out) + 1
      BY <1>1, <2>7
    <2> QED BY <1>1, <1>3, <1>4, <2>6, <2>7, <2>8, <2>9, <2>10, <2>11 DEF CatStream
  <1> QED BY <1>5, <1>6

(* The listener and its modem, action by action. *)

LEMMA CatListenStart ==
    ASSUME CatShape, CatListens, ListenStart
    PROVE  CatShape' /\ CatListens'
  <1> USE DEF ListenStart, HcCmd, CatListens, CatShape, ModemShape
  <1>1. Append(<<>>, "LISTEN") = <<"LISTEN">>
    OBVIOUS
  <1>2. CatShape' /\ ModemShape'
    OBVIOUS
  <1>3. /\ cat' = [cat EXCEPT !.pc = "listening"]
        /\ modem'.toCmd = modem.toCmd /\ modem'.toData = modem.toData
        /\ modem'.sent = modem.sent /\ modem'.link = modem.link /\ modem'.datas = modem.datas
        /\ modem'.cmds = <<"LISTEN">>
    BY <1>1 DEF CatUnheard
  <1>4. CatListenTypes'
    BY <1>3 DEF CatListenTypes
  <1>5. CatUnheard' /\ CatEnded' /\ CatDrained'
    BY <1>3 DEF CatUnheard, CatEnded, CatDrained
  <1>6. CatStream'
    BY <1>3 DEF CatStream
  <1> QED BY <1>2, <1>4, <1>5, <1>6

\* A line is looked at, and what came with it is kept.
LEMMA CatListenLines ==
    ASSUME CatShape, CatListens, HasLine, NEW c, modem' = SocketAfterLine(modem),
           cat' = AfterLine(c), cat.pc \notin {"start", "done"},
           c = [cat EXCEPT !.pc = c.pc, !.rc = c.rc],
           c.pc \in {"wait", "done"},
           c.pc = "done" => modem.toData = <<>> /\ modem.link = "DISC"
    PROVE  CatShape' /\ CatListens'
  <1> USE DEF CatListens
  <1>1. /\ cat' = [cat EXCEPT !.pc = c.pc, !.rc = c.rc, !.lines = cat'.lines]
        /\ cat'.lines = IF cat.lines # <<>> THEN Tail(cat.lines) ELSE Tail(modem.toCmd)
        /\ modem' = [modem EXCEPT !.toCmd = modem'.toCmd]
        /\ modem'.toCmd = IF cat.lines # <<>> THEN modem.toCmd ELSE <<>>
    BY DEF CatShape, ModemShape, SocketAfterLine, AfterLine
  <1>2. CatShape' /\ ModemShape'
    BY <1>1 DEF CatShape, ModemShape
  <1>3. /\ cat'.role = cat.role /\ cat'.pc = c.pc /\ cat'.out = cat.out
        /\ cat'.ready = cat.ready
        /\ modem'.toData = modem.toData
        /\ modem'.sent = modem.sent /\ modem'.link = modem.link /\ modem'.datas = modem.datas
        /\ modem'.cmds = modem.cmds
    BY <1>1 DEF CatShape, ModemShape
  <1>4. /\ cat'.lines \in Seq(CatLines) /\ modem'.toCmd \in Seq(CatLines)
        /\ CatHangs(cat'.lines) => IF cat.lines # <<>> THEN CatHangs(cat.lines)
                                                      ELSE CatHangs(modem.toCmd)
    BY <1>1, LineTaken, LineLookedAt DEF CatListenTypes
  <1>5. CatListenTypes'
    BY <1>3, <1>4 DEF CatListenTypes
  <1>6. CatUnheard' /\ CatDrained'
    BY <1>3 DEF CatUnheard, CatDrained
  <1>7. CatEnded'
    <2>1. ~CatHangs(<<>>)
      BY DEF CatHangs
    <2> QED BY <1>1, <1>3, <1>4, <2>1 DEF CatEnded
  <1>8. CatStream'
    BY <1>3 DEF CatStream
  <1> QED BY <1>2, <1>5, <1>6, <1>7, <1>8

LEMMA CatListenConnected ==
    ASSUME CatShape, CatListens, ListenConnected
    PROVE  CatShape' /\ CatListens'
  <1>1. NextLine.kind = "CONNECTED"
    BY LineLookedAt DEF ListenConnected, CatListens, CatUnheard
  <1>2. cat' = AfterLine([cat EXCEPT !.pc = "wait"])
    BY <1>1 DEF ListenConnected
  <1> DEFINE c == [cat EXCEPT !.pc = "wait"]
  <1>3. c = [cat EXCEPT !.pc = c.pc, !.rc = c.rc] /\ c.pc = "wait"
    BY DEF CatShape
  <1> HIDE DEF c
  <1> QED BY <1>2, <1>3, CatListenLines DEF ListenConnected, c

LEMMA CatListenLine ==
    ASSUME CatShape, CatListens, ListenLine
    PROVE  CatShape' /\ CatListens'
  <1> USE DEF CatListens
  <1>1. CASE "cmd" \notin cat.ready
    <2>1. cat' = [cat EXCEPT !.pc = "wait"] /\ modem' = modem
      BY <1>1 DEF ListenLine
    <2>2. CatShape' /\ ModemShape' /\ CatListenTypes'
      BY <2>1 DEF CatShape, ModemShape, CatListenTypes
    <2>3. CatUnheard' /\ CatEnded' /\ CatDrained' /\ CatStream'
      BY <2>1 DEF CatShape, CatUnheard, CatEnded, CatDrained, CatStream, ListenLine
    <2> QED BY <2>2, <2>3
  <1>2. CASE "cmd" \in cat.ready
    <2>1. cat.pc = "line" /\ modem.toCmd # <<>> /\ HasLine
      BY <1>2 DEF ListenLine, CatDrained, HasLine
    <2> DEFINE c == IF NextLine.kind = "DISCONNECTED" THEN Finish(0)
                    ELSE [cat EXCEPT !.pc = "wait"]
    <2>2. cat' = AfterLine(c) /\ modem' = SocketAfterLine(modem)
      BY <1>2 DEF ListenLine
    <2>3. /\ c = [cat EXCEPT !.pc = c.pc, !.rc = c.rc] /\ c.pc \in {"wait", "done"}
          /\ c.pc = "done" => NextLine.kind = "DISCONNECTED"
      BY DEF CatShape, Finish
    <2>4. ASSUME NextLine.kind = "DISCONNECTED"
          PROVE  modem.toData = <<>> /\ modem.link = "DISC"
      <3>1. cat.lines = <<>>
        <4>1. SUFFICES ASSUME cat.lines # <<>> PROVE FALSE
          OBVIOUS
        <4>2. CatHangs(cat.lines)
          BY <2>1, <2>4, <4>1, LineLookedAt, LineTaken DEF CatListenTypes
        <4> QED BY <2>1, <4>2 DEF CatEnded
      <3>2. modem.toCmd[1].kind = "DISCONNECTED"
        BY <2>1, <2>4, <3>1, LineLookedAt
      <3>3. CatHangs(modem.toCmd)
        BY <2>1, <3>2, LineTaken DEF CatListenTypes
      <3> QED BY <1>2, <2>1, <3>2, <3>3 DEF CatEnded, CatDrained
    <2> HIDE DEF c
    <2> QED BY <2>1, <2>2, <2>3, <2>4, CatListenLines
  <1> QED BY <1>1, <1>2

LEMMA CatListenWait ==
    ASSUME CatShape, CatListens, ListenWait
    PROVE  CatShape' /\ CatListens'
  <1> USE DEF CatListens
  <1> DEFINE ready == {ch \in {"cmd", "data"} :
                    IF ch = "cmd" THEN modem.toCmd # <<>> ELSE modem.toData # <<>>}
  <1>1. cat' = [cat EXCEPT !.pc = "data", !.ready = ready] /\ modem' = modem
    BY DEF ListenWait
  <1>2. /\ "cmd" \in ready => modem.toCmd # <<>>
        /\ "data" \notin ready => modem.toData = <<>>
        /\ ready \in SUBSET {"cmd", "data"}
    OBVIOUS
  <1> HIDE DEF ready
  <1>3. CatShape' /\ cat'.pc = "data" /\ cat'.ready = ready /\ cat'.role = cat.role
        /\ cat'.lines = cat.lines /\ cat'.out = cat.out
    BY <1>1 DEF CatShape
  <1>4. ModemShape' /\ CatListenTypes'
    BY <1>1, <1>2, <1>3 DEF ModemShape, CatListenTypes
  <1>5. CatUnheard' /\ CatEnded' /\ CatDrained' /\ CatStream'
    BY <1>1, <1>2, <1>3 DEF CatUnheard, CatEnded, CatDrained, CatStream
  <1> QED BY <1>3, <1>4, <1>5

LEMMA CatListenData ==
    ASSUME CatShape, CatListens, ListenData
    PROVE  CatShape' /\ CatListens'
  <1> USE DEF CatListens
  <1>1. CASE "data" \notin cat.ready \/ modem.toData = <<>>
    <2>1. cat' = [cat EXCEPT !.pc = "line"] /\ modem' = modem
      BY <1>1 DEF ListenData, ListenTakes
    <2>2. CatShape' /\ ModemShape' /\ CatListenTypes'
      BY <2>1 DEF CatShape, ModemShape, CatListenTypes
    <2>3. CatUnheard' /\ CatEnded' /\ CatStream'
      BY <2>1 DEF CatShape, CatUnheard, CatEnded, CatStream
    <2>4. CatDrained'
      BY <1>1, <2>1 DEF CatShape, CatDrained, ListenData, ListenTakes
    <2> QED BY <2>2, <2>3, <2>4
  <1>2. CASE ~("data" \notin cat.ready \/ modem.toData = <<>>)
    <2> DEFINE f == Head(modem.toData)
    <2>1. /\ cat.pc = "data" /\ "data" \in cat.ready /\ modem.toData # <<>>
          /\ cat' = IF f.tag = "ARQ" THEN [cat EXCEPT !.out = Append(@, f)] ELSE cat
          /\ modem' = [modem EXCEPT !.toData = Tail(@)]
      BY <1>2 DEF ListenData, ListenTakes
    <2>2. /\ CatShape' /\ ModemShape'
          /\ cat'.role = cat.role /\ cat'.pc = cat.pc /\ cat'.lines = cat.lines
          /\ cat'.ready = cat.ready
          /\ cat'.out = IF f.tag = "ARQ" THEN Append(cat.out, f) ELSE cat.out
          /\ modem'.toCmd = modem.toCmd /\ modem'.toData = Tail(modem.toData)
          /\ modem'.sent = modem.sent /\ modem'.link = modem.link
          /\ modem'.datas = modem.datas /\ modem'.cmds = modem.cmds
      BY <2>1 DEF CatShape, ModemShape
    <2>3. CatStream' /\ cat'.out \in Seq(CatFrames) /\ modem'.toData \in Seq(CatFrames)
      BY <2>1, <2>2, StreamTaken
    <2>4. CatListenTypes'
      BY <2>2, <2>3 DEF CatListenTypes
    <2>5. CatUnheard' /\ CatEnded' /\ CatDrained'
      BY <2>1, <2>2 DEF CatUnheard, CatEnded, CatDrained
    <2> QED BY <2>2, <2>3, <2>4, <2>5
  <1> QED BY <1>1, <1>2

\* What the modem says or passes on leaves the client as it is.
LEMMA CatListenModem ==
    ASSUME CatShape, CatListens, CatModem
    PROVE  CatShape' /\ CatListens'
  <1> USE DEF CatListens
  <1>1. cat' = cat
    BY DEF CatModem, ModemReads, LinkAnswers, LinkAcks, LinkEnds, LinkHears, ModemNoise
  <1>2. CASE \E ch \in {"data", "cmd"} : ModemReads(ch)
    <2>1. PICK ch \in {"data", "cmd"} : ModemReads(ch)
      BY <1>2
    <2>2. modem.cmds = <<"LISTEN">> /\ modem.datas = 0
      BY <2>1 DEF ModemReads, CatListenTypes
    <2>3. ModemCommand([modem EXCEPT !.cmds = <<>>], "LISTEN") = [modem EXCEPT !.cmds = <<>>]
      BY DEF ModemCommand
    <2>4. \/ modem' = [modem EXCEPT !.turn = modem'.turn]
          \/ modem' = [modem EXCEPT !.cmds = <<>>, !.turn = modem'.turn]
      <3>1. CASE ch = "data"
        BY <2>1, <2>2, <3>1 DEF ModemReads, ModemShape
      <3>2. CASE ch = "cmd"
        BY <2>1, <2>2, <2>3, <3>2, FoldOne DEF ModemReads, ModemShape
      <3> QED BY <2>1, <3>1, <3>2
    <2>5. /\ ModemShape'
          /\ modem'.toCmd = modem.toCmd /\ modem'.toData = modem.toData
          /\ modem'.sent = modem.sent /\ modem'.link = modem.link
          /\ modem'.datas = modem.datas /\ modem'.cmds \in {<<>>, modem.cmds}
      BY <2>4 DEF ModemShape
    <2>6. CatListenTypes' /\ CatUnheard' /\ CatEnded' /\ CatDrained' /\ CatStream'
      BY <1>1, <2>5 DEF CatListenTypes, CatUnheard, CatEnded, CatDrained, CatStream
    <2> QED BY <1>1, <2>5, <2>6 DEF CatShape
  <1>3. CASE (\E up \in BOOLEAN : LinkAnswers(up)) \/ LinkAcks
    BY <1>3 DEF LinkAnswers, LinkAcks, CatListenTypes
  <1>4. CASE LinkEnds
    <2> DEFINE l == Line("DISCONNECTED", 0)
    <2>1. modem.link = "IRS" /\ modem' = [modem EXCEPT !.link = "DISC", !.hangup = FALSE,
                                          !.toCmd = Append(modem.toCmd, l)]
      BY <1>4 DEF LinkEnds, CatListenTypes, ModemTold, ModemShape
    <2>2. l \in CatLines /\ l.kind = "DISCONNECTED"
      BY DEF Line, CatLines
    <2> HIDE DEF l
    <2>3. /\ ModemShape' /\ modem'.link = "DISC"
          /\ modem'.toCmd = Append(modem.toCmd, l) /\ modem'.toData = modem.toData
          /\ modem'.sent = modem.sent
          /\ modem'.datas = modem.datas /\ modem'.cmds = modem.cmds
      BY <2>1 DEF ModemShape
    <2>4. /\ modem'.toCmd \in Seq(CatLines) /\ modem'.toCmd # <<>>
          /\ modem.toCmd # <<>> => modem'.toCmd[1] = modem.toCmd[1]
      BY <2>2, <2>3, LineAppended DEF CatListenTypes
    <2>5. CatListenTypes' /\ CatStream'
      <3>1. CatListenTypes'
        BY <1>1, <2>3, <2>4 DEF CatListenTypes
      <3>2. CatStream'
        BY <1>1, <2>3 DEF CatStream
      <3> QED BY <3>1, <3>2
    <2>6. ~CatHangs(cat.lines) /\ cat.pc \notin {"start", "done"}
      BY <2>1 DEF CatEnded, CatUnheard, CatDrained
    <2>7. CatUnheard' /\ CatEnded' /\ CatDrained'
      BY <1>1, <2>1, <2>3, <2>4, <2>6 DEF CatUnheard, CatEnded, CatDrained
    <2> QED BY <1>1, <2>3, <2>5, <2>7 DEF CatShape
  <1>5. CASE modem.link = "DISC" /\ LinkHears
    <2> DEFINE l == Line("CONNECTED", 0)
    <2>1. /\ cat.pc = "listening" /\ modem.toCmd = <<>>
          /\ modem' = [modem EXCEPT !.link = "IRS", !.toCmd = Append(modem.toCmd, l)]
      BY <1>5 DEF LinkHears, ModemTold, ModemShape
    <2>2. l \in CatLines /\ l.kind = "CONNECTED"
      BY DEF Line, CatLines
    <2> HIDE DEF l
    <2>3. /\ ModemShape' /\ modem'.link = "IRS"
          /\ modem'.toCmd = Append(modem.toCmd, l) /\ modem'.toData = modem.toData
          /\ modem'.sent = modem.sent
          /\ modem'.datas = modem.datas /\ modem'.cmds = modem.cmds
      BY <2>1 DEF ModemShape
    <2>4. /\ modem'.toCmd \in Seq(CatLines) /\ modem'.toCmd # <<>> /\ modem'.toCmd[1] = l
          /\ ~CatHangs(modem'.toCmd)
      <3>1. ~CatHangs(<<>>)
        BY DEF CatHangs
      <3>2. /\ Append(modem.toCmd, l) \in Seq(CatLines) /\ Append(modem.toCmd, l) # <<>>
            /\ Append(modem.toCmd, l)[1] = IF modem.toCmd = <<>> THEN l ELSE modem.toCmd[1]
            /\ CatHangs(Append(modem.toCmd, l)) =>
                   CatHangs(modem.toCmd) \/ l.kind = "DISCONNECTED"
        BY <2>2, LineAppended DEF CatListenTypes
      <3>3. ~CatHangs(modem.toCmd)
        BY <2>1, <3>1
      <3> HIDE DEF CatHangs
      <3> QED BY <2>1, <2>2, <2>3, <3>2, <3>3
    <2>5. CatListenTypes' /\ CatStream'
      <3>1. CatListenTypes'
        BY <1>1, <2>3, <2>4 DEF CatListenTypes
      <3>2. CatStream'
        BY <1>1, <2>3 DEF CatStream
      <3> QED BY <3>1, <3>2
    <2>6. ~CatHangs(cat.lines)
      BY <2>1 DEF CatUnheard, CatHangs
    <2>7. CatUnheard' /\ CatEnded' /\ CatDrained'
      BY <1>1, <2>1, <2>2, <2>3, <2>4, <2>6 DEF CatUnheard, CatEnded, CatDrained
    <2> QED BY <1>1, <2>3, <2>5, <2>7 DEF CatShape
  <1>6. CASE modem.link = "IRS" /\ LinkHears
    <2> DEFINE f == DataFrame("ARQ", modem.sent + 1)
    <2>1. modem' = [modem EXCEPT !.sent = @ + 1, !.toData = Append(@, f)]
      BY <1>6 DEF LinkHears
    <2>2. f \in CatFrames
      BY DEF DataFrame, CatFrames, CatListenTypes
    <2>3. /\ ModemShape' /\ modem'.link = modem.link /\ modem'.toCmd = modem.toCmd
          /\ modem'.toData = Append(modem.toData, f)
          /\ modem'.sent = modem.sent + 1
          /\ modem'.datas = modem.datas /\ modem'.cmds = modem.cmds
      BY <2>1 DEF ModemShape
    <2>4. CatStream'
      BY <1>1, <2>3, StreamSent
    <2> HIDE DEF f
    <2>5. modem'.toData \in Seq(CatFrames)
      BY <2>2, <2>3 DEF CatListenTypes
    <2>6. CatListenTypes'
      BY <1>1, <2>3, <2>5 DEF CatListenTypes
    <2>7. modem.toCmd # <<>> => (modem.toCmd[1].kind = "DISCONNECTED" => modem.link = "DISC")
      BY LineTaken DEF CatListenTypes, CatEnded
    <2>8. CatUnheard' /\ CatEnded' /\ CatDrained'
      BY <1>1, <1>6, <2>3, <2>7 DEF CatUnheard, CatEnded, CatDrained
    <2> QED BY <1>1, <2>3, <2>4, <2>6, <2>8 DEF CatShape
  <1>7. CASE ModemNoise(TRUE)
    <2> DEFINE l == Line("OTHER", 0)
    <2>1. /\ modem.link = "IRS"
          /\ modem' = [modem EXCEPT !.noise = @ - 1, !.toCmd = Append(modem.toCmd, l)]
      BY <1>7 DEF ModemNoise, ModemTold, ModemShape, CatListenTypes
    <2>2. l \in CatLines /\ l.kind = "OTHER"
      BY DEF Line, CatLines
    <2> HIDE DEF l
    <2>3. /\ ModemShape' /\ modem'.link = modem.link
          /\ modem'.toCmd = Append(modem.toCmd, l) /\ modem'.toData = modem.toData
          /\ modem'.sent = modem.sent
          /\ modem'.datas = modem.datas /\ modem'.cmds = modem.cmds
      BY <2>1 DEF ModemShape
    <2>4. /\ modem'.toCmd \in Seq(CatLines) /\ modem'.toCmd # <<>>
          /\ modem.toCmd # <<>> => modem'.toCmd[1] = modem.toCmd[1]
          /\ CatHangs(modem'.toCmd) => CatHangs(modem.toCmd)
      BY <2>2, <2>3, LineAppended DEF CatListenTypes
    <2>5. CatListenTypes' /\ CatStream'
      <3>1. CatListenTypes'
        BY <1>1, <2>3, <2>4 DEF CatListenTypes
      <3>2. CatStream'
        BY <1>1, <2>3 DEF CatStream
      <3> QED BY <3>1, <3>2
    <2>6. ~CatHangs(cat.lines) /\ cat.pc \notin {"start", "done"}
      BY <2>1 DEF CatEnded, CatUnheard, CatDrained
    <2>7. CatUnheard' /\ CatEnded' /\ CatDrained'
      BY <1>1, <2>1, <2>3, <2>4, <2>6 DEF CatUnheard, CatEnded, CatDrained
    <2> QED BY <1>1, <2>3, <2>5, <2>7 DEF CatShape
  <1>8. CASE ModemNoise(FALSE)
    <2> DEFINE f == DataFrame("IDF", 0)
    <2>1. /\ modem.link = "IRS"
          /\ modem' = [modem EXCEPT !.noise = @ - 1, !.toData = Append(modem.toData, f)]
      BY <1>8 DEF ModemNoise, ModemShape, CatListenTypes
    <2>2. f \in CatFrames
      BY DEF DataFrame, CatFrames
    <2>3. /\ ModemShape' /\ modem'.link = modem.link /\ modem'.toCmd = modem.toCmd
          /\ modem'.toData = Append(modem.toData, f)
          /\ modem'.sent = modem.sent
          /\ modem'.datas = modem.datas /\ modem'.cmds = modem.cmds
      BY <2>1 DEF ModemShape
    <2>4. CatStream'
      BY <1>1, <2>3, StreamPadded
    <2> HIDE DEF f
    <2>5. modem'.toData \in Seq(CatFrames)
      BY <2>2, <2>3 DEF CatListenTypes
    <2>6. CatListenTypes'
      BY <1>1, <2>3, <2>5 DEF CatListenTypes
    <2>7. modem.toCmd # <<>> => (modem.toCmd[1].kind = "DISCONNECTED" => modem.link = "DISC")
      BY LineTaken DEF CatListenTypes, CatEnded
    <2>8. CatUnheard' /\ CatEnded' /\ CatDrained'
      BY <1>1, <2>1, <2>3, <2>7 DEF CatUnheard, CatEnded, CatDrained
    <2> QED BY <1>1, <2>3, <2>4, <2>6, <2>8 DEF CatShape
  <1>9. LinkHears => modem.link \in {"DISC", "IRS"}
    BY DEF LinkHears
  <1>10. \A onCmd \in BOOLEAN : ModemNoise(onCmd) => ModemNoise(TRUE) \/ ModemNoise(FALSE)
    OBVIOUS
  <1> QED BY <1>2, <1>3, <1>4, <1>5, <1>6, <1>7, <1>8, <1>9, <1>10 DEF CatModem

LEMMA CatListensOn ==
    ASSUME CatShape, CatListens, [CatNext]_catVars
    PROVE  CatShape' /\ CatListens'
  <1>1. CASE CatModem
    BY <1>1, CatListenModem
  <1>2. CASE UNCHANGED catVars
    <2>1. cat' = cat /\ modem' = modem
      BY <1>2 DEF catVars
    <2> QED BY <2>1 DEF CatShape, CatListens, ModemShape, CatListenTypes, CatUnheard,
                        CatEnded, CatDrained, CatStream
  <1>3. CASE CatClient
    <2>1. ~(\/ SendDial \/ SendDialled \/ SendAsk \/ SendAnswer \/ SendInput
            \/ SendAskState \/ SendState \/ SendHangUp \/ SendEnding \/ SendGivesUp)
      BY DEF CatListens, CatListenTypes, SendDial, SendDialled, SendAsk, SendAnswer,
             SendInput, SendAskState, SendState, SendHangUp, SendEnding, SendGivesUp
    <2> QED BY <1>3, <2>1, CatListenStart, CatListenConnected, CatListenWait, CatListenData,
               CatListenLine DEF CatClient
  <1> QED BY <1>1, <1>2, <1>3 DEF CatNext

\* What ardop-cat --listen writes is the payload in order and without anything
\* else, and all of it when it exits with 0, however much is sent, and however
\* the modem's data, lines and noise fall between its looks at the two sockets.
THEOREM CatListensWhole == CatSpec => []CatListenWhole
  <1>1. ASSUME CatInv, [CatNext]_catVars PROVE CatInv'
    BY <1>1, CatSendsOn, CatListensOn DEF CatInv
  <1>2. ASSUME CatInv PROVE CatListenWhole
    <2>1. CASE CatSends
      <3>1. <<>> = [i \in 1..Len(<<>>) |-> DataFrame("ARQ", i)]
        OBVIOUS
      <3> QED BY <2>1, <3>1 DEF CatSends, CatListenWhole
    <2>2. CASE CatListens
      <3>1. cat.pc = "done" => Len(cat.out) = modem.sent
        <4>1. SUFFICES ASSUME cat.pc = "done" PROVE Len(cat.out) = modem.sent
          OBVIOUS
        <4>2. modem.toData = <<>> /\ Len(modem.toData) = 0
          BY <2>2, <4>1 DEF CatListens, CatDrained
        <4>3. Len(cat.out) \in Nat /\ modem.sent \in Nat /\ Len(cat.out) <= modem.sent
          BY <2>2 DEF CatListens, CatListenTypes, CatStream
        <4>4. ~(modem.sent \in Len(cat.out) + 1 .. modem.sent)
          BY <2>2, <4>2 DEF CatListens, CatStream
        <4> QED BY <4>3, <4>4
      <3> QED BY <2>2, <3>1 DEF CatListens, CatStream, CatListenWhole
    <2> QED BY <1>2, <2>1, <2>2 DEF CatInv
  <1> QED BY <1>1, <1>2, CatStarts, PTL DEF CatSpec

-----------------------------------------------------------------------------
(* AspWire: the name a file is kept under, for every name and every room.  *)

AwrSpec == AwrInit /\ [][AwrNext]_awr

(* Places in a name. *)

LEMMA FirstPlace ==
    ASSUME NEW N \in Nat, NEW S \in SUBSET (1..N), S # {}
    PROVE  LET f == CHOOSE i \in S : \A j \in S : i <= j
           IN  f \in S /\ \A j \in S : f <= j
  <1>1. \E i \in S : \A j \in S : i <= j
    BY LeastOf
  <1> QED BY <1>1

LEMMA LastPlace ==
    ASSUME NEW N \in Nat, NEW S \in SUBSET (1..N), S # {}
    PROVE  LET l == CHOOSE i \in S : \A j \in S : j <= i
           IN  l \in S /\ \A j \in S : j <= l
  <1> DEFINE T == {N - i : i \in S}
  <1>1. T \in SUBSET Nat /\ T # {}
    <2>1. \A i \in S : i \in Nat /\ i <= N
      OBVIOUS
    <2>2. \A i \in S : N - i \in Nat
      BY <2>1
    <2> QED BY <2>2
  <1>2. PICK x \in T : \A y \in T : x <= y
    <2> HIDE DEF T
    <2> QED BY <1>1, LeastOf
  <1>3. PICK i \in S : x = N - i
    OBVIOUS
  <1>4. \A j \in S : j <= i
    <2>1. SUFFICES ASSUME NEW j \in S PROVE j <= i
      OBVIOUS
    <2>2. N - j \in T
      OBVIOUS
    <2> QED BY <1>2, <1>3, <2>2
  <1> QED BY <1>3, <1>4

LEMMA PartOf ==
    ASSUME NEW S, NEW s \in Seq(S), NEW a \in 1..Len(s) + 1, NEW b \in 0..Len(s), a <= b + 1
    PROVE  /\ SubSeq(s, a, b) \in Seq(S) /\ Len(SubSeq(s, a, b)) = b - a + 1
           /\ \A i \in 1..b - a + 1 : SubSeq(s, a, b)[i] = s[a + i - 1]
           /\ (a = 1 /\ b = Len(s)) => SubSeq(s, a, b) = s
  <1>1. /\ SubSeq(s, a, b) \in Seq(S) /\ Len(SubSeq(s, a, b)) = b - a + 1
        /\ \A i \in 1..b - a + 1 : SubSeq(s, a, b)[i] = s[a + i - 1]
    BY SubSeqProperties
  <1>2. ASSUME a = 1, b = Len(s) PROVE SubSeq(s, a, b) = s
    BY <1>1, <1>2, SeqEqual
  <1> QED BY <1>1, <1>2

(* The steps of asp_safe_name. *)

AwrBase(n) ==
    LET seps == {i \in 1..Len(n) : n[i] \in AwrSeparators}
    IN  IF seps = {} THEN n
        ELSE SubSeq(n, (CHOOSE i \in seps : \A j \in seps : j <= i) + 1, Len(n))
AwrCut(b) == SubSeq(b, 1, IF Len(b) < AwrCap THEN Len(b) ELSE AwrCap - 1)
AwrClean(c) == [i \in DOMAIN c |-> IF c[i] \in AwrForbidden THEN AwrUnderscore ELSE c[i]]
AwrKept(n) == AwrTrim(AwrClean(AwrCut(AwrBase(n))))

LEMMA SafeNameSteps ==
    ASSUME NEW n
    PROVE  AwrSafeName(n) = IF AwrKept(n) # <<>> /\ AwrReserved(AwrKept(n))
                            THEN IF Len(AwrKept(n)) + 2 > AwrCap THEN <<>>
                                 ELSE Append(AwrKept(n), AwrUnderscore)
                            ELSE AwrKept(n)
  BY DEF AwrSafeName, AwrKept, AwrClean, AwrCut, AwrBase

\* No separator, and nothing taken away where there was none.
LEMMA BaseHasNoSeparator ==
    ASSUME NEW n \in Seq(Nat)
    PROVE  /\ AwrBase(n) \in Seq(Nat)
           /\ \A i \in 1..Len(AwrBase(n)) : AwrBase(n)[i] \notin AwrSeparators
           /\ (\A i \in 1..Len(n) : n[i] \notin AwrSeparators) => AwrBase(n) = n
  <1> DEFINE seps == {i \in 1..Len(n) : n[i] \in AwrSeparators}
             l == CHOOSE i \in seps : \A j \in seps : j <= i
             r == SubSeq(n, l + 1, Len(n))
  <1>1. Len(n) \in Nat
    OBVIOUS
  <1>2. CASE seps = {}
    BY <1>2 DEF AwrBase
  <1>3. CASE seps # {}
    <2>1. l \in seps /\ \A j \in seps : j <= l
      BY <1>1, <1>3, LastPlace
    <2>2. AwrBase(n) = r
      BY <1>3 DEF AwrBase
    <2>3. l \in 1..Len(n)
      BY <2>1
    <2> HIDE DEF l
    <2>4. /\ r \in Seq(Nat) /\ Len(r) = Len(n) - l
          /\ \A i \in 1..Len(n) - l : r[i] = n[l + i]
      <3>1. /\ r \in Seq(Nat) /\ Len(r) = Len(n) - (l + 1) + 1
            /\ \A i \in 1..Len(n) - (l + 1) + 1 : r[i] = n[l + 1 + i - 1]
        <4>1. l + 1 \in 1..Len(n) + 1 /\ Len(n) \in 0..Len(n) /\ l + 1 <= Len(n) + 1
          BY <1>1, <2>3
        <4> QED BY <4>1, PartOf
      <3> HIDE DEF r
      <3> QED BY <1>1, <2>3, <3>1
    <2>5. \A i \in 1..Len(r) : r[i] \notin AwrSeparators
      <3>1. SUFFICES ASSUME NEW i \in 1..Len(r), r[i] \in AwrSeparators PROVE FALSE
        OBVIOUS
      <3>2. l + i \in 1..Len(n) /\ r[i] = n[l + i] /\ l + i > l
        <4> HIDE DEF r
        <4> QED BY <1>1, <2>3, <2>4
      <3>3. l + i \in seps
        BY <3>1, <3>2
      <3> QED BY <2>1, <3>2, <3>3, <2>3
    <2> HIDE DEF r
    <2> QED BY <1>3, <2>2, <2>4, <2>5
  <1> QED BY <1>2, <1>3

\* What fits, and nothing taken away where it all does.
LEMMA CutFits ==
    ASSUME NEW b \in Seq(Nat)
    PROVE  /\ AwrCut(b) \in Seq(Nat)
           /\ AwrCut(b) # <<>> => Len(AwrCut(b)) < AwrCap
           /\ \A i \in 1..Len(AwrCut(b)) : i \in 1..Len(b) /\ AwrCut(b)[i] = b[i]
           /\ Len(b) < AwrCap => AwrCut(b) = b
  <1>1. Len(b) \in Nat /\ AwrCap \in Nat
    BY AwrAssumption
  <1>2. CASE Len(b) < AwrCap
    <2>1. AwrCut(b) = SubSeq(b, 1, Len(b))
      BY <1>2 DEF AwrCut
    <2>2. SubSeq(b, 1, Len(b)) = b
      BY <1>1, PartOf
    <2> QED BY <1>2, <2>1, <2>2
  <1>3. CASE ~(Len(b) < AwrCap) /\ AwrCap > 0
    <2>1. AwrCut(b) = SubSeq(b, 1, AwrCap - 1)
      BY <1>3 DEF AwrCut
    <2>2. /\ SubSeq(b, 1, AwrCap - 1) \in Seq(Nat)
          /\ Len(SubSeq(b, 1, AwrCap - 1)) = (AwrCap - 1) - 1 + 1
          /\ \A i \in 1..(AwrCap - 1) - 1 + 1 : SubSeq(b, 1, AwrCap - 1)[i] = b[1 + i - 1]
      <3>1. 1 \in 1..Len(b) + 1 /\ AwrCap - 1 \in 0..Len(b) /\ 1 <= AwrCap - 1 + 1
        BY <1>1, <1>3
      <3> QED BY <3>1, PartOf
    <2>3. /\ AwrCut(b) \in Seq(Nat) /\ Len(AwrCut(b)) = AwrCap - 1
          /\ \A i \in 1..AwrCap - 1 : AwrCut(b)[i] = b[i]
      BY <1>1, <1>3, <2>1, <2>2
    <2> HIDE DEF AwrCut
    <2> QED BY <1>1, <1>3, <2>3
  <1>4. CASE ~(Len(b) < AwrCap) /\ AwrCap = 0
    <2>1. AwrCut(b) = SubSeq(b, 1, 0 - 1)
      BY <1>4 DEF AwrCut
    <2>2. SubSeq(b, 1, 0 - 1) = <<>>
      BY SubSeqEmpty
    <2> QED BY <1>1, <1>4, <2>1, <2>2
  <1> QED BY <1>1, <1>2, <1>3, <1>4

LEMMA CleanAllows ==
    ASSUME NEW c \in Seq(Nat)
    PROVE  /\ AwrClean(c) \in Seq(Nat) /\ Len(AwrClean(c)) = Len(c)
           /\ \A i \in 1..Len(c) : /\ AwrClean(c)[i] \notin AwrForbidden
                                   /\ c[i] \notin AwrSeparators => AwrClean(c)[i] \notin AwrSeparators
           /\ (\A i \in 1..Len(c) : c[i] \notin AwrForbidden) => AwrClean(c) = c
  <1>1. DOMAIN c = 1..Len(c) /\ Len(c) \in Nat /\ \A i \in 1..Len(c) : c[i] \in Nat
    OBVIOUS
  <1>2. AwrClean(c) = [i \in 1..Len(c) |-> IF c[i] \in AwrForbidden THEN 95 ELSE c[i]]
    BY <1>1 DEF AwrClean, AwrUnderscore
  <1>3. AwrClean(c) \in Seq(Nat) /\ Len(AwrClean(c)) = Len(c)
    BY <1>1, <1>2
  <1>4. 95 \notin AwrForbidden /\ 95 \notin AwrSeparators
    BY DEF AwrForbidden, AwrSeparators
  <1>5. (\A i \in 1..Len(c) : c[i] \notin AwrForbidden) => AwrClean(c) = c
    BY <1>1, <1>2
  <1> QED BY <1>2, <1>3, <1>4, <1>5

\* Neither end is trimmed, and nothing is where neither was.
LEMMA TrimStops ==
    ASSUME NEW c \in Seq(Nat)
    PROVE  LET t == AwrTrim(c)
           IN  /\ t \in Seq(Nat) /\ Len(t) <= Len(c)
               /\ \A i \in 1..Len(t) : \E j \in 1..Len(c) : t[i] = c[j]
               /\ t # <<>> => t[1] \notin AwrTrimSet /\ t[Len(t)] \notin AwrTrimSet
               /\ (c # <<>> /\ c[1] \notin AwrTrimSet /\ c[Len(c)] \notin AwrTrimSet) => t = c
  <1> DEFINE kept == {i \in 1..Len(c) : c[i] \notin AwrTrimSet}
             f == CHOOSE i \in kept : \A j \in kept : i <= j
             l == CHOOSE i \in kept : \A j \in kept : j <= i
             t == SubSeq(c, f, l)
  <1>1. Len(c) \in Nat
    OBVIOUS
  <1>2. CASE kept = {}
    <2>1. AwrTrim(c) = <<>>
      BY <1>2 DEF AwrTrim
    <2>2. c # <<>> => 1 \in 1..Len(c)
      BY <1>1
    <2> QED BY <1>1, <1>2, <2>1, <2>2
  <1>3. CASE kept # {}
    <2>1. f \in kept /\ \A j \in kept : f <= j
      BY <1>1, <1>3, FirstPlace
    <2>2. l \in kept /\ \A j \in kept : j <= l
      BY <1>1, <1>3, LastPlace
    <2>3. AwrTrim(c) = t
      BY <1>3 DEF AwrTrim
    <2>4. /\ f \in 1..Len(c) /\ l \in 1..Len(c) /\ f <= l
          /\ c[f] \notin AwrTrimSet /\ c[l] \notin AwrTrimSet
      BY <2>1, <2>2
    <2>5. (c[1] \notin AwrTrimSet /\ c[Len(c)] \notin AwrTrimSet) => f = 1 /\ l = Len(c)
      <3>1. SUFFICES ASSUME c[1] \notin AwrTrimSet, c[Len(c)] \notin AwrTrimSet
                     PROVE  f = 1 /\ l = Len(c)
        OBVIOUS
      <3>2. 1 \in kept /\ Len(c) \in kept
        BY <1>1, <2>4, <3>1
      <3> HIDE DEF f, l, kept
      <3> QED BY <1>1, <2>1, <2>2, <2>4, <3>2
    <2> HIDE DEF f, l
    <2>6. /\ t \in Seq(Nat) /\ Len(t) = l - f + 1
          /\ \A i \in 1..l - f + 1 : t[i] = c[f + i - 1]
          /\ (f = 1 /\ l = Len(c)) => t = c
      <3>1. f \in 1..Len(c) + 1 /\ l \in 0..Len(c) /\ f <= l + 1
        BY <1>1, <2>4
      <3> QED BY <3>1, PartOf
    <2> HIDE DEF t
    <2>7. t[1] = c[f] /\ t[Len(t)] = c[l] /\ Len(t) <= Len(c)
      BY <1>1, <2>4, <2>6
    <2>8. \A i \in 1..Len(t) : f + i - 1 \in 1..Len(c) /\ t[i] = c[f + i - 1]
      BY <1>1, <2>4, <2>6
    <2> QED BY <2>3, <2>4, <2>5, <2>6, <2>7, <2>8
  <1> QED BY <1>2, <1>3

\* A name that keeps the rules.
AwrRuly(k) ==
    /\ k \in Seq(Nat) /\ k # <<>> /\ Len(k) < AwrCap
    /\ \A i \in 1..Len(k) : k[i] \notin AwrSeparators \cup AwrForbidden
    /\ k[1] \notin AwrTrimSet /\ k[Len(k)] \notin AwrTrimSet

LEMMA KeptIsRuly ==
    ASSUME NEW n \in Seq(Nat), AwrKept(n) # <<>>
    PROVE  AwrRuly(AwrKept(n))
  <1> DEFINE b == AwrBase(n)
             c == AwrCut(b)
             d == AwrClean(c)
             k == AwrTrim(d)
  <1>1. b \in Seq(Nat) /\ \A i \in 1..Len(b) : b[i] \notin AwrSeparators
    BY BaseHasNoSeparator
  <1> HIDE DEF b
  <1>2. /\ c \in Seq(Nat)
        /\ c # <<>> => Len(c) < AwrCap
        /\ \A i \in 1..Len(c) : c[i] \notin AwrSeparators
    BY <1>1, CutFits
  <1> HIDE DEF c
  <1>3. /\ d \in Seq(Nat) /\ Len(d) = Len(c)
        /\ \A i \in 1..Len(d) : d[i] \notin AwrSeparators \cup AwrForbidden
    <2>1. /\ AwrClean(c) \in Seq(Nat) /\ Len(AwrClean(c)) = Len(c)
          /\ \A i \in 1..Len(c) : /\ AwrClean(c)[i] \notin AwrForbidden
                                  /\ c[i] \notin AwrSeparators => AwrClean(c)[i] \notin AwrSeparators
      <3>1. c \in Seq(Nat)
        BY <1>2
      <3> QED BY <3>1, CleanAllows
    <2>2. d \in Seq(Nat) /\ Len(d) = Len(c)
      BY <2>1
    <2>3. \A i \in 1..Len(c) : d[i] \notin AwrForbidden /\ d[i] \notin AwrSeparators
      <3>1. d = AwrClean(c)
        OBVIOUS
      <3> HIDE DEF d
      <3>2. SUFFICES ASSUME NEW i \in 1..Len(c)
                     PROVE  d[i] \notin AwrForbidden /\ d[i] \notin AwrSeparators
        OBVIOUS
      <3>3. c[i] \notin AwrSeparators
        BY <1>2
      <3> QED BY <2>1, <3>1, <3>3
    <2> HIDE DEF d
    <2> QED BY <2>2, <2>3
  <1> HIDE DEF d
  <1>4. /\ k \in Seq(Nat) /\ Len(k) <= Len(d)
        /\ \A i \in 1..Len(k) : \E j \in 1..Len(d) : k[i] = d[j]
        /\ k # <<>> => k[1] \notin AwrTrimSet /\ k[Len(k)] \notin AwrTrimSet
    BY <1>3, TrimStops
  <1>5. k = AwrKept(n)
    BY DEF AwrKept, d, c, b
  <1> HIDE DEF k
  <1>6. Len(k) \in Nat \ {0} /\ Len(c) \in Nat
    BY <1>2, <1>4, <1>5
  <1>7. c # <<>>
    BY <1>3, <1>4, <1>6
  <1>8. Len(k) < AwrCap
    <2>1. Len(c) < AwrCap /\ Len(k) <= Len(c)
      BY <1>2, <1>3, <1>4, <1>7
    <2>2. Len(c) \in Nat /\ Len(k) \in Nat /\ AwrCap \in Nat
      BY <1>6, AwrAssumption
    <2> QED BY <2>1, <2>2
  <1>9. \A i \in 1..Len(k) : k[i] \notin AwrSeparators \cup AwrForbidden
    BY <1>3, <1>4
  <1> QED BY <1>4, <1>5, <1>8, <1>9 DEF AwrRuly

\* A name that keeps the rules and is no device's is left as it is.
LEMMA RulyIsKept ==
    ASSUME NEW k, AwrRuly(k)
    PROVE  AwrKept(k) = k
  <1> USE DEF AwrRuly
  <1>1. AwrBase(k) = k
    BY BaseHasNoSeparator
  <1>2. AwrCut(k) = k
    BY CutFits
  <1>3. AwrClean(k) = k
    BY CleanAllows
  <1>4. AwrTrim(k) = k
    BY TrimStops
  <1> QED BY <1>1, <1>2, <1>3, <1>4 DEF AwrKept

LEMMA UnderscoreIsRuly ==
    ASSUME NEW k, AwrRuly(k), Len(k) + 2 <= AwrCap
    PROVE  /\ AwrRuly(Append(k, AwrUnderscore))
           /\ AwrReserved(Append(k, AwrUnderscore)) =>
                  AwrStem(Append(k, AwrUnderscore)) # Append(k, AwrUnderscore)
  <1> DEFINE u == Append(k, AwrUnderscore)
  <1>1. Len(k) \in Nat \ {0} /\ k \in Seq(Nat) /\ AwrUnderscore \in Nat
    BY DEF AwrRuly, AwrUnderscore
  <1>2. /\ u \in Seq(Nat) /\ Len(u) = Len(k) + 1
        /\ \A i \in 1..Len(k) + 1 : u[i] = IF i = Len(k) + 1 THEN 95 ELSE k[i]
    BY <1>1 DEF AwrUnderscore
  <1> HIDE DEF u
  <1>3. 95 \notin AwrSeparators \cup AwrForbidden /\ 95 \notin AwrTrimSet
    BY DEF AwrSeparators, AwrForbidden, AwrTrimSet, AwrDot, AwrBlank
  <1>4. u # <<>> /\ Len(u) < AwrCap
    BY <1>1, <1>2, AwrAssumption
  <1>5. u[1] = k[1] /\ u[Len(u)] = 95
    BY <1>1, <1>2
  <1>6. \A i \in 1..Len(u) : u[i] \notin AwrSeparators \cup AwrForbidden
    <2>1. SUFFICES ASSUME NEW i \in 1..Len(u) PROVE u[i] \notin AwrSeparators \cup AwrForbidden
      OBVIOUS
    <2>2. CASE i = Len(k) + 1
      BY <1>1, <1>2, <1>3, <2>2
    <2>3. CASE i \in 1..Len(k)
      <3>1. u[i] = k[i]
        BY <1>1, <1>2, <2>3
      <3>2. k[i] \notin AwrSeparators \cup AwrForbidden
        BY <2>3 DEF AwrRuly
      <3> QED BY <3>1, <3>2
    <2> QED BY <1>1, <1>2, <2>2, <2>3
  <1>7. AwrRuly(u)
    BY <1>2, <1>3, <1>4, <1>5, <1>6 DEF AwrRuly
  <1>8. ASSUME AwrReserved(u), AwrStem(u) = u PROVE FALSE
    <2>1. DOMAIN u = 1..Len(u)
      BY <1>2
    <2>2. [i \in 1..Len(u) |-> AwrUpper(u[i])] \in AwrDevices
      BY <1>8, <2>1 DEF AwrReserved
    <2> DEFINE v == [i \in 1..Len(u) |-> AwrUpper(u[i])]
    <2>3. v = <<67, 79, 78>> \/ v = <<78, 85, 76>>
      BY <2>2 DEF AwrDevices
    <2>4. Len(u) = 3
      <3>1. Len(v) = Len(u)
        BY <1>1, <1>2
      <3> HIDE DEF v
      <3> QED BY <2>3, <3>1
    <2>5. v[3] = 95
      <3>1. 3 \in 1..Len(u) /\ u[3] = 95
        BY <1>5, <2>4
      <3>2. v[3] = AwrUpper(u[3])
        BY <3>1
      <3>3. AwrUpper(95) = 95
        BY DEF AwrUpper
      <3> HIDE DEF v
      <3> QED BY <3>1, <3>2, <3>3
    <2> HIDE DEF v
    <2> QED BY <2>3, <2>5
  <1> QED BY <1>7, <1>8 DEF u

LEMMA SafeNameStands ==
    ASSUME NEW n \in Seq(Nat), AwrSafeName(n) # <<>>
    PROVE  LET k == AwrSafeName(n)
           IN  /\ AwrRuly(k)
               /\ AwrReserved(k) => AwrStem(k) # k
               /\ ~AwrReserved(k) => AwrSafeName(k) = k
  <1> DEFINE k == AwrSafeName(n)
  <1>1. AwrRuly(k) /\ (AwrReserved(k) => AwrStem(k) # k)
    <2>1. CASE AwrKept(n) # <<>> /\ AwrReserved(AwrKept(n))
      <3>1. k = Append(AwrKept(n), AwrUnderscore) /\ ~(Len(AwrKept(n)) + 2 > AwrCap)
        BY <2>1, SafeNameSteps
      <3>2. AwrRuly(AwrKept(n))
        BY <2>1, KeptIsRuly
      <3>3. Len(AwrKept(n)) + 2 <= AwrCap
        BY <3>1, <3>2, AwrAssumption DEF AwrRuly
      <3> QED BY <3>1, <3>2, <3>3, UnderscoreIsRuly
    <2>2. CASE ~(AwrKept(n) # <<>> /\ AwrReserved(AwrKept(n)))
      <3>1. k = AwrKept(n)
        BY <2>2, SafeNameSteps
      <3> QED BY <2>2, <3>1, KeptIsRuly
    <2> QED BY <2>1, <2>2
  <1> HIDE DEF k
  <1>2. ~AwrReserved(k) => AwrSafeName(k) = k
    BY <1>1, RulyIsKept, SafeNameSteps
  <1> QED BY <1>1, <1>2 DEF k

\* The state is a stream, or a name with what it was made into.
AwrInv ==
    \/ /\ awr = [kind |-> "stream", out |-> awr.out, buf |-> awr.buf, sent |-> awr.sent,
                 got |-> awr.got, dead |-> awr.dead, left |-> awr.left]
    \/ /\ awr = [kind |-> "name", offered |-> awr.offered, kept |-> awr.kept, done |-> awr.done]
       /\ awr.offered \in Seq(Nat)
       /\ awr.done => awr.kept = AwrSafeName(awr.offered)

\* A file is kept under a name every system takes as it stands: one component
\* that fits, nothing forbidden, nothing a system would strip or hide, and
\* unchanged if it is made safe again (asp_safe_name) -- for every name a peer
\* may offer and every room for it.
THEOREM NamesStand == AwrSpec => []AwrNameStands
  <1>1. AwrInit => AwrInv
    BY AwrAssumption DEF AwrInit, AwrInv
  <1>2. ASSUME AwrInv, [AwrNext]_awr PROVE AwrInv'
    <2>1. CASE UNCHANGED awr
      BY <1>2, <2>1 DEF AwrInv
    <2>2. ASSUME NEW m \in AwrMessages, AwrPut(m) PROVE AwrInv'
      BY <1>2, <2>2 DEF AwrInv, AwrPut
    <2>3. ASSUME NEW k \in AwrPieces, AwrArrive(k) PROVE AwrInv'
      BY <1>2, <2>3 DEF AwrInv, AwrArrive
    <2>4. CASE AwrGet
      BY <1>2, <2>4 DEF AwrInv, AwrGet
    <2>5. CASE AwrName
      BY <1>2, <2>5 DEF AwrInv, AwrName
    <2> QED BY <1>2, <2>1, <2>2, <2>3, <2>4, <2>5 DEF AwrNext
  <1>3. AwrInv => AwrNameStands
    <2>1. SUFFICES ASSUME AwrInv, awr.kind = "name", awr.done, awr.kept # <<>>
                   PROVE  AwrNameStands
      BY DEF AwrNameStands
    <2>2. awr.offered \in Seq(Nat) /\ awr.kept = AwrSafeName(awr.offered)
      BY <2>1 DEF AwrInv
    <2> QED BY <2>1, <2>2, SafeNameStands DEF AwrNameStands, AwrRuly
  <1> QED BY <1>1, <1>2, <1>3, PTL DEF AwrSpec

-----------------------------------------------------------------------------
(* FecChat: stations that never run out of ids within the window, and a    *)
(* table that holds what may be shown between two copies of a frame.       *)

FecSpec == FecInit /\ [][FecNext]_fecVars

FecRoom == /\ (FecWindow + 1) * FecFrame < 2 * FecIds
           /\ (FecCopies - 1) * FecGap < FecSeen

FecIdsUsed == 0..(FecIds - 1)
FecMessages == [call : Calls, id : FecIdsUsed]
FecUnits == [call : Calls, id : FecIdsUsed, len : Nat, i : Nat]
FecEntries == [call : Calls, id : FecIdsUsed, at : Nat]
FecShowings == [m : FecMessages, at : Nat]
FecStations == [next : FecIdsUsed, queue : Seq(FecUnits), frame : Seq(FecUnits),
                copies : 0..(FecCopies - 1), at : Nat, began : Nat,
                reached : SUBSET [id : FecIdsUsed, at : Nat]]

\* How many ids were used since id was: all of them if it is the next.
FecSince(next, id) == IF id < next THEN next - id ELSE next + FecIds - id

\* Units that may have been sent since a time, a frame for each transmission.
FecSentSince(now, at) == (now - at) * FecFrame

\* What a station has to send: the messages with an id are far apart, because each
\* of those between has two units at least.
FecLaid(c, u, next) ==
    /\ u \in Seq(FecUnits)
    /\ \A p \in 1..Len(u) : u[p].call = c
    /\ \A p \in 1..Len(u) : u[p].i = 1 => 2 * FecSince(next, u[p].id) <= Len(u) - p + 1
    /\ \A p, q \in 1..Len(u) :
          (p < q /\ u[p].i = 1 /\ u[q].i = 1 /\ u[p].id = u[q].id) => q - p >= 2 * FecIds

\* What was shown of a station at a time, seen from its queue: the ids used since
\* then are in the queue or were sent, and so is what lies before the id's next use.
FecBehind(u, next, e, now) ==
    /\ Len(u) + FecSentSince(now, e.at) + FecFrame >= 2 * FecSince(next, e.m.id)
    /\ \A p \in 1..Len(u) : (u[p].i = 1 /\ u[p].id = e.m.id) =>
          (p - 1) + FecSentSince(now, e.at) + FecFrame >= 2 * FecIds

FecQueued(c, s, shown, now) ==
    /\ FecLaid(c, s.frame \o s.queue, s.next)
    /\ \A i \in 1..Len(shown) : shown[i].m.call = c => FecBehind(s.queue, s.next, shown[i], now)

\* Entries of the table made after a time, and how many there may be when a frame
\* has some copies left and others transmitted since the last.
FecNewer(seen, at) == {e \in seen : e.at > at}
FecSlack(copies, others) == (FecCopies - copies - 1) * FecGap + others

\* What was shown of a station for the frame at hand: before it began, out of the
\* window; since, out of the window or in the table and not about to leave it.
FecKnown(s, e, seen, now) ==
    /\ e.at < s.began => s.began - e.at > FecWindow
    /\ e.at >= s.began =>
         \/ now - e.at > FecWindow
         \/ /\ [call |-> e.m.call, id |-> e.m.id, at |-> e.at] \in seen
            /\ Cardinality(FecNewer(seen, e.at)) <= FecSlack(s.copies, now - s.at - 1)

FecSending(c, s, seen, shown, now) ==
    /\ s.copies = 0 => s.frame = <<>>
    /\ s.copies > 0 =>
         /\ Len(s.frame) \in 1..FecFrame
         /\ s.began <= s.at /\ s.at < now /\ now - s.at - 1 <= FecGap
         /\ s.frame[1].i = 1 =>
              \A i \in 1..Len(shown) :
                 shown[i].m = [call |-> c, id |-> s.frame[1].id] =>
                     FecKnown(s, shown[i], seen, now)

\* The listener's table: entries of what was shown, one for a time at most.
FecTable(seen, shown, now) ==
    /\ IsFiniteSet(seen) /\ seen \subseteq FecEntries
    /\ \A e \in seen : \E i \in 1..Len(shown) :
          shown[i] = [m |-> [call |-> e.call, id |-> e.id], at |-> e.at]
    /\ \A e, f \in seen : e.at = f.at => e = f
    /\ \A i \in 1..Len(shown) : shown[i].at < now

FecApart(shown) ==
    \A i, j \in 1..Len(shown) :
        (i < j /\ shown[i].m = shown[j].m) => shown[j].at - shown[i].at > FecWindow

FecReaches(c, reached, shown) ==
    \A m \in reached : \E i \in 1..Len(shown) :
        shown[i].m = [call |-> c, id |-> m.id] /\ shown[i].at >= m.at

FecStationOk(c, s, seen, shown, now) ==
    /\ s \in FecStations
    /\ FecQueued(c, s, shown, now)
    /\ FecSending(c, s, seen, shown, now)
    /\ FecReaches(c, s.reached, shown)

FecListenerOk(seen, shown, now) ==
    /\ now \in Nat
    /\ shown \in Seq(FecShowings)
    /\ FecTable(seen, shown, now)
    /\ FecApart(shown)

FecTypes ==
    /\ fec \in [Calls -> FecStations]
    /\ heard \in [seen : SUBSET FecEntries, shown : Seq(FecShowings),
                  raw : Nat, typed : Nat, lost : Nat]

FecInv ==
    /\ FecTypes
    /\ FecListenerOk(heard.seen, heard.shown, fecNow)
    /\ \A c \in Calls : FecStationOk(c, fec[c], heard.seen, heard.shown, fecNow)

(* Lengths and distances. *)

LEMMA FecConstants ==
    /\ FecFrame \in Nat \ {0, 1} /\ FecCopies \in Nat \ {0} /\ FecGap \in Nat
    /\ FecSeen \in Nat \ {0} /\ FecWindow \in Nat /\ FecIds \in Nat \ {0}
  BY ONLY FecAssumption, Zenon DEF FecAssumption

LEMMA FecSinceType ==
    ASSUME NEW next \in FecIdsUsed, NEW id \in FecIdsUsed
    PROVE  /\ FecSince(next, id) \in 1..FecIds
           /\ FecSince(next, next) = FecIds
           /\ (next + 1) % FecIds \in FecIdsUsed
           /\ FecSince((next + 1) % FecIds, next) = 1
           /\ id # next => FecSince((next + 1) % FecIds, id) = FecSince(next, id) + 1
  <1>1. FecIds \in Nat /\ FecIds > 0 /\ next \in Nat /\ next < FecIds /\ id \in Nat /\ id < FecIds
    BY FecConstants DEF FecIdsUsed
  <1>2. (next + 1) % FecIds = IF next + 1 = FecIds THEN 0 ELSE next + 1
    <2>1. CASE next + 1 = FecIds
      BY <1>1, <2>1
    <2>2. CASE next + 1 < FecIds
      BY <1>1, <2>2
    <2> QED BY <1>1, <2>1, <2>2
  <1> HIDE FecAssumption
  <1> QED BY <1>1, <1>2 DEF FecSince, FecIdsUsed

LEMMA FecSentSinceIs ==
    ASSUME NEW now \in Nat, NEW at \in Nat, at <= now
    PROVE  /\ FecSentSince(now, at) \in Nat
           /\ FecSentSince(now + 1, at) = FecSentSince(now, at) + FecFrame
           /\ (FecRoom /\ FecSentSince(now, at) + FecFrame >= 2 * FecIds) =>
                 now - at > FecWindow
  <1>1. PICK k \in Nat : k = now - at
    OBVIOUS
  <1>2. FecFrame \in Nat /\ FecWindow \in Nat /\ FecIds \in Nat
    BY FecConstants
  <1>3. FecSentSince(now, at) = k * FecFrame /\ FecSentSince(now + 1, at) = (k + 1) * FecFrame
    BY <1>1 DEF FecSentSince
  <1>4. k * FecFrame \in Nat /\ (k + 1) * FecFrame = k * FecFrame + FecFrame
    BY <1>2
  <1>5. ASSUME FecRoom, FecSentSince(now, at) + FecFrame >= 2 * FecIds, ~(k > FecWindow)
        PROVE  FALSE
    <2>1. (k + 1) * FecFrame >= 2 * FecIds
      BY <1>3, <1>4, <1>5
    <2>2. (FecWindow + 1) * FecFrame < 2 * FecIds
      BY <1>5 DEF FecRoom
    <2>3. PICK d \in Nat : FecWindow = k + d
      <3>1. FecWindow - k \in Nat /\ FecWindow = k + (FecWindow - k)
        BY <1>2, <1>5
      <3> QED BY <3>1
    <2>4. (k + d + 1) * FecFrame = (k + 1) * FecFrame + d * FecFrame
      BY <1>2
    <2>5. d * FecFrame \in Nat /\ (k + 1) * FecFrame \in Nat
      BY <1>2
    <2> QED BY <1>2, <2>1, <2>2, <2>3, <2>4, <2>5
  <1> QED BY <1>1, <1>3, <1>4, <1>5

LEMMA FecSlackIs ==
    ASSUME NEW copies \in 1..FecCopies, NEW others \in Nat
    PROVE  /\ FecSlack(copies - 1, 0) \in Nat
           /\ copies < FecCopies =>
                 /\ FecSlack(copies, others) \in Nat
                 /\ FecSlack(copies, others + 1) = FecSlack(copies, others) + 1
                 /\ others <= FecGap => FecSlack(copies, others) <= FecSlack(copies - 1, 0)
                 /\ (FecRoom /\ others < FecGap) => FecSlack(copies, others) < FecSeen - 1
  <1>1. PICK k \in Nat : k = FecCopies - copies
    BY FecConstants
  <1>2. FecGap \in Nat /\ FecSeen \in Nat /\ FecCopies \in Nat
    BY FecConstants
  <1>3. FecSlack(copies - 1, 0) = k * FecGap /\ k * FecGap \in Nat
    BY <1>1, <1>2 DEF FecSlack
  <1>4. ASSUME copies < FecCopies
        PROVE  /\ FecSlack(copies, others) \in Nat
               /\ FecSlack(copies, others + 1) = FecSlack(copies, others) + 1
               /\ others <= FecGap => FecSlack(copies, others) <= k * FecGap
               /\ (FecRoom /\ others < FecGap) => FecSlack(copies, others) < FecSeen - 1
    <2>1. PICK j \in Nat : k = j + 1
      <3>1. k - 1 \in Nat /\ k = (k - 1) + 1
        BY <1>1, <1>2, <1>4
      <3> QED BY <3>1
    <2>2. j * FecGap \in Nat /\ k * FecGap = j * FecGap + FecGap
      BY <1>2, <2>1
    <2>3. \A o \in Nat : FecSlack(copies, o) = j * FecGap + o
      BY <1>1, <1>2, <2>1 DEF FecSlack
    <2>4. ASSUME FecRoom PROVE k * FecGap < FecSeen
      <3>1. PICK d \in Nat : FecCopies - 1 = k + d
        <4>1. copies - 1 \in Nat /\ FecCopies - 1 = k + (copies - 1)
          BY <1>1, <1>2
        <4> QED BY <4>1
      <3>2. (k + d) * FecGap = k * FecGap + d * FecGap /\ d * FecGap \in Nat /\ k * FecGap \in Nat
        BY <1>2
      <3>3. (k + d) * FecGap < FecSeen
        BY <2>4, <3>1 DEF FecRoom
      <3> QED BY <1>2, <3>2, <3>3
    <2> QED BY <1>2, <2>2, <2>3, <2>4
  <1> QED BY <1>3, <1>4

LEMMA FecCat ==
    ASSUME NEW a \in Seq(FecUnits), NEW b \in Seq(FecUnits), NEW c \in Seq(FecUnits)
    PROVE  /\ a \o (b \o c) = (a \o b) \o c
           /\ <<>> \o a = a
  BY ConcatAssociative, ConcatEmptySeq

LEMMA FecMessageIs ==
    ASSUME NEW c \in Calls, NEW id \in FecIdsUsed, NEW n \in Nat
    PROVE  /\ Message(c, id, n) \in Seq(FecUnits)
           /\ Len(Message(c, id, n)) = n + 1
           /\ \A i \in 1..(n + 1) : /\ Message(c, id, n)[i].call = c
                                    /\ Message(c, id, n)[i].id = id
                                    /\ Message(c, id, n)[i].i = i
  <1> DEFINE m == Message(c, id, n)
  <1>1. m = [i \in 1..(n + 1) |-> [call |-> c, id |-> id, len |-> n + 1, i |-> i]]
    BY DEF Message
  <1>2. ASSUME NEW i \in 1..(n + 1)
        PROVE  m[i] = [call |-> c, id |-> id, len |-> n + 1, i |-> i] /\ m[i] \in FecUnits
    <2>1. m[i] = [call |-> c, id |-> id, len |-> n + 1, i |-> i]
      BY <1>1
    <2> HIDE DEF m
    <2> QED BY <2>1 DEF FecUnits
  <1>3. m \in [1..(n + 1) -> FecUnits]
    <2>1. DOMAIN m = 1..(n + 1) /\ m = [i \in 1..(n + 1) |-> m[i]]
      BY <1>1
    <2> HIDE DEF m
    <2> QED BY <2>1, <1>2
  <1> HIDE DEF m
  <1>4. m \in Seq(FecUnits) /\ Len(m) = n + 1
    <2>1. n + 1 \in Nat
      OBVIOUS
    <2> QED BY <1>3, <2>1
  <1> QED BY <1>2, <1>4 DEF m

LEMMA FecLaidRest ==
    ASSUME NEW c, NEW v \in Seq(FecUnits), NEW w \in Seq(FecUnits), NEW next,
           FecLaid(c, v \o w, next)
    PROVE  FecLaid(c, w, next)
  <1> DEFINE u == v \o w
  <1>1. PICK k \in Nat, l \in Nat : k = Len(v) /\ l = Len(w)
    BY LenProperties
  <1>2. Len(u) = k + l /\ \A p \in 1..l : k + p \in 1..(k + l) /\ u[k + p] = w[p]
    BY <1>1
  <1>3. /\ \A p \in 1..(k + l) : u[p].call = c
        /\ \A p \in 1..(k + l) : u[p].i = 1 => 2 * FecSince(next, u[p].id) <= (k + l) - p + 1
        /\ \A p, q \in 1..(k + l) :
              (p < q /\ u[p].i = 1 /\ u[q].i = 1 /\ u[p].id = u[q].id) => q - p >= 2 * FecIds
    BY <1>2 DEF FecLaid
  <1> HIDE DEF u
  <1>4. \A p \in 1..l : w[p].call = c
    BY <1>2, <1>3
  <1>5. ASSUME NEW p \in 1..l, w[p].i = 1 PROVE 2 * FecSince(next, w[p].id) <= l - p + 1
    <2>1. k + p \in 1..(k + l) /\ u[k + p] = w[p]
      BY <1>2
    <2>2. 2 * FecSince(next, w[p].id) <= (k + l) - (k + p) + 1
      BY <1>3, <1>5, <2>1
    <2>3. (k + l) - (k + p) + 1 = l - p + 1
      OBVIOUS
    <2> QED BY <2>2, <2>3
  <1>6. ASSUME NEW p \in 1..l, NEW q \in 1..l, p < q, w[p].i = 1, w[q].i = 1, w[p].id = w[q].id
        PROVE  q - p >= 2 * FecIds
    <2>1. k + p \in 1..(k + l) /\ u[k + p] = w[p] /\ k + q \in 1..(k + l) /\ u[k + q] = w[q]
      BY <1>2
    <2>2. k + p < k + q /\ (k + q) - (k + p) = q - p
      BY <1>6
    <2>3. (k + q) - (k + p) >= 2 * FecIds
      BY <1>3, <1>6, <2>1, <2>2
    <2> QED BY <2>2, <2>3
  <1> QED BY <1>1, <1>4, <1>5, <1>6 DEF FecLaid

\* A message more behind what there is.
LEMMA FecLaidMore ==
    ASSUME NEW c \in Calls, NEW u, NEW next \in FecIdsUsed, FecLaid(c, u, next),
           NEW n \in Nat \ {0}
    PROVE  FecLaid(c, u \o Message(c, next, n), (next + 1) % FecIds)
  <1> DEFINE m == Message(c, next, n)
             w == u \o m
             then == (next + 1) % FecIds
  <1>1. PICK k \in Nat : k = Len(u)
    BY LenProperties DEF FecLaid
  <1>2. u \in Seq(FecUnits) /\ m \in Seq(FecUnits) /\ Len(m) = n + 1
    BY FecMessageIs DEF FecLaid
  <1>3. /\ w \in Seq(FecUnits) /\ Len(w) = k + (n + 1)
        /\ \A p \in 1..k : w[p] = u[p]
        /\ \A p \in 1..(n + 1) : w[k + p] = m[p]
    <2> HIDE DEF m
    <2> QED BY <1>1, <1>2
  <1>4. \A p \in 1..k : u[p] \in FecUnits /\ u[p].id \in FecIdsUsed
    <2>1. \A p \in 1..k : u[p] \in FecUnits
      <3> HIDE DEF m
      <3> QED BY <1>1, <1>2
    <2> HIDE DEF m, w
    <2> QED BY <2>1 DEF FecUnits
  <1>5. \A p \in 1..(n + 1) : w[k + p].call = c /\ w[k + p].id = next /\ w[k + p].i = p
    <2>1. \A p \in 1..(n + 1) : m[p].call = c /\ m[p].id = next /\ m[p].i = p
      BY FecMessageIs
    <2> HIDE DEF m, w
    <2> QED BY <1>3, <2>1
  <1>6. \A p \in 1..k : u[p].call = c /\ (u[p].i = 1 => 2 * FecSince(next, u[p].id) <= k - p + 1)
    BY <1>1 DEF FecLaid
  <1>7. \A p, q \in 1..k : (p < q /\ u[p].i = 1 /\ u[q].i = 1 /\ u[p].id = u[q].id) =>
            q - p >= 2 * FecIds
    BY <1>1 DEF FecLaid
  <1> HIDE DEF w, m, then
  <1>8. \A p \in 1..(k + (n + 1)) :
            \/ p \in 1..k
            \/ p - k \in 1..(n + 1) /\ w[p].call = c /\ w[p].id = next /\ w[p].i = p - k
    <2>1. SUFFICES ASSUME NEW p \in 1..(k + (n + 1)), p \notin 1..k
                   PROVE  p - k \in 1..(n + 1) /\ w[p].call = c /\ w[p].id = next /\ w[p].i = p - k
      OBVIOUS
    <2>2. PICK o \in 1..(n + 1) : p = k + o
      <3>1. p - k \in 1..(n + 1) /\ p = k + (p - k)
        BY <2>1
      <3> QED BY <3>1
    <2>3. p - k = o
      BY <2>2
    <2> QED BY <1>5, <2>2, <2>3
  <1>9. \A p \in 1..(k + (n + 1)) : w[p].call = c
    BY <1>3, <1>6, <1>8
  <1>10. ASSUME NEW p \in 1..(k + (n + 1)), w[p].i = 1
         PROVE  2 * FecSince(then, w[p].id) <= (k + (n + 1)) - p + 1
    <2>1. CASE p \in 1..k
      <3>1. w[p] = u[p] /\ 2 * FecSince(next, u[p].id) <= k - p + 1 /\ u[p].id \in FecIdsUsed
        BY <1>3, <1>4, <1>6, <1>10, <2>1
      <3>2. PICK id \in FecIdsUsed : id = u[p].id
        BY <3>1
      <3>3. FecSince(next, id) \in 1..FecIds /\ FecSince(then, next) = 1
        BY FecSinceType DEF then
      <3>4. id # next => FecSince(then, id) = FecSince(next, id) + 1
        BY FecSinceType DEF then
      <3>5. FecSince(then, id) <= FecSince(next, id) + 1 /\ FecSince(then, id) \in Nat
        BY <3>3, <3>4, FecConstants
      <3> QED BY <3>1, <3>2, <3>3, <3>5, <2>1, FecConstants
    <2>2. CASE p \notin 1..k
      <3>1. w[p].id = next /\ p = k + 1
        BY <1>8, <1>10, <2>2
      <3>2. FecSince(then, next) = 1
        BY FecSinceType DEF then
      <3> QED BY <3>1, <3>2
    <2> QED BY <2>1, <2>2
  <1>11. ASSUME NEW p \in 1..(k + (n + 1)), NEW q \in 1..(k + (n + 1)),
                p < q, w[p].i = 1, w[q].i = 1, w[p].id = w[q].id
         PROVE  q - p >= 2 * FecIds
    <2>1. CASE q \in 1..k
      <3>1. p \in 1..k
        BY <1>11, <2>1
      <3> QED BY <1>3, <1>7, <1>11, <2>1, <3>1
    <2>2. CASE q \notin 1..k
      <3>1. w[q].id = next /\ q = k + 1
        BY <1>8, <1>11, <2>2
      <3>2. p \in 1..k
        BY <1>11, <3>1
      <3>3. 2 * FecSince(next, u[p].id) <= k - p + 1 /\ u[p].id = next
        BY <1>3, <1>6, <1>11, <3>1, <3>2
      <3>4. FecSince(next, next) = FecIds
        BY FecSinceType
      <3> QED BY <3>1, <3>3, <3>4
    <2> QED BY <2>1, <2>2
  <1> QED BY <1>3, <1>9, <1>10, <1>11 DEF FecLaid, w, m, then

LEMMA FecBehindMore ==
    ASSUME NEW c \in Calls, NEW u \in Seq(FecUnits), NEW next \in FecIdsUsed, NEW n \in Nat \ {0},
           NEW now \in Nat, NEW e \in FecShowings, e.at <= now, FecBehind(u, next, e, now)
    PROVE  FecBehind(u \o Message(c, next, n), (next + 1) % FecIds, e, now)
  <1> DEFINE m == Message(c, next, n)
             w == u \o m
             then == (next + 1) % FecIds
             id == e.m.id
  <1>1. PICK k \in Nat : k = Len(u)
    BY LenProperties
  <1>2. m \in Seq(FecUnits) /\ Len(m) = n + 1
    BY FecMessageIs
  <1>3. /\ w \in Seq(FecUnits) /\ Len(w) = k + (n + 1)
        /\ \A p \in 1..k : w[p] = u[p]
        /\ \A p \in 1..(n + 1) : w[k + p] = m[p]
    <2> HIDE DEF m
    <2> QED BY <1>1, <1>2
  <1>31. \A q \in 1..(n + 1) : m[q].call = c /\ m[q].id = next /\ m[q].i = q
    BY FecMessageIs
  <1>4. PICK t \in Nat : t = FecSentSince(now, e.at) + FecFrame
    <2>1. e.at \in Nat
      BY DEF FecShowings
    <2>2. FecSentSince(now, e.at) \in Nat
      BY <2>1, FecSentSinceIs
    <2> QED BY <2>2, FecConstants
  <1>5. id \in FecIdsUsed
    BY DEF FecShowings, FecMessages
  <1> HIDE DEF id, w, m, then
  <1>6. k + t >= 2 * FecSince(next, id)
    BY <1>1, <1>4, FecConstants DEF FecBehind, FecShowings, id, FecSentSince
  <1>7. \A p \in 1..k : (u[p].i = 1 /\ u[p].id = id) => (p - 1) + t >= 2 * FecIds
    BY <1>1, <1>4, FecConstants DEF FecBehind, FecShowings, id, FecSentSince
  <1>8. /\ FecSince(next, id) \in Nat /\ FecSince(then, id) \in Nat
        /\ id = next => FecSince(next, id) = FecIds /\ FecSince(then, id) = 1
        /\ id # next => FecSince(then, id) = FecSince(next, id) + 1
    BY <1>5, FecSinceType DEF then
  <1>9. (k + (n + 1)) + t >= 2 * FecSince(then, id)
    BY <1>6, <1>8
  <1>10. ASSUME NEW p \in 1..(k + (n + 1)), w[p].i = 1, w[p].id = id
         PROVE  (p - 1) + t >= 2 * FecIds
    <2>1. CASE p \in 1..k
      BY <1>3, <1>7, <1>10, <2>1
    <2>2. CASE p \notin 1..k
      <3>1. PICK o \in 1..(n + 1) : p = k + o
        <4>1. p - k \in 1..(n + 1) /\ p = k + (p - k)
          BY <2>2
        <4> QED BY <4>1
      <3>2. w[p].id = next /\ w[p].i = o
        BY <1>3, <1>31, <3>1
      <3>3. id = next /\ p = k + 1
        BY <1>10, <3>1, <3>2
      <3> QED BY <1>6, <1>8, <3>3
    <2> QED BY <2>1, <2>2
  <1>11. \A p \in 1..(k + (n + 1)) : (w[p].i = 1 /\ w[p].id = id) =>
            (p - 1) + FecSentSince(now, e.at) + FecFrame >= 2 * FecIds
    BY <1>4, <1>10, FecConstants DEF FecSentSince, FecShowings
  <1>12. (k + (n + 1)) + FecSentSince(now, e.at) + FecFrame >= 2 * FecSince(then, id)
    BY <1>4, <1>9, FecConstants DEF FecSentSince, FecShowings
  <1> QED BY <1>3, <1>11, <1>12 DEF FecBehind, id, w, m, then

\* What a station is doing with a frame, apart from its queue.
FecSameFrame(s, t) ==
    t.frame = s.frame /\ t.copies = s.copies /\ t.at = s.at /\ t.began = s.began
    /\ t.reached = s.reached

LEMMA FecEncodeKeeps ==
    ASSUME NEW c \in Calls, NEW s \in FecStations, NEW n \in Nat \ {0}, NEW now \in Nat,
           NEW shown \in Seq(FecShowings), \A i \in 1..Len(shown) : shown[i].at < now,
           FecQueued(c, s, shown, now)
    PROVE  /\ Encode(c, s, n) \in FecStations
           /\ FecQueued(c, Encode(c, s, n), shown, now)
           /\ FecSameFrame(s, Encode(c, s, n))
  <1> DEFINE t == Encode(c, s, n)
             m == Message(c, s.next, n)
  <1>1. /\ s.next \in FecIdsUsed /\ s.queue \in Seq(FecUnits) /\ s.frame \in Seq(FecUnits)
        /\ m \in Seq(FecUnits) /\ (s.next + 1) % FecIds \in FecIdsUsed
    BY FecMessageIs, FecSinceType DEF FecStations
  <1>2. /\ t.next = (s.next + 1) % FecIds /\ t.queue = s.queue \o m
        /\ FecSameFrame(s, t)
    BY DEF Encode, FecStations, FecSameFrame
  <1>3. t \in FecStations
    <2>1. s.queue \o m \in Seq(FecUnits)
      <3> HIDE DEF m
      <3> QED BY <1>1
    <2>2. t = [s EXCEPT !.queue = s.queue \o m, !.next = (s.next + 1) % FecIds]
      BY DEF Encode, FecStations
    <2> HIDE DEF t, m
    <2> QED BY <1>1, <2>1, <2>2 DEF FecStations
  <1> HIDE DEF t, m
  <1>4. t.frame \o t.queue = (s.frame \o s.queue) \o m
    <2>1. s.frame \o (s.queue \o m) = (s.frame \o s.queue) \o m
      <3>1. s.frame \in Seq(FecUnits) /\ s.queue \in Seq(FecUnits) /\ m \in Seq(FecUnits)
        BY <1>1
      <3> QED BY ONLY <3>1, FecCat
    <2> QED BY <1>2, <2>1 DEF FecSameFrame
  <1>5. FecLaid(c, t.frame \o t.queue, t.next)
    BY <1>1, <1>2, <1>4, FecLaidMore DEF FecQueued, m
  <1>6. ASSUME NEW i \in 1..Len(shown), shown[i].m.call = c
        PROVE  FecBehind(t.queue, t.next, shown[i], now)
    <2>1. shown[i] \in FecShowings /\ shown[i].at <= now /\ FecBehind(s.queue, s.next, shown[i], now)
      <3>1. shown[i] \in FecShowings
        BY LenProperties
      <3> QED BY <1>6, <3>1 DEF FecQueued, FecShowings
    <2> QED BY <1>1, <1>2, <2>1, FecBehindMore DEF m
  <1> QED BY <1>2, <1>3, <1>5, <1>6 DEF FecQueued, t

(* A line. *)

LEMMA FecLargest ==
    ASSUME NEW n \in Nat, NEW S \in SUBSET (1..n), S # {}
    PROVE  Max(S) \in S
  <1> DEFINE T == {k \in 0..n : n - k \in S}
  <1>1. T \in SUBSET Nat /\ T # {}
    <2>1. PICK x \in 1..n : x \in S
      OBVIOUS
    <2>2. n - x \in 0..n /\ n - (n - x) = x
      OBVIOUS
    <2>3. n - x \in T
      BY <2>1, <2>2
    <2> HIDE DEF T
    <2>4. T # {}
      BY <2>3
    <2> QED BY <2>4 DEF T
  <1>2. PICK k \in T : \A j \in T : k <= j
    <2> HIDE DEF T
    <2> QED BY <1>1, LeastOf
  <1>3. n - k \in S /\ k \in 0..n
    BY <1>2
  <1>4. ASSUME NEW y \in S PROVE n - k >= y
    <2>1. y \in 1..n /\ n - y \in 0..n /\ n - (n - y) = y
      OBVIOUS
    <2>2. k <= n - y
      BY <1>2, <2>1
    <2> QED BY <1>3, <2>1, <2>2
  <1>5. \E x \in S : \A y \in S : x >= y
    BY <1>3, <1>4
  <1> QED BY <1>5 DEF Max

LEMMA FecTakes ==
    ASSUME NEW line, Len(line) \in Nat, NEW at \in Nat, at < Len(line)
    PROVE  TakeNext(line, at) \in 1..(Len(line) - at)
  <1>1. TextCapacity \in Nat \ {0}
    BY FecConstants DEF TextCapacity
  <1>2. SpaceAt(line, at) \in 0..TextCapacity
    <2> DEFINE spaces == {n \in 1..TextCapacity : line[at + n + 1] = " "}
    <2>1. spaces \in SUBSET (1..TextCapacity)
      OBVIOUS
    <2>2. SpaceAt(line, at) = IF spaces = {} THEN 0 ELSE Max(spaces)
      BY DEF SpaceAt
    <2> HIDE DEF spaces
    <2>3. CASE spaces = {}
      BY <1>1, <2>2, <2>3
    <2>4. CASE spaces # {}
      <3>1. Max(spaces) \in spaces
        BY <1>1, <2>1, <2>4, FecLargest
      <3>2. Max(spaces) \in 1..TextCapacity
        BY <2>1, <3>1
      <3> QED BY <1>1, <2>2, <2>4, <3>2
    <2> QED BY <2>3, <2>4
  <1>3. TextCapacity \div 4 \in Nat
    BY <1>1
  <1> QED BY <1>1, <1>2, <1>3 DEF TakeNext

LEMMA FecSkips ==
    ASSUME NEW line, Len(line) \in Nat, NEW at \in 0..Len(line)
    PROVE  SkipSpaces(line, at) \in at..Len(line)
  <1> DEFINE S == {n \in at..Len(line) : n = Len(line) \/ line[n + 1] # " "}
  <1>1. S \in SUBSET Nat /\ S # {}
    <2>1. Len(line) \in at..Len(line)
      OBVIOUS
    <2>2. Len(line) \in S
      BY <2>1
    <2>3. at..Len(line) \in SUBSET Nat
      OBVIOUS
    <2> QED BY <2>2, <2>3, Zenon
  <1>2. \E x \in S : \A y \in S : x <= y
    <2> HIDE DEF S
    <2> QED BY <1>1, LeastOf
  <1>3. Min(S) \in S
    BY <1>2 DEF Min
  <1> QED BY <1>3 DEF SkipSpaces

LEMMA FecLineKeeps ==
    ASSUME NEW c \in Calls, NEW s \in FecStations, NEW line \in FecLines, NEW now \in Nat,
           NEW shown \in Seq(FecShowings), \A i \in 1..Len(shown) : shown[i].at < now,
           FecQueued(c, s, shown, now)
    PROVE  /\ SendLine(c, line, s) \in FecStations
           /\ FecQueued(c, SendLine(c, line, s), shown, now)
           /\ FecSameFrame(s, SendLine(c, line, s))
  <1>1. PICK n \in Nat : n = Len(line)
    <2>1. line \in Seq({"x", " "})
      BY ONLY FecAssumption, line \in FecLines, Zenon DEF FecAssumption
    <2> QED BY <2>1, LenProperties
  <1> DEFINE x0 == [sent |-> 0, s |-> s]
             Solves(h) == h = [k \in 0..n |-> IF k = 0 THEN x0 ELSE SendNext(c, line, h[k - 1])]
             round == CHOOSE h : Solves(h)
             Good(t) == FecQueued(c, t, shown, now) /\ FecSameFrame(s, t)
             D == {x \in [sent : 0..n, s : FecStations] : Good(x.s)}
             step == [q \in (1..n) \X D |-> SendNext(c, line, q[2])]
  <1>2. SendLine(c, line, s) = round[n].s
    BY <1>1 DEF SendLine
  <1>3. x0 \in D
    BY DEF FecSameFrame
  <1>4. ASSUME NEW x \in D PROVE SendNext(c, line, x) \in D
    <2>1. x \in [sent : 0..n, s : FecStations] /\ Good(x.s)
      OBVIOUS
    <2> HIDE DEF D, Good
    <2>2. x.sent \in 0..n /\ x.s \in FecStations
      BY <2>1
    <2>3. CASE x.sent = n
      BY <1>1, <2>1, <2>3 DEF SendNext, D
    <2>4. CASE x.sent # n
      <3>1. PICK t \in 1..(n - x.sent) : t = TakeNext(line, x.sent)
        <4>1. x.sent \in Nat /\ x.sent < n
          BY <2>2, <2>4
        <4> QED BY <1>1, <4>1, FecTakes
      <3>2. PICK p \in 0..n : p = SkipSpaces(line, x.sent + t)
        <4>1. x.sent + t \in 0..n
          BY <2>2, <3>1
        <4>2. SkipSpaces(line, x.sent + t) \in (x.sent + t)..n
          BY <1>1, <4>1, FecSkips
        <4> QED BY <4>1, <4>2
      <3>3. SendNext(c, line, x) = [sent |-> p, s |-> Encode(c, x.s, t)]
        BY <1>1, <2>4, <3>1, <3>2 DEF SendNext
      <3>4. t \in Nat \ {0}
        BY <2>2
      <3>5. Encode(c, x.s, t) \in FecStations /\ Good(Encode(c, x.s, t))
        <4>1. FecQueued(c, x.s, shown, now) /\ FecSameFrame(s, x.s)
          BY <2>1 DEF Good
        <4>2. /\ Encode(c, x.s, t) \in FecStations
              /\ FecQueued(c, Encode(c, x.s, t), shown, now)
              /\ FecSameFrame(x.s, Encode(c, x.s, t))
          BY <2>2, <3>4, <4>1, FecEncodeKeeps
        <4> QED BY <4>1, <4>2 DEF Good, FecSameFrame
      <3> HIDE DEF x0
      <3> QED BY <3>3, <3>5 DEF D
    <2> QED BY <2>3, <2>4
  <1>5. step \in [(1..n) \X D -> D]
    BY <1>4
  <1>6. \A i \in 1..n, x \in D : step[<<i, x>>] = SendNext(c, line, x)
    OBVIOUS
  <1>7. \A x \in D : x.s \in FecStations /\ Good(x.s)
    <2> HIDE DEF Good
    <2> QED OBVIOUS
  <1> HIDE DEF D, step, x0
  <1>9. PICK g : StepsFrom(g, step, n, D, x0)
    <2>1. x0 \in D /\ StepsIn(step, n, D)
      BY <1>3, <1>5 DEF StepsIn
    <2> QED BY <2>1, StepsExist
  <1>10. /\ g \in [0..n -> D]
         /\ g[0] = x0
         /\ \A i \in 1..n : g[i] = step[<<i, g[i - 1]>>]
    BY <1>9 DEF StepsFrom
  <1>11. Solves(g)
    <2>1. ASSUME NEW i \in 0..n
          PROVE  g[i] = IF i = 0 THEN x0 ELSE SendNext(c, line, g[i - 1])
      <3>1. CASE i = 0
        BY <1>10, <3>1
      <3>2. CASE i # 0
        <4>1. i \in 1..n /\ i - 1 \in 0..n
          BY <3>2
        <4>2. g[i] = step[<<i, g[i - 1]>>] /\ g[i - 1] \in D
          BY <1>10, <4>1
        <4>3. step[<<i, g[i - 1]>>] = SendNext(c, line, g[i - 1])
          BY <1>6, <4>1, <4>2
        <4> QED BY <3>2, <4>2, <4>3
      <3> QED BY <3>1, <3>2
    <2> QED BY <1>10, <2>1
  <1>12. Solves(round)
    <2> HIDE DEF Solves
    <2> QED BY <1>11
  <1> HIDE DEF round
  <1>13. /\ round[0] = x0
         /\ \A i \in 1..n : round[i] = SendNext(c, line, round[i - 1])
    BY <1>12
  <1> DEFINE S == {i \in 0..n : round[i] \in D}
  <1>14. 0 \in S
    BY <1>3, <1>13
  <1>15. ASSUME NEW i \in 0..n, i \in S, i < n PROVE i + 1 \in S
    <2>1. i + 1 \in 1..n /\ (i + 1) - 1 = i
      BY <1>15
    <2>2. round[i + 1] = SendNext(c, line, round[i])
      BY <1>13, <2>1
    <2> QED BY <1>4, <1>15, <2>1, <2>2
  <1>16. \A i \in 0..n : i \in S
    <2> HIDE DEF S
    <2> QED BY <1>14, <1>15, UptoClosed
  <1>17. round[n] \in D
    BY <1>16
  <1>18. round[n].s \in FecStations /\ Good(round[n].s)
    <2> HIDE DEF Good
    <2> QED BY <1>7, <1>17
  <1> QED BY <1>2, <1>18

(* The table. *)

LEMMA FecOldestIs ==
    ASSUME heard.seen \subseteq FecEntries, Live # {}
    PROVE  Oldest \in Live /\ \A f \in Live : Oldest.at <= f.at
  <1> DEFINE T == {e.at : e \in Live}
  <1>1. \A e \in Live : e.at \in Nat
    BY DEF Live, FecEntries
  <1>2. T \in SUBSET Nat /\ T # {}
    BY <1>1
  <1>3. \E x \in T : \A y \in T : x <= y
    <2> HIDE DEF T
    <2> QED BY <1>2, LeastOf
  <1>4. \E e \in Live : \A f \in Live : e.at <= f.at
    BY <1>3
  <1> QED BY <1>4 DEF Oldest

\* Entries newer than one, and what a new entry makes of their number.
LEMMA FecNewerIs ==
    ASSUME NEW seen, IsFiniteSet(seen), NEW kept, NEW new, NEW at, kept \subseteq seen
    PROVE  /\ IsFiniteSet(FecNewer(seen, at)) /\ Cardinality(FecNewer(seen, at)) \in Nat
           /\ Cardinality(FecNewer(kept \cup {new}, at)) \in Nat
           /\ Cardinality(FecNewer(kept \cup {new}, at)) <= Cardinality(FecNewer(seen, at)) + 1
  <1>1. FecNewer(seen, at) \subseteq seen
    BY DEF FecNewer
  <1>2. IsFiniteSet(FecNewer(seen, at)) /\ Cardinality(FecNewer(seen, at)) \in Nat
    BY <1>1, FS_Subset, FS_CardinalityType
  <1>3. FecNewer(kept \cup {new}, at) \subseteq FecNewer(seen, at) \cup {new}
    BY DEF FecNewer
  <1>4. /\ IsFiniteSet(FecNewer(seen, at) \cup {new})
        /\ Cardinality(FecNewer(seen, at) \cup {new}) <= Cardinality(FecNewer(seen, at)) + 1
        /\ Cardinality(FecNewer(seen, at) \cup {new}) \in Nat
    <2>1. /\ IsFiniteSet(FecNewer(seen, at) \cup {new})
          /\ Cardinality(FecNewer(seen, at) \cup {new}) =
                IF new \in FecNewer(seen, at) THEN Cardinality(FecNewer(seen, at))
                ELSE Cardinality(FecNewer(seen, at)) + 1
      BY <1>2, FS_AddElement
    <2> QED BY <1>2, <2>1, FS_CardinalityType
  <1>5. /\ IsFiniteSet(FecNewer(kept \cup {new}, at))
        /\ Cardinality(FecNewer(kept \cup {new}, at)) <= Cardinality(FecNewer(seen, at) \cup {new})
    BY <1>3, <1>4, FS_Subset
  <1>6. Cardinality(FecNewer(kept \cup {new}, at)) \in Nat
    BY <1>5, FS_CardinalityType
  <1> QED BY <1>2, <1>4, <1>5, <1>6

FecEntry(m, at) == [call |-> m.call, id |-> m.id, at |-> at]
FecShowing(m, at) == [m |-> m, at |-> at]

\* An entry that few others are newer than stays in the table.
LEMMA FecRemembers ==
    ASSUME fecNow \in Nat, heard.shown \in Seq(FecShowings),
           FecTable(heard.seen, heard.shown, fecNow), NEW m \in FecMessages
    PROVE  /\ FecTable(Remember(m), Append(heard.shown, FecShowing(m, fecNow)), fecNow + 1)
           /\ FecEntry(m, fecNow) \in Remember(m)
           /\ Cardinality(FecNewer(Remember(m), fecNow)) = 0
           /\ \A e \in heard.seen :
                 (~(fecNow - e.at > FecWindow) /\
                  Cardinality(FecNewer(heard.seen, e.at)) < FecSeen - 1) =>
                     /\ e \in Remember(m)
                     /\ Cardinality(FecNewer(Remember(m), e.at))
                          <= Cardinality(FecNewer(heard.seen, e.at)) + 1
  <1> DEFINE seen == heard.seen
             shown == heard.shown
             new == FecEntry(m, fecNow)
             kept == IF Cardinality(Live) < FecSeen THEN Live ELSE Live \ {Oldest}
             more == Append(shown, FecShowing(m, fecNow))
  <1>1. Remember(m) = kept \cup {new}
    BY DEF Remember, FecEntry
  <1>2. Live \subseteq seen /\ kept \subseteq Live
    BY DEF Live
  <1>3. /\ IsFiniteSet(seen) /\ seen \subseteq FecEntries
        /\ \A e \in seen : \E i \in 1..Len(shown) :
              shown[i] = [m |-> [call |-> e.call, id |-> e.id], at |-> e.at]
        /\ \A e, f \in seen : e.at = f.at => e = f
        /\ \A i \in 1..Len(shown) : shown[i].at < fecNow
    BY DEF FecTable
  <1>4. PICK l \in Nat : l = Len(shown)
    BY LenProperties
  <1>5. /\ Len(more) = l + 1
        /\ \A i \in 1..l : more[i] = shown[i]
        /\ more[l + 1] = FecShowing(m, fecNow)
    BY <1>4 DEF FecShowing
  <1>6. /\ new \in FecEntries /\ new.call = m.call /\ new.id = m.id /\ new.at = fecNow
        /\ FecShowing(m, fecNow) = [m |-> [call |-> new.call, id |-> new.id], at |-> new.at]
    BY DEF FecEntry, FecEntries, FecMessages, FecShowing
  <1>7. \A e \in seen : e.at \in Nat /\ e.at < fecNow
    <2>1. ASSUME NEW e \in seen PROVE e.at \in Nat /\ e.at < fecNow
      <3>1. e \in FecEntries
        BY <1>3
      <3>2. PICK i \in 1..l : shown[i] = [m |-> [call |-> e.call, id |-> e.id], at |-> e.at]
        BY <1>3, <1>4
      <3>3. shown[i].at < fecNow /\ shown[i].at = e.at
        BY <1>3, <1>4, <3>2
      <3> QED BY <3>1, <3>3 DEF FecEntries
    <2> QED BY <2>1
  <1> HIDE DEF new, more, kept, seen
  <1>8. IsFiniteSet(Live) /\ IsFiniteSet(kept)
    BY <1>2, <1>3, FS_Subset
  <1>9. FecTable(Remember(m), more, fecNow + 1)
    <2>1. IsFiniteSet(kept \cup {new}) /\ kept \cup {new} \subseteq FecEntries
      BY <1>2, <1>3, <1>6, <1>8, FS_AddElement
    <2>2. ASSUME NEW e \in kept \cup {new}
          PROVE  \E i \in 1..(l + 1) : more[i] = [m |-> [call |-> e.call, id |-> e.id], at |-> e.at]
      <3>1. CASE e = new
        BY <1>5, <1>6, <3>1
      <3>2. CASE e \in seen
        <4>1. PICK i \in 1..l : shown[i] = [m |-> [call |-> e.call, id |-> e.id], at |-> e.at]
          BY <1>3, <1>4, <3>2
        <4> QED BY <1>5, <4>1
      <3> QED BY <1>2, <3>1, <3>2
    <2>3. ASSUME NEW e \in kept \cup {new}, NEW f \in kept \cup {new}, e.at = f.at
          PROVE  e = f
      <3>1. e \in seen \/ e = new
        BY <1>2
      <3>2. f \in seen \/ f = new
        BY <1>2
      <3> QED BY <1>3, <1>6, <1>7, <2>3, <3>1, <3>2
    <2>4. ASSUME NEW i \in 1..(l + 1) PROVE more[i].at < fecNow + 1
      <3>1. CASE i = l + 1
        BY <1>5, <3>1 DEF FecShowing
      <3>2. CASE i \in 1..l
        <4>1. shown[i] \in FecShowings
          BY <1>4, <3>2
        <4>2. more[i] = shown[i] /\ shown[i].at < fecNow /\ shown[i].at \in Nat
          BY <1>3, <1>4, <1>5, <3>2, <4>1 DEF FecShowings
        <4> QED BY <4>2
      <3> QED BY <3>1, <3>2
    <2> QED BY <1>1, <1>5, <2>1, <2>2, <2>3, <2>4 DEF FecTable
  <1>10. FecNewer(Remember(m), fecNow) = {}
    <2>1. \A e \in Remember(m) : ~(e.at > fecNow)
      BY <1>1, <1>2, <1>6, <1>7
    <2> QED BY <2>1 DEF FecNewer
  <1>11. ASSUME NEW e \in seen, ~(fecNow - e.at > FecWindow),
                Cardinality(FecNewer(seen, e.at)) < FecSeen - 1
         PROVE  /\ e \in Remember(m)
                /\ Cardinality(FecNewer(Remember(m), e.at)) <= Cardinality(FecNewer(seen, e.at)) + 1
    <2>1. e \in Live
      <3>1. fecNow - e.at <= FecWindow
        BY <1>7, <1>11, FecConstants
      <3> QED BY <3>1 DEF Live, seen
    <2>2. e \in kept
      <3>1. SUFFICES ASSUME ~(Cardinality(Live) < FecSeen), e = Oldest PROVE FALSE
        BY <2>1 DEF kept
      <3>2. \A f \in Live : e.at <= f.at
        BY <1>3, <2>1, <3>1, FecOldestIs DEF seen
      <3>3. Live \ {e} \subseteq FecNewer(seen, e.at)
        <4>1. ASSUME NEW f \in Live, f # e PROVE f \in FecNewer(seen, e.at)
          <5>1. f \in seen /\ e.at <= f.at /\ f.at # e.at
            BY <1>2, <1>3, <3>2, <4>1
          <5>2. f.at > e.at
            BY <1>7, <5>1
          <5> QED BY <5>1, <5>2 DEF FecNewer
        <4> QED BY <4>1
      <3>4. IsFiniteSet(FecNewer(seen, e.at)) /\ Cardinality(FecNewer(seen, e.at)) \in Nat
        BY <1>3, FecNewerIs
      <3>5. Cardinality(Live \ {e}) <= Cardinality(FecNewer(seen, e.at))
        BY <3>3, <3>4, FS_Subset
      <3>6. Cardinality(Live \ {e}) = Cardinality(Live) - 1 /\ Cardinality(Live) \in Nat
        BY <1>8, <2>1, FS_RemoveElement, FS_CardinalityType
      <3> QED BY <1>11, <3>1, <3>4, <3>5, <3>6, FecConstants
    <2>3. kept \subseteq seen
      BY <1>2
    <2> QED BY <1>1, <1>3, <2>2, <2>3, FecNewerIs
  <1>12. Cardinality(FecNewer(Remember(m), fecNow)) = 0
    BY <1>10, FS_EmptySet
  <1> QED BY <1>1, <1>9, <1>11, <1>12 DEF new, more, seen

(* One transmission: a frame is at hand, and sent once more. *)

FecHead(c, x) == [call |-> c, id |-> x.frame[1].id]

\* Nothing but the head is shown, and the table has it.
FecAdds(c, x, shown, shown2, now) ==
    \A i \in 1..Len(shown2) :
       \/ \E j \in 1..Len(shown) : shown2[i] = shown[j]
       \/ x.frame[1].i = 1 /\ shown2[i] = FecShowing(FecHead(c, x), now)
FecHolds(c, x, seen2, shown2, now) ==
    x.frame[1].i = 1 =>
       \A i \in 1..Len(shown2) :
          (shown2[i].m = FecHead(c, x) /\ shown2[i].at >= x.began) =>
             \/ now - shown2[i].at > FecWindow
             \/ /\ FecEntry(shown2[i].m, shown2[i].at) \in seen2
                /\ Cardinality(FecNewer(seen2, shown2[i].at)) <= FecSlack(x.copies - 1, 0)

FecSent(x, now, reached) ==
    [x EXCEPT !.frame = IF x.copies = 1 THEN <<>> ELSE x.frame,
              !.copies = x.copies - 1, !.at = now, !.reached = reached]


\* What was shown of the frame's head, before this transmission.
FecFresh(x, e, seen, now) ==
    /\ e.at < x.began => x.began - e.at > FecWindow
    /\ e.at >= x.began =>
         \/ now - e.at > FecWindow
         \/ /\ FecEntry(e.m, e.at) \in seen
            /\ Cardinality(FecNewer(seen, e.at)) <= FecSlack(x.copies - 1, 0)

FecReady(c, x, seen, shown, now) ==
    /\ x \in [next : FecIdsUsed, queue : Seq(FecUnits), frame : Seq(FecUnits),
              copies : 1..FecCopies, at : Nat, began : Nat,
              reached : SUBSET [id : FecIdsUsed, at : Nat]]
    /\ Len(x.frame) \in 1..FecFrame
    /\ x.began <= now
    /\ FecLaid(c, x.frame \o x.queue, x.next)
    /\ \A i \in 1..Len(shown) :
          shown[i].m.call = c => FecBehind(x.queue, x.next, shown[i], now + 1)
    /\ x.frame[1].i = 1 =>
          \A i \in 1..Len(shown) : shown[i].m = FecHead(c, x) => FecFresh(x, shown[i], seen, now)

LEMMA FecBehindLater ==
    ASSUME NEW u, NEW next, NEW e \in FecShowings, NEW now \in Nat, e.at <= now,
           u \in Seq(FecUnits), next \in FecIdsUsed, FecBehind(u, next, e, now)
    PROVE  FecBehind(u, next, e, now + 1)
  <1>1. e.at \in Nat /\ e.m.id \in FecIdsUsed
    BY DEF FecShowings, FecMessages
  <1>2. PICK t \in Nat : t = FecSentSince(now, e.at) /\ FecSentSince(now + 1, e.at) = t + FecFrame
    BY <1>1, FecSentSinceIs
  <1>3. PICK k \in Nat : k = Len(u)
    BY LenProperties
  <1>4. PICK f \in Nat : f = FecFrame
    BY FecConstants
  <1>5. PICK o \in Nat : o = FecSince(next, e.m.id)
    BY <1>1, FecSinceType
  <1>6. FecIds \in Nat
    BY FecConstants
  <1>7. k + t + f >= 2 * o
    BY <1>2, <1>3, <1>4, <1>5 DEF FecBehind
  <1>8. \A p \in 1..k : (u[p].i = 1 /\ u[p].id = e.m.id) => (p - 1) + t + f >= 2 * FecIds
    BY <1>2, <1>3, <1>4 DEF FecBehind
  <1>9. k + (t + f) + f >= 2 * o
    BY <1>7
  <1>10. \A p \in 1..k : (u[p].i = 1 /\ u[p].id = e.m.id) => (p - 1) + (t + f) + f >= 2 * FecIds
    <2> SUFFICES ASSUME NEW p \in 1..k, u[p].i = 1, u[p].id = e.m.id
                 PROVE  (p - 1) + (t + f) + f >= 2 * FecIds
      OBVIOUS
    <2>1. p \in Nat /\ (p - 1) + t + f >= 2 * FecIds
      BY <1>8
    <2> QED BY <1>6, <2>1
  <1> QED BY <1>2, <1>3, <1>4, <1>5, <1>9, <1>10 DEF FecBehind

LEMMA FecCutIs ==
    ASSUME NEW q \in Seq(FecUnits), q # <<>>
    PROVE  LET n == CutAt(q)
               f == SubSeq(q, 1, n)
               r == SubSeq(q, n + 1, Len(q))
           IN  /\ n \in 1..FecFrame /\ n <= Len(q)
               /\ f \in Seq(FecUnits) /\ r \in Seq(FecUnits) /\ f \o r = q
               /\ Len(f) = n /\ Len(r) = Len(q) - n
               /\ f[1] = q[1]
               /\ \A p \in 1..Len(r) : r[p] = q[n + p]
  <1>1. PICK l \in Nat \ {0} : l = Len(q)
    BY EmptySeq, LenProperties
  <1>2. PICK n \in Nat : n = CutAt(q) /\ n <= l /\ n <= FecFrame /\ n # 0
    <2>1. \E x \in {l, FecFrame} : \A y \in {l, FecFrame} : x <= y
      BY FecConstants
    <2>2. Min({l, FecFrame}) \in {l, FecFrame} /\ \A y \in {l, FecFrame} : Min({l, FecFrame}) <= y
      BY <2>1 DEF Min
    <2> QED BY <1>1, <2>2, FecConstants DEF CutAt
  <1> DEFINE f == SubSeq(q, 1, n)
             r == SubSeq(q, n + 1, Len(q))
  <1>3. f \in Seq(FecUnits) /\ Len(f) = n /\ \A p \in 1..n : f[p] = q[p]
    BY <1>1, <1>2
  <1>4. r \in Seq(FecUnits) /\ Len(r) = l - n /\ \A p \in 1..(l - n) : r[p] = q[n + p]
    BY <1>1, <1>2
  <1> HIDE DEF f, r
  <1>5. f \o r = q
    <2>1. f \o r \in Seq(FecUnits) /\ Len(f \o r) = l
      <3>1. f \o r \in Seq(FecUnits) /\ Len(f \o r) = Len(f) + Len(r)
        BY <1>3, <1>4, ConcatProperties
      <3> QED BY <1>2, <1>3, <1>4, <3>1
    <2>2. ASSUME NEW p \in 1..l PROVE (f \o r)[p] = q[p]
      <3>1. CASE p \in 1..n
        BY <1>2, <1>3, <1>4, <3>1
      <3>2. CASE p \notin 1..n
        <4>1. p - n \in 1..(l - n) /\ n + (p - n) = p
          BY <1>2, <3>2
        <4>2. (f \o r)[p] = r[p - n]
          BY <1>2, <1>3, <1>4, <4>1
        <4> QED BY <1>4, <4>1, <4>2
      <3> QED BY <3>1, <3>2
    <2> QED BY <1>1, <2>1, <2>2, SeqEqual
  <1>6. f[1] = q[1]
    BY <1>2, <1>3
  <1>7. /\ n \in 1..FecFrame /\ n <= Len(q)
        /\ f \in Seq(FecUnits) /\ r \in Seq(FecUnits) /\ f \o r = q
        /\ Len(f) = n /\ Len(r) = Len(q) - n
        /\ f[1] = q[1]
        /\ \A p \in 1..Len(r) : r[p] = q[n + p]
    BY <1>1, <1>2, <1>3, <1>4, <1>5, <1>6, FecConstants
  <1> QED BY <1>2, <1>7, Zenon DEF f, r

LEMMA FecShownTyped ==
    ASSUME NEW seen, NEW shown, NEW now, FecListenerOk(seen, shown, now),
           NEW i \in 1..Len(shown)
    PROVE  /\ shown[i] \in FecShowings /\ shown[i].at \in Nat /\ shown[i].at < now /\ now \in Nat
           /\ shown[i].m \in FecMessages /\ shown[i].m.id \in FecIdsUsed
  <1>1. shown[i] \in FecShowings
    BY LenProperties DEF FecListenerOk
  <1>2. shown[i].at \in Nat /\ shown[i].m \in FecMessages
    BY <1>1 DEF FecShowings
  <1>3. shown[i].m.id \in FecIdsUsed
    BY <1>2 DEF FecMessages
  <1>4. shown[i].at < now /\ now \in Nat
    BY DEF FecListenerOk, FecTable
  <1> QED BY <1>1, <1>2, <1>3, <1>4

LEMMA FecRepeats ==
    ASSUME NEW c \in Calls, NEW seen, NEW shown, NEW now, FecListenerOk(seen, shown, now),
           NEW s, FecStationOk(c, s, seen, shown, now), s.copies # 0
    PROVE  FecReady(c, s, seen, shown, now)
  <1>1. /\ s.copies \in 1..FecCopies /\ s.copies < FecCopies /\ s.copies > 0
        /\ s \in [next : FecIdsUsed, queue : Seq(FecUnits), frame : Seq(FecUnits),
              copies : 1..FecCopies, at : Nat, began : Nat,
              reached : SUBSET [id : FecIdsUsed, at : Nat]]
    <2>1. s \in FecStations
      BY DEF FecStationOk
    <2>2. s.copies \in 1..FecCopies /\ s.copies < FecCopies /\ s.copies > 0
      BY <2>1, FecConstants DEF FecStations
    <2> QED BY <2>1, <2>2 DEF FecStations
  <1>2. now \in Nat /\ s.at \in Nat /\ s.began \in Nat
    BY <1>1 DEF FecListenerOk
  <1>3. /\ Len(s.frame) \in 1..FecFrame
        /\ s.began <= s.at /\ s.at < now /\ now - s.at - 1 <= FecGap
        /\ s.frame[1].i = 1 =>
              \A i \in 1..Len(shown) : shown[i].m = FecHead(c, s) => FecKnown(s, shown[i], seen, now)
    BY <1>1 DEF FecStationOk, FecSending, FecHead
  <1>4. FecLaid(c, s.frame \o s.queue, s.next)
    BY DEF FecStationOk, FecQueued
  <1>5. ASSUME NEW i \in 1..Len(shown), shown[i].m.call = c
        PROVE  FecBehind(s.queue, s.next, shown[i], now + 1)
    <2>1. FecBehind(s.queue, s.next, shown[i], now)
      BY <1>5 DEF FecStationOk, FecQueued
    <2>2. shown[i] \in FecShowings /\ shown[i].at <= now
      BY FecShownTyped
    <2> QED BY <1>1, <1>2, <2>1, <2>2, FecBehindLater
  <1>6. ASSUME NEW i \in 1..Len(shown), FecKnown(s, shown[i], seen, now)
        PROVE  FecFresh(s, shown[i], seen, now)
    <2>1. PICK o \in Nat : o = now - s.at - 1
      BY <1>2, <1>3
    <2>2. FecSlack(s.copies, o) <= FecSlack(s.copies - 1, 0)
      BY <1>1, <1>3, <2>1, FecSlackIs
    <2>3. FecSlack(s.copies, o) \in Nat /\ FecSlack(s.copies - 1, 0) \in Nat
      BY <1>1, <2>1, FecSlackIs
    <2>4. IsFiniteSet(seen)
      BY DEF FecListenerOk, FecTable
    <2>5. Cardinality(FecNewer(seen, shown[i].at)) \in Nat
      BY <2>4, FecNewerIs
    <2>6. Cardinality(FecNewer(seen, shown[i].at)) <= FecSlack(s.copies, o) =>
              Cardinality(FecNewer(seen, shown[i].at)) <= FecSlack(s.copies - 1, 0)
      BY <2>2, <2>3, <2>5
    <2> QED BY <1>6, <2>1, <2>6 DEF FecKnown, FecFresh, FecEntry
  <1>7. s.began <= now
    BY <1>2, <1>3
  <1> QED BY <1>1, <1>3, <1>4, <1>5, <1>6, <1>7 DEF FecReady

LEMMA FecStartsFrame ==
    ASSUME FecRoom, NEW c \in Calls, NEW seen, NEW shown, NEW now, now = fecNow,
           FecListenerOk(seen, shown, now),
           NEW s, FecStationOk(c, s, seen, shown, now), s.copies = 0, s.queue # <<>>
    PROVE  FecReady(c, Loaded(s), seen, shown, now)
  <1> DEFINE q == s.queue
             n == CutAt(q)
             f == SubSeq(q, 1, n)
             r == SubSeq(q, n + 1, Len(q))
             x == Loaded(s)
  <1>1. s \in FecStations /\ s.frame = <<>> /\ now \in Nat
    BY DEF FecStationOk, FecSending, FecListenerOk
  <1>2. /\ q \in Seq(FecUnits) /\ s.next \in FecIdsUsed
        /\ s.reached \in SUBSET [id : FecIdsUsed, at : Nat] /\ s.at \in Nat
    BY <1>1 DEF FecStations
  <1>3. /\ n \in 1..FecFrame /\ n <= Len(q)
        /\ f \in Seq(FecUnits) /\ r \in Seq(FecUnits) /\ f \o r = q
        /\ Len(f) = n /\ Len(r) = Len(q) - n
        /\ f[1] = q[1]
        /\ \A p \in 1..Len(r) : r[p] = q[n + p]
    <2> HIDE DEF q
    <2> QED BY <1>2, FecCutIs DEF q
  <1>4. x = [next |-> s.next, queue |-> r, frame |-> f, copies |-> FecCopies, at |-> s.at,
             began |-> now, reached |-> s.reached]
    <2> HIDE DEF n
    <2> QED BY <1>1 DEF Loaded, FecStations, n
  <1> HIDE DEF x, f, r, n
  <1>5. /\ x.next = s.next /\ x.queue = r /\ x.frame = f /\ x.copies = FecCopies
        /\ x.at = s.at /\ x.began = now /\ x.reached = s.reached
    BY <1>4
  <1>6. x \in [next : FecIdsUsed, queue : Seq(FecUnits), frame : Seq(FecUnits),
              copies : 1..FecCopies, at : Nat, began : Nat,
              reached : SUBSET [id : FecIdsUsed, at : Nat]]
    <2>1. FecCopies \in 1..FecCopies
      BY FecConstants
    <2> QED BY <1>1, <1>2, <1>3, <1>4, <2>1
  <1>7. FecLaid(c, x.frame \o x.queue, x.next)
    <2>1. FecLaid(c, s.frame \o s.queue, s.next)
      BY DEF FecStationOk, FecQueued
    <2>2. s.frame \o s.queue = q
      BY <1>1, <1>2, FecCat
    <2> QED BY <1>3, <1>5, <2>1, <2>2
  <1>8. ASSUME NEW i \in 1..Len(shown), shown[i].m.call = c
        PROVE  /\ FecBehind(r, s.next, shown[i], now + 1)
               /\ (f[1].i = 1 /\ f[1].id = shown[i].m.id) => now - shown[i].at > FecWindow
    <2> DEFINE e == shown[i]
    <2>1. FecBehind(q, s.next, e, now)
      BY <1>8 DEF FecStationOk, FecQueued
    <2>2. e.at \in Nat /\ e.at <= now /\ e.m.id \in FecIdsUsed
      BY FecShownTyped
    <2> HIDE DEF e
    <2>3. PICK t \in Nat : t = FecSentSince(now, e.at) /\ FecSentSince(now + 1, e.at) = t + FecFrame
      BY <1>1, <2>2, FecSentSinceIs
    <2>4. PICK k \in Nat : k = Len(q) /\ n <= k
      BY <1>2, <1>3, LenProperties
    <2>5. PICK ff \in Nat : ff = FecFrame /\ n \in 1..ff
      BY <1>3, FecConstants
    <2>6. PICK o \in Nat : o = FecSince(s.next, e.m.id)
      <3>1. s.next \in FecIdsUsed /\ e.m.id \in FecIdsUsed
        BY <1>2, <2>2
      <3>2. FecSince(s.next, e.m.id) \in 1..FecIds
        BY <3>1, FecSinceType
      <3> QED BY <3>2, FecConstants
    <2>7. FecIds \in Nat
      BY FecConstants
    <2>8. k + t + ff >= 2 * o
      BY <2>1, <2>3, <2>4, <2>5, <2>6 DEF FecBehind
    <2>9. \A p \in 1..k : (q[p].i = 1 /\ q[p].id = e.m.id) => (p - 1) + t + ff >= 2 * FecIds
      BY <2>1, <2>3, <2>4, <2>5 DEF FecBehind
    <2>10. Len(r) = k - n
      BY <1>3, <2>4
    <2>11. (k - n) + (t + ff) + ff >= 2 * o
      BY <2>5, <2>8
    <2>12. ASSUME NEW p \in 1..(k - n), r[p].i = 1, r[p].id = e.m.id
           PROVE  (p - 1) + (t + ff) + ff >= 2 * FecIds
      <3>1. r[p] = q[n + p] /\ n + p \in 1..k
        BY <1>3, <2>4, <2>5, <2>10
      <3>2. ((n + p) - 1) + t + ff >= 2 * FecIds
        BY <2>9, <2>12, <3>1
      <3> QED BY <2>5, <2>7, <3>2
    <2>13. FecBehind(r, s.next, e, now + 1)
      BY <2>3, <2>5, <2>6, <2>10, <2>11, <2>12 DEF FecBehind
    <2>14. ASSUME f[1].i = 1, f[1].id = e.m.id PROVE now - e.at > FecWindow
      <3>1. 1 \in 1..k /\ f[1] = q[1]
        BY <1>3, <2>4, <2>5
      <3>2. (1 - 1) + t + ff >= 2 * FecIds
        BY <2>9, <2>14, <3>1
      <3>3. FecSentSince(now, e.at) + FecFrame >= 2 * FecIds
        BY <2>3, <2>5, <2>7, <3>2
      <3> QED BY <1>1, <2>2, <3>3, FecSentSinceIs
    <2> QED BY <2>13, <2>14 DEF e
  <1>9. ASSUME x.frame[1].i = 1, NEW i \in 1..Len(shown), shown[i].m = FecHead(c, x)
        PROVE  FecFresh(x, shown[i], seen, now)
    <2>1. shown[i].m.call = c /\ shown[i].m.id = f[1].id /\ f[1].i = 1
      BY <1>5, <1>9 DEF FecHead
    <2>2. now - shown[i].at > FecWindow
      BY <1>8, <2>1
    <2>3. shown[i].at < now /\ shown[i].at \in Nat
      BY FecShownTyped
    <2>4. ~(shown[i].at >= x.began)
      BY <1>1, <1>5, <2>3
    <2> QED BY <1>5, <2>2, <2>4 DEF FecFresh
  <1>10. Len(x.frame) \in 1..FecFrame /\ x.began <= now
    BY <1>1, <1>3, <1>5
  <1>11. \A i \in 1..Len(shown) :
            shown[i].m.call = c => FecBehind(x.queue, x.next, shown[i], now + 1)
    BY <1>5, <1>8
  <1> QED BY <1>6, <1>7, <1>9, <1>10, <1>11 DEF FecReady, x

\* After a transmission the station is as it should be, if what was shown by it is
\* the frame's head at most, and that is in the table now.
LEMMA FecSentKeeps ==
    ASSUME NEW c \in Calls, NEW x, NEW seen, NEW shown, NEW now \in Nat,
           FecReady(c, x, seen, shown, now),
           NEW seen2, NEW shown2 \in Seq(FecShowings),
           NEW reached \in SUBSET [id : FecIdsUsed, at : Nat],
           FecAdds(c, x, shown, shown2, now), FecHolds(c, x, seen2, shown2, now),
           FecReaches(c, reached, shown2)
    PROVE  FecStationOk(c, FecSent(x, now, reached), seen2, shown2, now + 1)
  <1> DEFINE y == FecSent(x, now, reached)
  <1>1. /\ x \in [next : FecIdsUsed, queue : Seq(FecUnits), frame : Seq(FecUnits),
                  copies : 1..FecCopies, at : Nat, began : Nat,
                  reached : SUBSET [id : FecIdsUsed, at : Nat]]
        /\ Len(x.frame) \in 1..FecFrame
        /\ x.began <= now
        /\ FecLaid(c, x.frame \o x.queue, x.next)
        /\ \A i \in 1..Len(shown) :
              shown[i].m.call = c => FecBehind(x.queue, x.next, shown[i], now + 1)
        /\ x.frame[1].i = 1 =>
              \A i \in 1..Len(shown) : shown[i].m = FecHead(c, x) => FecFresh(x, shown[i], seen, now)
    BY DEF FecReady
  <1>2. /\ x.next \in FecIdsUsed /\ x.queue \in Seq(FecUnits) /\ x.frame \in Seq(FecUnits)
        /\ x.copies \in 1..FecCopies /\ x.at \in Nat /\ x.began \in Nat
    BY <1>1
  <1>3. y = [next |-> x.next, queue |-> x.queue,
             frame |-> IF x.copies = 1 THEN <<>> ELSE x.frame, copies |-> x.copies - 1,
             at |-> now, began |-> x.began, reached |-> reached]
    <2>1. x \in [next : FecIdsUsed, queue : Seq(FecUnits), frame : Seq(FecUnits),
                  copies : 1..FecCopies, at : Nat, began : Nat,
                  reached : SUBSET [id : FecIdsUsed, at : Nat]]
      BY <1>1
    <2> DEFINE fr == IF x.copies = 1 THEN <<>> ELSE x.frame
               n == x.copies - 1
    <2>2. y = [x EXCEPT !.frame = fr, !.copies = n, !.at = now, !.reached = reached]
      BY DEF FecSent
    <2> HIDE DEF fr, n, y
    <2>3. y = [next |-> x.next, queue |-> x.queue, frame |-> fr, copies |-> n,
               at |-> now, began |-> x.began, reached |-> reached]
      BY <2>1, <2>2
    <2> QED BY <2>3 DEF fr, n, y
  <1> HIDE DEF y
  <1>4. /\ y.next = x.next /\ y.queue = x.queue /\ y.copies = x.copies - 1
        /\ y.frame = (IF x.copies = 1 THEN <<>> ELSE x.frame)
        /\ y.at = now /\ y.began = x.began /\ y.reached = reached
    BY <1>3
  <1>5. y \in FecStations
    <2>1. <<>> \in Seq(FecUnits) /\ x.copies - 1 \in 0..(FecCopies - 1)
      BY <1>2, FecConstants
    <2>2. (IF x.copies = 1 THEN <<>> ELSE x.frame) \in Seq(FecUnits)
      BY <1>2, <2>1
    <2> QED BY <1>2, <1>3, <2>1, <2>2 DEF FecStations
  <1>6. FecLaid(c, y.frame \o y.queue, y.next)
    <2>1. CASE x.copies = 1
      <3>1. y.frame \o y.queue = x.queue
        BY <1>2, <1>4, <2>1, FecCat
      <3>2. FecLaid(c, x.queue, x.next)
        BY <1>1, <1>2, FecLaidRest
      <3> QED BY <1>4, <3>1, <3>2
    <2>2. CASE x.copies # 1
      BY <1>1, <1>4, <2>2
    <2> QED BY <2>1, <2>2
  <1>7. ASSUME x.frame[1].i = 1
        PROVE  FecBehind(x.queue, x.next, FecShowing(FecHead(c, x), now), now + 1)
    <2> DEFINE u == x.frame \o x.queue
               id == x.frame[1].id
               e == FecShowing(FecHead(c, x), now)
    <2>1. PICK k \in Nat : k = Len(x.frame) /\ k \in 1..FecFrame
      BY <1>1, FecConstants
    <2>2. PICK l \in Nat : l = Len(x.queue)
      BY <1>2, LenProperties
    <2>3. PICK ff \in Nat : ff = FecFrame /\ k <= ff
      BY <2>1, FecConstants
    <2>4. /\ Len(u) = k + l /\ u[1] = x.frame[1]
          /\ \A p \in 1..l : u[k + p] = x.queue[p]
      <3> DEFINE a == x.frame
                 b == x.queue
      <3>1. a \in Seq(FecUnits) /\ b \in Seq(FecUnits) /\ k = Len(a) /\ l = Len(b) /\ k \in Nat \ {0}
        BY <1>2, <2>1, <2>2
      <3> HIDE DEF a, b
      <3>2. Len(a \o b) = k + l /\ (a \o b)[1] = a[1] /\ \A p \in 1..l : (a \o b)[k + p] = b[p]
        BY <3>1
      <3> QED BY <3>2 DEF a, b
    <2>5. id \in FecIdsUsed
      <3>1. x.frame[1] \in FecUnits
        BY <1>2, <2>1
      <3> QED BY <3>1 DEF FecUnits
    <2>6. PICK o \in Nat : o = FecSince(x.next, id)
      <3>1. x.next \in FecIdsUsed
        BY <1>2
      <3>2. FecSince(x.next, id) \in 1..FecIds
        BY <2>5, <3>1, FecSinceType
      <3> QED BY <3>2, FecConstants
    <2>7. e.at = now /\ e.m.id = id
      BY DEF FecShowing, FecHead
    <2> HIDE DEF u, e
    <2>7a. /\ \A p \in 1..(k + l) : u[p].i = 1 => 2 * FecSince(x.next, u[p].id) <= (k + l) - p + 1
           /\ \A p, q \in 1..(k + l) :
                (p < q /\ u[p].i = 1 /\ u[q].i = 1 /\ u[p].id = u[q].id) => q - p >= 2 * FecIds
      BY <1>1, <2>4 DEF FecLaid, u
    <2>7b. u[1].i = 1 /\ u[1].id = id
      BY <1>7, <2>4
    <2>7c. 1 \in 1..(k + l) /\ k >= 1
      BY <2>1, FecConstants
    <2>8. 2 * o <= (k + l) - 1 + 1
      <3>1. 2 * FecSince(x.next, u[1].id) <= (k + l) - 1 + 1
        BY <2>7a, <2>7b, <2>7c
      <3> QED BY <2>6, <2>7b, <3>1
    <2>9. FecSentSince(now + 1, now) = ff
      <3>1. (now + 1) - now = 1
        OBVIOUS
      <3> QED BY <2>3, <3>1 DEF FecSentSince
    <2>10. l + ff + ff >= 2 * o
      BY <2>3, <2>8
    <2>11. ASSUME NEW p \in 1..l, x.queue[p].i = 1, x.queue[p].id = id
           PROVE  (p - 1) + ff + ff >= 2 * FecIds
      <3>1. k + p \in 1..(k + l) /\ 1 < k + p
        BY <2>7c
      <3>2. u[k + p].i = 1 /\ u[k + p].id = id
        BY <2>4, <2>11
      <3>3. (k + p) - 1 >= 2 * FecIds
        BY <2>7a, <2>7b, <2>7c, <3>1, <3>2
      <3> QED BY <2>3, <3>3, FecConstants
    <2> QED BY <2>2, <2>3, <2>6, <2>7, <2>9, <2>10, <2>11 DEF FecBehind, e
  <1>8. FecQueued(c, y, shown2, now + 1)
    <2>1. ASSUME NEW i \in 1..Len(shown2), shown2[i].m.call = c
          PROVE  FecBehind(y.queue, y.next, shown2[i], now + 1)
      <3>1. CASE \E j \in 1..Len(shown) : shown2[i] = shown[j]
        BY <1>1, <1>4, <2>1, <3>1
      <3>2. CASE x.frame[1].i = 1 /\ shown2[i] = FecShowing(FecHead(c, x), now)
        BY <1>4, <1>7, <3>2
      <3> QED BY <2>1, <3>1, <3>2 DEF FecAdds
    <2> QED BY <1>6, <2>1 DEF FecQueued
  <1>9. FecSending(c, y, seen2, shown2, now + 1)
    <2>1. y.copies = 0 => y.frame = <<>>
      BY <1>2, <1>4
    <2>2. SUFFICES ASSUME y.copies > 0
                   PROVE  /\ Len(y.frame) \in 1..FecFrame
                          /\ y.began <= y.at /\ y.at < now + 1 /\ (now + 1) - y.at - 1 <= FecGap
                          /\ y.frame[1].i = 1 =>
                               \A i \in 1..Len(shown2) :
                                  shown2[i].m = [call |-> c, id |-> y.frame[1].id] =>
                                      FecKnown(y, shown2[i], seen2, now + 1)
      BY <2>1 DEF FecSending
    <2>3. y.frame = x.frame
      BY <1>2, <1>4, <2>2
    <2>4. y.began <= y.at /\ y.at < now + 1 /\ (now + 1) - y.at - 1 <= FecGap
      BY <1>1, <1>4, FecConstants
    <2>5. ASSUME x.frame[1].i = 1, NEW i \in 1..Len(shown2), shown2[i].m = FecHead(c, x)
          PROVE  FecKnown(y, shown2[i], seen2, now + 1)
      <3>1. PICK at \in Nat : at = shown2[i].at
        <4>1. shown2[i] \in FecShowings
          BY LenProperties
        <4> QED BY <4>1 DEF FecShowings
      <3>2. ASSUME at < x.began PROVE x.began - at > FecWindow
        <4>1. CASE \E j \in 1..Len(shown) : shown2[i] = shown[j]
          BY <1>1, <2>5, <3>1, <3>2, <4>1 DEF FecFresh
        <4>2. CASE shown2[i] = FecShowing(FecHead(c, x), now)
          BY <1>1, <1>2, <3>1, <3>2, <4>2 DEF FecShowing
        <4> QED BY <2>5, <4>1, <4>2 DEF FecAdds
      <3>3. ASSUME at >= x.began
            PROVE  \/ (now + 1) - at > FecWindow
                   \/ /\ FecEntry(shown2[i].m, at) \in seen2
                      /\ Cardinality(FecNewer(seen2, at)) <= FecSlack(y.copies, (now + 1) - y.at - 1)
        <4>1. \/ now - at > FecWindow
              \/ /\ FecEntry(shown2[i].m, at) \in seen2
                 /\ Cardinality(FecNewer(seen2, at)) <= FecSlack(x.copies - 1, 0)
          BY <2>5, <3>1, <3>3 DEF FecHolds
        <4>2. CASE now - at > FecWindow
          BY <4>2, FecConstants
        <4>3. (now + 1) - y.at - 1 = 0
          BY <1>4
        <4> QED BY <1>4, <4>1, <4>2, <4>3
      <3> QED BY <1>4, <3>1, <3>2, <3>3 DEF FecKnown, FecEntry
    <2> QED BY <1>1, <2>3, <2>4, <2>5 DEF FecHead
  <1>10. FecReaches(c, y.reached, shown2)
    BY <1>4
  <1> QED BY <1>5, <1>8, <1>9, <1>10 DEF FecStationOk, y

\* A station that did not transmit.
LEMMA FecOthersKeep ==
    ASSUME NEW d \in Calls, NEW s, NEW seen, NEW shown, NEW now,
           FecListenerOk(seen, shown, now), FecStationOk(d, s, seen, shown, now),
           s.copies > 0 => now - s.at <= FecGap,
           NEW seen2, NEW shown2 \in Seq(FecShowings),
           \A i \in 1..Len(shown) : i \in 1..Len(shown2) /\ shown2[i] = shown[i],
           \A i \in 1..Len(shown2) : i \in 1..Len(shown) \/ shown2[i].m.call # d,
           \A e \in seen :
              (~(now - e.at > FecWindow) /\ Cardinality(FecNewer(seen, e.at)) < FecSeen - 1) =>
                 /\ e \in seen2
                 /\ Cardinality(FecNewer(seen2, e.at)) \in Nat
                 /\ Cardinality(FecNewer(seen2, e.at)) <= Cardinality(FecNewer(seen, e.at)) + 1,
           FecRoom
    PROVE  FecStationOk(d, s, seen2, shown2, now + 1)
  <1>1. s \in FecStations /\ now \in Nat /\ IsFiniteSet(seen) /\ seen \subseteq FecEntries
    BY DEF FecStationOk, FecListenerOk, FecTable
  <1>2. /\ s.next \in FecIdsUsed /\ s.queue \in Seq(FecUnits)
        /\ s.copies \in 0..(FecCopies - 1) /\ s.at \in Nat /\ s.began \in Nat
    BY <1>1 DEF FecStations
  <1>3. FecQueued(d, s, shown2, now + 1)
    <2>1. ASSUME NEW i \in 1..Len(shown2), shown2[i].m.call = d
          PROVE  FecBehind(s.queue, s.next, shown2[i], now + 1)
      <3>1. i \in 1..Len(shown) /\ shown2[i] = shown[i]
        BY <2>1
      <3>2. FecBehind(s.queue, s.next, shown[i], now)
        BY <2>1, <3>1 DEF FecStationOk, FecQueued
      <3>3. shown[i] \in FecShowings /\ shown[i].at <= now
        BY <3>1, FecShownTyped
      <3> QED BY <1>1, <1>2, <3>1, <3>2, <3>3, FecBehindLater
    <2> QED BY <2>1 DEF FecStationOk, FecQueued
  <1>4. FecReaches(d, s.reached, shown2)
    <2>1. ASSUME NEW m \in s.reached
          PROVE  \E i \in 1..Len(shown2) :
                    shown2[i].m = [call |-> d, id |-> m.id] /\ shown2[i].at >= m.at
      <3>1. PICK i \in 1..Len(shown) : shown[i].m = [call |-> d, id |-> m.id] /\ shown[i].at >= m.at
        BY DEF FecStationOk, FecReaches
      <3>2. i \in 1..Len(shown2) /\ shown2[i] = shown[i]
        OBVIOUS
      <3> QED BY <3>1, <3>2
    <2> QED BY <2>1 DEF FecReaches
  <1>5. FecSending(d, s, seen2, shown2, now + 1)
    <2>1. s.copies = 0 => s.frame = <<>>
      BY DEF FecStationOk, FecSending
    <2>2. SUFFICES ASSUME s.copies > 0
                   PROVE  /\ Len(s.frame) \in 1..FecFrame
                          /\ s.began <= s.at /\ s.at < now + 1 /\ (now + 1) - s.at - 1 <= FecGap
                          /\ s.frame[1].i = 1 =>
                               \A i \in 1..Len(shown2) :
                                  shown2[i].m = [call |-> d, id |-> s.frame[1].id] =>
                                      FecKnown(s, shown2[i], seen2, now + 1)
      BY <2>1 DEF FecSending
    <2>3. /\ Len(s.frame) \in 1..FecFrame
          /\ s.began <= s.at /\ s.at < now
          /\ s.frame[1].i = 1 =>
               \A i \in 1..Len(shown) :
                  shown[i].m = [call |-> d, id |-> s.frame[1].id] => FecKnown(s, shown[i], seen, now)
      BY <2>2 DEF FecStationOk, FecSending
    <2>4. s.at < now + 1 /\ (now + 1) - s.at - 1 <= FecGap
      BY <1>1, <1>2, <2>2, <2>3, FecConstants
    <2>5. PICK o \in Nat : o = now - s.at - 1 /\ o < FecGap /\ (now + 1) - s.at - 1 = o + 1
      BY <1>1, <1>2, <2>2, <2>3, FecConstants
    <2>6. /\ FecSlack(s.copies, o) \in Nat
          /\ FecSlack(s.copies, o + 1) = FecSlack(s.copies, o) + 1
          /\ FecSlack(s.copies, o) < FecSeen - 1
      <3>1. s.copies \in 1..FecCopies /\ s.copies < FecCopies
        BY <1>2, <2>2, FecConstants
      <3> QED BY <2>5, <3>1, FecSlackIs
    <2>7. ASSUME s.frame[1].i = 1, NEW i \in 1..Len(shown2),
                 shown2[i].m = [call |-> d, id |-> s.frame[1].id]
          PROVE  FecKnown(s, shown2[i], seen2, now + 1)
      <3>1. i \in 1..Len(shown) /\ shown2[i] = shown[i]
        BY <2>7
      <3>2. FecKnown(s, shown[i], seen, now)
        BY <2>3, <2>7, <3>1
      <3>3. PICK at \in Nat : at = shown[i].at
        BY <3>1, FecShownTyped
      <3> DEFINE e == [call |-> shown[i].m.call, id |-> shown[i].m.id, at |-> at]
      <3>4. e.at = at
        OBVIOUS
      <3>5. /\ at < s.began => s.began - at > FecWindow
            /\ at >= s.began =>
                 \/ now - at > FecWindow
                 \/ e \in seen /\ Cardinality(FecNewer(seen, at)) <= FecSlack(s.copies, o)
        BY <2>5, <3>2, <3>3 DEF FecKnown
      <3> HIDE DEF e
      <3>6. ASSUME at >= s.began, ~(now - at > FecWindow)
            PROVE  e \in seen2 /\ Cardinality(FecNewer(seen2, at)) <= FecSlack(s.copies, o + 1)
        <4>1. e \in seen /\ Cardinality(FecNewer(seen, at)) <= FecSlack(s.copies, o)
          BY <3>5, <3>6
        <4>2. Cardinality(FecNewer(seen, at)) \in Nat
          BY <1>1, FecNewerIs
        <4>3. Cardinality(FecNewer(seen, at)) < FecSeen - 1
          BY <2>6, <4>1, <4>2, FecConstants
        <4>4. /\ e \in seen2
              /\ Cardinality(FecNewer(seen2, at)) \in Nat
              /\ Cardinality(FecNewer(seen2, at)) <= Cardinality(FecNewer(seen, at)) + 1
          BY <3>4, <3>6, <4>1, <4>3
        <4> QED BY <2>6, <4>1, <4>2, <4>4
      <3>7. now - at > FecWindow => (now + 1) - at > FecWindow
        BY <1>1, FecConstants
      <3> QED BY <2>5, <3>1, <3>3, <3>5, <3>6, <3>7 DEF FecKnown, e
    <2> QED BY <2>3, <2>4, <2>7
  <1> QED BY <1>1, <1>3, <1>4, <1>5 DEF FecStationOk

LEMMA FecDecodes ==
    ASSUME NEW c, NEW frame, frame[1].call = c
    PROVE  \/ Decoded(frame) = {}
           \/ frame[1].i = 1 /\ Decoded(frame) = {[call |-> c, id |-> frame[1].id]}
  BY Zenon DEF Decoded

LEMMA FecHears ==
    ASSUME FecTypes, NEW frame, NEW m, Decoded(frame) = {} \/ Decoded(frame) = {m}
    PROVE  /\ (Decoded(frame) = {} \/ ~IsNew(m)) =>
                 Hear(frame) \in {heard, [heard EXCEPT !.raw = @ + 1]}
           /\ (Decoded(frame) = {m} /\ IsNew(m)) =>
                 Hear(frame) = [heard EXCEPT !.seen = Remember(m),
                                             !.shown = Append(@, FecShowing(m, fecNow))]
  <1>1. CASE Decoded(frame) = {}
    <2>1. Hear(frame) = [heard EXCEPT !.raw = @ + 1]
      BY <1>1 DEF Hear
    <2>2. Decoded(frame) # {m}
      BY <1>1
    <2> QED BY <2>1, <2>2
  <1>2. CASE Decoded(frame) = {m}
    <2>1. (CHOOSE o \in Decoded(frame) : TRUE) = m
      BY <1>2
    <2>2. Decoded(frame) # {}
      BY <1>2
    <2>3. Hear(frame) = IF ~IsNew(m) THEN heard
             ELSE [heard EXCEPT !.seen = Remember(m),
                                !.shown = Append(@, [m |-> m, at |-> fecNow])]
      BY <2>1, <2>2, Zenon DEF Hear
    <2> QED BY <2>2, <2>3, Zenon DEF FecShowing
  <1> QED BY <1>1, <1>2

\* A transmission that is heard and shows nothing new, or shows the frame's head.
LEMMA FecTransmitKeeps ==
    ASSUME FecRoom, FecInv, NEW c \in Calls, NEW lost \in BOOLEAN, FecTransmit(c, lost)
    PROVE  FecInv'
  <1> DEFINE x == Loaded(fec[c])
             m == FecHead(c, x)
             seen == heard.seen
             shown == heard.shown
             reached == Reached(x, lost)
  <1>1. /\ FecTypes /\ FecListenerOk(seen, shown, fecNow)
        /\ \A d \in Calls : FecStationOk(d, fec[d], seen, shown, fecNow)
    BY DEF FecInv
  <1>2. /\ x.frame # <<>>
        /\ \A d \in Calls \ {c} : fec[d].copies > 0 => fecNow - fec[d].at <= FecGap
        /\ fec' = [fec EXCEPT ![c] = FecSent(x, fecNow, reached)]
        /\ heard' = (IF lost THEN [heard EXCEPT !.lost = @ + 1] ELSE Hear(x.frame))
        /\ fecNow' = fecNow + 1
    BY DEF FecTransmit, Sent, FecSent
  <1>3. /\ fecNow \in Nat /\ shown \in Seq(FecShowings) /\ FecTable(seen, shown, fecNow)
        /\ FecApart(shown) /\ IsFiniteSet(seen) /\ seen \subseteq FecEntries
    BY <1>1 DEF FecListenerOk, FecTable
  <1>4. FecReady(c, x, seen, shown, fecNow) /\ FecReaches(c, x.reached, shown)
    <2>1. FecStationOk(c, fec[c], seen, shown, fecNow)
      BY <1>1
    <2>2. CASE fec[c].copies # 0
      <3>1. x = fec[c]
        BY <2>2 DEF Loaded
      <3> QED BY <1>1, <2>1, <2>2, <3>1, FecRepeats DEF FecStationOk
    <2>3. CASE fec[c].copies = 0
      <3>1. fec[c].queue # <<>>
        <4>1. SUFFICES ASSUME fec[c].queue = <<>> PROVE x.frame = <<>>
          BY <1>2
        <4>2. fec[c] \in FecStations
          BY <2>1 DEF FecStationOk
        <4>3. CutAt(<<>>) = 0
          <5>1. PICK o \in Nat : o = 0 /\ Len(<<>>) = o
            OBVIOUS
          <5>2. \E a \in {o, FecFrame} : \A b \in {o, FecFrame} : a <= b
            BY <5>1, FecConstants
          <5>3. Min({o, FecFrame}) \in {o, FecFrame} /\ Min({o, FecFrame}) <= o
            BY <5>2 DEF Min
          <5> QED BY <5>1, <5>3, FecConstants DEF CutAt
        <4>4. x.frame = SubSeq(fec[c].queue, 1, CutAt(fec[c].queue))
          BY <2>3, <4>2 DEF Loaded, FecStations
        <4> QED BY <4>1, <4>3, <4>4
      <3>2. FecReady(c, x, seen, shown, fecNow)
        BY <1>1, <2>1, <2>3, <3>1, FecStartsFrame
      <3>3. x.reached = fec[c].reached
        <4>1. fec[c] \in FecStations
          BY <2>1 DEF FecStationOk
        <4> QED BY <2>3, <4>1 DEF Loaded, FecStations
      <3> QED BY <2>1, <3>2, <3>3 DEF FecStationOk, FecReaches
    <2> QED BY <2>2, <2>3
  <1>5. /\ x.next \in FecIdsUsed /\ x.frame \in Seq(FecUnits) /\ x.began \in Nat
        /\ x.copies \in 1..FecCopies /\ x.reached \in SUBSET [id : FecIdsUsed, at : Nat]
        /\ Len(x.frame) \in 1..FecFrame /\ x.began <= fecNow
    BY <1>4 DEF FecReady
  <1>6. x.frame[1].call = c /\ x.frame[1].id \in FecIdsUsed /\ m \in FecMessages
    <2>1. x.queue \in Seq(FecUnits) /\ FecLaid(c, x.frame \o x.queue, x.next)
      BY <1>4 DEF FecReady
    <2> DEFINE a == x.frame
               b == x.queue
    <2>2. PICK k \in Nat : k = Len(a) /\ k >= 1
      BY <1>5, FecConstants
    <2>3. PICK l \in Nat : l = Len(b)
      BY <2>1, LenProperties
    <2>4. a \in Seq(FecUnits) /\ b \in Seq(FecUnits)
      BY <1>5, <2>1
    <2>5. a[1] \in FecUnits
      <3> HIDE DEF a
      <3> QED BY <2>2, <2>4
    <2>6. Len(a \o b) = k + l /\ (a \o b)[1] = a[1]
      <3> HIDE DEF a, b
      <3> QED BY <2>2, <2>3, <2>4
    <2>7. 1 \in 1..(k + l)
      BY <2>2
    <2>8. a[1].call = c
      BY <2>1, <2>6, <2>7 DEF FecLaid
    <2>9. a[1].id \in FecIdsUsed
      <3> HIDE DEF a
      <3> QED BY <2>5 DEF FecUnits
    <2> QED BY <2>8, <2>9 DEF FecHead, FecMessages
  <1>7. Decoded(x.frame) = {} \/ (x.frame[1].i = 1 /\ Decoded(x.frame) = {m})
    BY <1>6, FecDecodes DEF FecHead
  <1>8. m.call = c /\ m.id = x.frame[1].id
    BY DEF FecHead
  <1> HIDE DEF x, m, reached
  \* What was shown of the head is out of the window or in the table.
  <1>9. ASSUME x.frame[1].i = 1, NEW i \in 1..Len(shown), shown[i].m = m
        PROVE  FecFresh(x, shown[i], seen, fecNow)
    BY <1>4, <1>9 DEF FecReady, m
  <1>10. reached \in SUBSET [id : FecIdsUsed, at : Nat]
    <2>1. \A o \in Decoded(x.frame) : [id |-> o.id, at |-> x.began] \in [id : FecIdsUsed, at : Nat]
      BY <1>5, <1>6, <1>7, <1>8
    <2> QED BY <1>5, <2>1 DEF reached, Reached
  <1>11. ASSUME NEW o \in reached
         PROVE  o \in x.reached \/ (~lost /\ Decoded(x.frame) = {m} /\ x.frame[1].i = 1
                                    /\ o = [id |-> m.id, at |-> x.began])
    BY <1>7 DEF reached, Reached
  <1>12. FecListenerOk(seen, shown, fecNow + 1)
    <2>1. \A i \in 1..Len(shown) : shown[i].at < fecNow + 1
      BY <1>1, <1>3, FecShownTyped
    <2> QED BY <1>3, <2>1 DEF FecListenerOk, FecTable
  \* A match in the table was shown since the frame began.
  <1>13. ASSUME x.frame[1].i = 1, ~IsNew(m)
         PROVE  \E i \in 1..Len(shown) : shown[i].m = m /\ shown[i].at >= x.began
    <2>1. PICK e \in Live : e.call = m.call /\ e.id = m.id
      BY <1>13 DEF IsNew
    <2>2. e \in seen /\ fecNow - e.at <= FecWindow /\ e \in FecEntries
      BY <1>3, <2>1 DEF Live
    <2>3. PICK i \in 1..Len(shown) : shown[i] = [m |-> [call |-> e.call, id |-> e.id], at |-> e.at]
      BY <1>3, <2>2 DEF FecTable
    <2>4. shown[i].m = m /\ shown[i].at = e.at
      BY <2>1, <2>3 DEF m, FecHead
    <2>5. FecFresh(x, shown[i], seen, fecNow)
      BY <1>9, <1>13, <2>4
    <2>6. PICK at \in Nat : at = shown[i].at
      BY <1>1, FecShownTyped
    <2>7. ~(at < x.began)
      <3>1. SUFFICES ASSUME at < x.began PROVE FALSE
        OBVIOUS
      <3>2. x.began - at > FecWindow
        BY <2>5, <2>6, <3>1 DEF FecFresh
      <3>3. fecNow - at <= FecWindow
        BY <2>2, <2>4, <2>6
      <3> QED BY <1>3, <1>5, <3>2, <3>3, FecConstants
    <2>8. shown[i].at >= x.began
      BY <1>5, <2>6, <2>7
    <2> QED BY <2>4, <2>8
  \* What is new was not shown within the window.
  <1>14. ASSUME x.frame[1].i = 1, IsNew(m), NEW i \in 1..Len(shown), shown[i].m = m
         PROVE  fecNow - shown[i].at > FecWindow
    <2>1. FecFresh(x, shown[i], seen, fecNow)
      BY <1>9, <1>14
    <2>2. PICK at \in Nat : at = shown[i].at
      BY <1>1, FecShownTyped
    <2>3. CASE at < x.began
      <3>1. x.began - at > FecWindow
        BY <2>1, <2>2, <2>3 DEF FecFresh
      <3> QED BY <1>3, <1>5, <2>2, <3>1, FecConstants
    <2>4. CASE at >= x.began
      <3>1. SUFFICES ASSUME FecEntry(m, at) \in seen PROVE fecNow - at > FecWindow
        BY <1>14, <2>1, <2>2, <2>4 DEF FecFresh
      <3>2. FecEntry(m, at) \notin Live
        BY <1>14 DEF IsNew, FecEntry
      <3>3. ~(fecNow - FecEntry(m, at).at <= FecWindow)
        BY <3>1, <3>2 DEF Live
      <3>4. ~(fecNow - at <= FecWindow)
        BY <3>3 DEF FecEntry
      <3> QED BY <1>3, <3>4, FecConstants
    <2> QED BY <1>5, <2>2, <2>3, <2>4
  <1>15. ASSUME NEW seen2, NEW shown2, FecListenerOk(seen2, shown2, fecNow + 1),
                heard'.seen = seen2, heard'.shown = shown2,
                heard' \in [seen : SUBSET FecEntries, shown : Seq(FecShowings),
                            raw : Nat, typed : Nat, lost : Nat],
                FecStationOk(c, FecSent(x, fecNow, reached), seen2, shown2, fecNow + 1),
                \A d \in Calls \ {c} : FecStationOk(d, fec[d], seen2, shown2, fecNow + 1)
         PROVE  FecInv'
    <2>1. fec \in [Calls -> FecStations]
      BY <1>1 DEF FecTypes
    <2>2. FecSent(x, fecNow, reached) \in FecStations
      BY <1>15 DEF FecStationOk
    <2>3. /\ fec' \in [Calls -> FecStations] /\ fec'[c] = FecSent(x, fecNow, reached)
          /\ \A d \in Calls \ {c} : fec'[d] = fec[d]
      BY <1>2, <2>1, <2>2
    <2>4. \A d \in Calls : FecStationOk(d, fec'[d], seen2, shown2, fecNow + 1)
      BY <1>15, <2>3
    <2>5. FecTypes'
      BY <1>15, <2>3 DEF FecTypes
    <2> QED BY <1>2, <1>15, <2>4, <2>5 DEF FecInv
  <1>16. heard \in [seen : SUBSET FecEntries, shown : Seq(FecShowings),
                    raw : Nat, typed : Nat, lost : Nat]
    BY <1>1 DEF FecTypes
  <1>17. CASE lost \/ Decoded(x.frame) = {} \/ ~IsNew(m)
    <2>1. heard' \in {heard, [heard EXCEPT !.lost = @ + 1], [heard EXCEPT !.raw = @ + 1]}
      <3>1. CASE lost
        BY <1>2, <3>1
      <3>2. CASE ~lost
        <4>1. Hear(x.frame) \in {heard, [heard EXCEPT !.raw = @ + 1]}
          BY <1>1, <1>7, <1>17, <3>2, FecHears
        <4> QED BY <1>2, <3>2, <4>1
      <3> QED BY <3>1, <3>2
    <2>2. /\ heard'.seen = seen /\ heard'.shown = shown
          /\ heard' \in [seen : SUBSET FecEntries, shown : Seq(FecShowings),
                         raw : Nat, typed : Nat, lost : Nat]
      BY <1>16, <2>1
    <2>3. FecStationOk(c, FecSent(x, fecNow, reached), seen, shown, fecNow + 1)
      <3>1. \A i \in 1..Len(shown) : \E j \in 1..Len(shown) : shown[i] = shown[j]
        OBVIOUS
      <3>2. ASSUME x.frame[1].i = 1, NEW i \in 1..Len(shown), shown[i].m = m, shown[i].at >= x.began
            PROVE  \/ fecNow - shown[i].at > FecWindow
                   \/ /\ FecEntry(shown[i].m, shown[i].at) \in seen
                      /\ Cardinality(FecNewer(seen, shown[i].at)) <= FecSlack(x.copies - 1, 0)
        BY <1>9, <3>2 DEF FecFresh
      <3>3. ASSUME NEW o \in reached
            PROVE  \E i \in 1..Len(shown) :
                      shown[i].m = [call |-> c, id |-> o.id] /\ shown[i].at >= o.at
        <4>1. CASE o \in x.reached
          BY <1>4, <4>1 DEF FecReaches
        <4>2. CASE /\ ~lost /\ Decoded(x.frame) = {m} /\ x.frame[1].i = 1
                   /\ o = [id |-> m.id, at |-> x.began]
          <5>1. ~IsNew(m)
            BY <1>17, <4>2
          <5>2. PICK i \in 1..Len(shown) : shown[i].m = m /\ shown[i].at >= x.began
            BY <1>13, <4>2, <5>1
          <5>3. m = [call |-> c, id |-> o.id] /\ o.at = x.began
            BY <1>8, <4>2 DEF m, FecHead
          <5> QED BY <5>2, <5>3
        <4> QED BY <1>11, <4>1, <4>2
      <3>4. /\ FecAdds(c, x, shown, shown, fecNow) /\ FecHolds(c, x, seen, shown, fecNow)
            /\ FecReaches(c, reached, shown)
        BY <3>1, <3>2, <3>3 DEF FecAdds, FecHolds, FecReaches, m
      <3> QED BY <1>3, <1>4, <1>10, <3>4, FecSentKeeps
    <2>4. ASSUME NEW d \in Calls \ {c}
          PROVE  FecStationOk(d, fec[d], seen, shown, fecNow + 1)
      <3>1. \A e \in seen : /\ Cardinality(FecNewer(seen, e.at)) \in Nat
                            /\ Cardinality(FecNewer(seen, e.at)) <= Cardinality(FecNewer(seen, e.at)) + 1
        <4>1. ASSUME NEW e \in seen PROVE Cardinality(FecNewer(seen, e.at)) \in Nat
          BY <1>3, FecNewerIs
        <4> QED BY <4>1
      <3> QED BY <1>1, <1>2, <1>3, <3>1, FecOthersKeep
    <2> QED BY <1>12, <1>15, <2>2, <2>3, <2>4
  <1>18. CASE ~lost /\ Decoded(x.frame) = {m} /\ x.frame[1].i = 1 /\ IsNew(m)
    <2> DEFINE e == FecShowing(m, fecNow)
               seen2 == Remember(m)
               shown2 == Append(shown, e)
    <2>1. /\ FecTable(seen2, shown2, fecNow + 1)
          /\ FecEntry(m, fecNow) \in seen2
          /\ Cardinality(FecNewer(seen2, fecNow)) = 0
          /\ \A f \in seen :
                 (~(fecNow - f.at > FecWindow) /\ Cardinality(FecNewer(seen, f.at)) < FecSeen - 1) =>
                     /\ f \in seen2
                     /\ Cardinality(FecNewer(seen2, f.at)) <= Cardinality(FecNewer(seen, f.at)) + 1
      BY <1>3, <1>6, FecRemembers
    <2>2. heard' = [heard EXCEPT !.seen = seen2, !.shown = shown2]
      BY <1>1, <1>2, <1>18, FecHears
    <2>3. e \in FecShowings /\ e.m = m /\ e.at = fecNow
      BY <1>3, <1>6 DEF FecShowing, FecShowings
    <2>4. PICK l \in Nat : l = Len(shown)
      BY <1>3, LenProperties
    <2> HIDE DEF e
    <2>5. /\ shown2 \in Seq(FecShowings) /\ Len(shown2) = l + 1
          /\ \A i \in 1..l : shown2[i] = shown[i]
          /\ shown2[l + 1] = e
      <3> HIDE DEF shown
      <3> QED BY <1>3, <2>3, <2>4
    <2> HIDE DEF seen2, shown2
    <2>6. seen2 \subseteq FecEntries /\ IsFiniteSet(seen2)
      BY <2>1 DEF FecTable
    <2>7. /\ heard'.seen = seen2 /\ heard'.shown = shown2
          /\ heard' \in [seen : SUBSET FecEntries, shown : Seq(FecShowings),
                         raw : Nat, typed : Nat, lost : Nat]
      BY <1>16, <2>2, <2>5, <2>6
    <2>8. \A i \in 1..(l + 1) : i \in 1..l \/ i = l + 1
      OBVIOUS
    <2>9. FecListenerOk(seen2, shown2, fecNow + 1)
      <3>1. ASSUME NEW i \in 1..(l + 1), NEW j \in 1..(l + 1), i < j, shown2[i].m = shown2[j].m
            PROVE  shown2[j].at - shown2[i].at > FecWindow
        <4>1. i \in 1..l
          BY <3>1
        <4>2. CASE j = l + 1
          <5>1. shown2[i] = shown[i] /\ shown[i].m = m
            BY <2>3, <2>5, <3>1, <4>1, <4>2
          <5>2. fecNow - shown[i].at > FecWindow
            BY <1>14, <1>18, <2>4, <4>1, <5>1
          <5> QED BY <2>3, <2>5, <4>2, <5>1, <5>2
        <4>3. CASE j \in 1..l
          BY <1>3, <2>4, <2>5, <3>1, <4>1, <4>3 DEF FecApart
        <4> QED BY <2>8, <4>2, <4>3
      <3>2. FecApart(shown2)
        BY <2>5, <3>1 DEF FecApart
      <3> QED BY <1>3, <2>1, <2>5, <3>2 DEF FecListenerOk
    <2>10. FecStationOk(c, FecSent(x, fecNow, reached), seen2, shown2, fecNow + 1)
      <3>1. ASSUME NEW i \in 1..Len(shown2)
            PROVE  \/ \E j \in 1..Len(shown) : shown2[i] = shown[j]
                   \/ x.frame[1].i = 1 /\ shown2[i] = FecShowing(FecHead(c, x), fecNow)
        <4>1. CASE i \in 1..l
          BY <2>4, <2>5, <4>1
        <4>2. CASE i = l + 1
          BY <1>18, <2>5, <4>2 DEF e, m
        <4> QED BY <2>5, <2>8, <4>1, <4>2
      <3>2. ASSUME NEW i \in 1..Len(shown2), shown2[i].m = m, shown2[i].at >= x.began
            PROVE  \/ fecNow - shown2[i].at > FecWindow
                   \/ /\ FecEntry(shown2[i].m, shown2[i].at) \in seen2
                      /\ Cardinality(FecNewer(seen2, shown2[i].at)) <= FecSlack(x.copies - 1, 0)
        <4>1. CASE i \in 1..l
          BY <1>14, <1>18, <2>4, <2>5, <3>2, <4>1
        <4>2. CASE i = l + 1
          <5>1. shown2[i].m = m /\ shown2[i].at = fecNow
            BY <2>3, <2>5, <4>2
          <5>2. 0 <= FecSlack(x.copies - 1, 0)
            <6>1. FecSlack(x.copies - 1, 0) \in Nat
              BY <1>5, FecSlackIs
            <6> QED BY <6>1
          <5> QED BY <2>1, <5>1, <5>2
        <4> QED BY <2>5, <2>8, <4>1, <4>2
      <3>3. ASSUME NEW o \in reached
            PROVE  \E i \in 1..Len(shown2) :
                      shown2[i].m = [call |-> c, id |-> o.id] /\ shown2[i].at >= o.at
        <4>1. CASE o \in x.reached
          <5>1. PICK i \in 1..l : shown[i].m = [call |-> c, id |-> o.id] /\ shown[i].at >= o.at
            BY <1>4, <2>4, <4>1 DEF FecReaches
          <5>2. i \in 1..(l + 1) /\ shown2[i] = shown[i]
            BY <2>5
          <5> QED BY <2>5, <5>1, <5>2
        <4>2. CASE o = [id |-> m.id, at |-> x.began]
          <5>1. m = [call |-> c, id |-> o.id] /\ o.at = x.began
            BY <1>8, <4>2 DEF m, FecHead
          <5>2. shown2[l + 1].m = m /\ shown2[l + 1].at >= o.at
            BY <1>3, <1>5, <2>3, <2>5, <5>1
          <5>3. l + 1 \in 1..Len(shown2)
            BY <2>5
          <5> QED BY <5>1, <5>2, <5>3
        <4> QED BY <1>11, <4>1, <4>2
      <3>4. shown2 \in Seq(FecShowings)
        BY <2>5
      <3>5. /\ FecAdds(c, x, shown, shown2, fecNow) /\ FecHolds(c, x, seen2, shown2, fecNow)
            /\ FecReaches(c, reached, shown2)
        BY <3>1, <3>2, <3>3 DEF FecAdds, FecHolds, FecReaches, m
      <3> QED BY <1>3, <1>4, <1>10, <3>4, <3>5, FecSentKeeps
    <2>11. ASSUME NEW d \in Calls \ {c}
           PROVE  FecStationOk(d, fec[d], seen2, shown2, fecNow + 1)
      <3>1. \A i \in 1..Len(shown) : i \in 1..Len(shown2) /\ shown2[i] = shown[i]
        BY <2>4, <2>5
      <3>2. ASSUME NEW i \in 1..Len(shown2), ~(i \in 1..Len(shown))
            PROVE  shown2[i].m.call # d
        <4>1. i = l + 1
          BY <2>4, <2>5, <2>8, <3>2
        <4>2. shown2[i].m = m
          BY <2>3, <2>5, <4>1
        <4> QED BY <1>8, <4>2
      <3>3. \A f \in seen : Cardinality(FecNewer(seen2, f.at)) \in Nat
        <4>1. ASSUME NEW f \in seen PROVE Cardinality(FecNewer(seen2, f.at)) \in Nat
          BY <2>6, FecNewerIs
        <4> QED BY <4>1
      <3>4. FecStationOk(d, fec[d], seen, shown, fecNow)
        BY <1>1
      <3>5. fec[d].copies > 0 => fecNow - fec[d].at <= FecGap
        BY <1>2
      <3> QED BY <1>1, <2>1, <2>5, <3>1, <3>2, <3>3, <3>4, <3>5, FecOthersKeep
    <2> QED BY <1>15, <2>7, <2>9, <2>10, <2>11
  <1> QED BY <1>7, <1>17, <1>18

LEMMA FecTypeKeeps ==
    ASSUME FecInv, NEW c \in Calls, NEW line \in FecLines, FecType(c, line)
    PROVE  FecInv'
  <1> DEFINE s == fec[c]
             t == SendLine(c, line, s)
             seen == heard.seen
             shown == heard.shown
  <1>1. /\ FecTypes /\ FecListenerOk(seen, shown, fecNow)
        /\ \A d \in Calls : FecStationOk(d, fec[d], seen, shown, fecNow)
    BY DEF FecInv
  <1>2. /\ fec' = [fec EXCEPT ![c] = t]
        /\ heard' = [heard EXCEPT !.typed = @ + 1]
        /\ fecNow' = fecNow
    BY DEF FecType
  <1>3. /\ fecNow \in Nat /\ shown \in Seq(FecShowings)
        /\ \A i \in 1..Len(shown) : shown[i].at < fecNow
    BY <1>1 DEF FecListenerOk, FecTable
  <1>4. s \in FecStations /\ FecQueued(c, s, shown, fecNow)
        /\ FecSending(c, s, seen, shown, fecNow) /\ FecReaches(c, s.reached, shown)
    BY <1>1 DEF FecStationOk
  <1> HIDE DEF s, t
  <1>5. t \in FecStations /\ FecQueued(c, t, shown, fecNow) /\ FecSameFrame(s, t)
    BY <1>3, <1>4, FecLineKeeps DEF t
  <1>6. FecSending(c, t, seen, shown, fecNow)
    BY <1>4, <1>5 DEF FecSending, FecSameFrame, FecKnown
  <1>7. FecReaches(c, t.reached, shown)
    BY <1>4, <1>5 DEF FecReaches, FecSameFrame
  <1>8. FecStationOk(c, t, seen, shown, fecNow)
    BY <1>5, <1>6, <1>7 DEF FecStationOk
  <1>9. /\ heard'.seen = seen /\ heard'.shown = shown
        /\ heard' \in [seen : SUBSET FecEntries, shown : Seq(FecShowings),
                       raw : Nat, typed : Nat, lost : Nat]
    BY <1>1, <1>2 DEF FecTypes
  <1>10. fec' \in [Calls -> FecStations] /\ fec'[c] = t /\ \A d \in Calls \ {c} : fec'[d] = fec[d]
    BY <1>1, <1>2, <1>5 DEF FecTypes
  <1>11. \A d \in Calls : FecStationOk(d, fec'[d], seen, shown, fecNow)
    BY <1>1, <1>8, <1>10
  <1>12. FecTypes'
    BY <1>9, <1>10 DEF FecTypes
  <1> QED BY <1>1, <1>2, <1>9, <1>11, <1>12 DEF FecInv

LEMMA FecStarts == FecInit => FecInv
  <1> SUFFICES ASSUME FecInit PROVE FecInv
    OBVIOUS
  <1>1. /\ fec = [c \in Calls |-> Station] /\ fecNow = 0
        /\ heard = [seen |-> {}, shown |-> <<>>, raw |-> 0, typed |-> 0, lost |-> 0]
    BY DEF FecInit, FecInitAt
  <1>2. Station \in FecStations
    <2>1. 0 \in FecIdsUsed /\ 0 \in 0..(FecCopies - 1) /\ <<>> \in Seq(FecUnits)
      BY FecConstants DEF FecIdsUsed
    <2> QED BY <2>1 DEF Station, FecStations
  <1>3. /\ heard.seen = {} /\ heard.shown = <<>>
        /\ heard \in [seen : SUBSET FecEntries, shown : Seq(FecShowings),
                      raw : Nat, typed : Nat, lost : Nat]
    BY <1>1
  <1>4. FecTypes
    BY <1>1, <1>2, <1>3 DEF FecTypes
  <1>5. 1..Len(<<>>) = {} /\ <<>> \in Seq(FecShowings) /\ <<>> \in Seq(FecUnits)
    OBVIOUS
  <1>6. FecListenerOk({}, <<>>, 0)
    BY <1>5, FS_EmptySet DEF FecListenerOk, FecTable, FecApart
  <1>7. ASSUME NEW c \in Calls
        PROVE  FecStationOk(c, Station, {}, <<>>, 0)
    <2>1. /\ Station.frame = <<>> /\ Station.queue = <<>> /\ Station.copies = 0
          /\ Station.reached = {}
      BY DEF Station
    <2>2. <<>> \o <<>> = <<>>
      BY <1>5, FecCat
    <2>3. FecLaid(c, <<>>, Station.next)
      BY <1>5 DEF FecLaid
    <2>4. FecQueued(c, Station, <<>>, 0)
      BY <1>5, <2>1, <2>2, <2>3 DEF FecQueued
    <2>5. FecSending(c, Station, {}, <<>>, 0)
      BY <1>5, <2>1 DEF FecSending
    <2>6. FecReaches(c, Station.reached, <<>>)
      BY <2>1 DEF FecReaches
    <2> QED BY <1>2, <2>4, <2>5, <2>6 DEF FecStationOk
  <1> QED BY <1>1, <1>3, <1>4, <1>6, <1>7 DEF FecInv

\* A message is shown once within the window, and whatever a frame that is heard
\* begins with is shown when its first copy arrives (fecchat_is_new), for any
\* number of stations' lines, losses and repeats: a wrapped id is harmless as long
\* as the ids of a window do not come round, and an entry stays in the table as
\* long as it is not the others' that fill it between two copies.
THEOREM FecShows ==
    ASSUME FecRoom
    PROVE  FecSpec => []FecShownExactly
  <1>1. FecInit => FecInv
    BY FecStarts
  <1>2. ASSUME FecInv, [FecNext]_fecVars PROVE FecInv'
    <2>1. CASE UNCHANGED fecVars
      BY <1>2, <2>1 DEF fecVars, FecInv, FecTypes
    <2>2. ASSUME NEW c \in Calls, NEW line \in FecLines, FecType(c, line) PROVE FecInv'
      BY <1>2, <2>2, FecTypeKeeps
    <2>3. ASSUME NEW c \in Calls, NEW lost \in BOOLEAN, FecTransmit(c, lost) PROVE FecInv'
      BY <1>2, <2>3, FecTransmitKeeps
    <2> QED BY <1>2, <2>1, <2>2, <2>3 DEF FecNext
  <1>3. FecInv => FecShownExactly
    <2>1. SUFFICES ASSUME FecInv PROVE FecShownOnce /\ FecNewIsShown
      BY DEF FecShownExactly
    <2>2. /\ heard.shown \in Seq(FecShowings) /\ FecApart(heard.shown)
          /\ \A c \in Calls : FecReaches(c, fec[c].reached, heard.shown)
      BY <2>1 DEF FecInv, FecListenerOk, FecStationOk
    <2>3. DOMAIN heard.shown = 1..Len(heard.shown)
      BY <2>2, LenProperties
    <2>4. FecShownOnce
      BY <2>2, <2>3 DEF FecShownOnce, FecApart
    <2>5. FecNewIsShown
      BY <2>2, <2>3 DEF FecNewIsShown, FecReaches, ShownAs
    <2> QED BY <2>4, <2>5
  <1> QED BY <1>1, <1>2, <1>3, PTL DEF FecSpec
=============================================================================
