---------------------------- MODULE DaemonProofs ----------------------------
(***************************************************************************)
(* The daemon keys its transmitter right and sees what its client does,    *)
(* for every queue, frame length, number of repeats and amount of traffic; *)
(* and the sound device under it plays its overs whole, for every ring,    *)
(* word, ratio and interpolator.                                           *)
(*                                                                         *)
(* The first two rest on what one step of the link leaves (PerformEffect): *)
(* the radio is keyed if the step sent, and the mirror shows the state     *)
(* even if it was stale before, because a stale mirror always differs from *)
(* the state in the queue and the queue cannot grow back while it listens. *)
(* The third says where each sample of an over is: what was heard, what    *)
(* the ring holds, what waits for room and what the interpolator holds are *)
(* one numbered run, cut at four places (AudInOrder, AudHeldBehind).       *)
(***************************************************************************)
EXTENDS Daemon, Audio, SequenceTheorems, TLAPS

-----------------------------------------------------------------------------
(* What the records hold. *)

DmnLinks == [st : DmnStates, mode : DmnModes, bw : 0..2, tx : Nat, armed : BOOLEAN, reps : Nat]

DmnMirrors ==
    [st : DmnStates, mode : DmnModes, bw : 0..2, buffer : Nat,
     busy : BOOLEAN, ptt : BOOLEAN, sn : DmnSignal \cup {0}, quality : DmnSignal \cup {0}]

DmnRecords ==
    [l : DmnLinks, base : DmnStates \X DmnModes \X (0..2) \X Nat,
     active : BOOLEAN, left : 0..DmnBlocks, ptt : BOOLEAN, line : BOOLEAN, refused : BOOLEAN,
     busy : BOOLEAN, sn : DmnSignal \cup {0}, quality : DmnSignal \cup {0},
     heard : BOOLEAN, was : BOOLEAN, caller : {"none", "unseen", "seen"},
     mirror : DmnMirrors]

DmnOutcomes == [l : DmnLinks, sends : BOOLEAN]

DmnPlaces == {"poll", "block", "fault", "closing", "over"}

DmnTypes ==
    /\ dmn \in DmnRecords
    /\ dmnPc \in DmnPlaces
    /\ dmnEnv \in [stop : BOOLEAN, fault : BOOLEAN, client : BOOLEAN, visits : Nat, lines : Nat]

-----------------------------------------------------------------------------
(* The link: what its steps leave of the queue and of a call. *)

\* A link at rest is a link, and so is one that is changed field by field.
LEMMA LinkReset ==
    ASSUME NEW l \in DmnLinks
    PROVE  DmnReset(l) \in DmnLinks /\ DmnReset(l).st = "DISC" /\ DmnReset(l).tx = l.tx
  BY DEF DmnReset, DmnLinks, DmnStates

LEMMA LinkChanged ==
    ASSUME NEW l \in DmnLinks, NEW s \in DmnStates, NEW m \in DmnModes, NEW b \in 0..2,
           NEW q \in Nat, NEW a \in BOOLEAN, NEW r \in Nat
    PROVE  /\ [l EXCEPT !.st = s] \in DmnLinks
           /\ [l EXCEPT !.mode = m] \in DmnLinks
           /\ [l EXCEPT !.bw = b] \in DmnLinks
           /\ [l EXCEPT !.tx = q] \in DmnLinks
           /\ [l EXCEPT !.armed = a] \in DmnLinks
           /\ [l EXCEPT !.reps = r] \in DmnLinks
  BY DEF DmnLinks

LEMMA OneOutcome ==
    ASSUME NEW l \in DmnLinks, NEW o, o \in DmnSame(l) \/ o \in DmnSends(l)
    PROVE  o \in DmnOutcomes /\ o.l = l
<1>1. CASE o \in DmnSame(l)
  <2>1. o = [l |-> l, sends |-> FALSE]  BY <1>1 DEF DmnSame
  <2> QED  BY <2>1 DEF DmnOutcomes
<1>2. CASE o \in DmnSends(l)
  <2>1. o = [l |-> l, sends |-> TRUE]  BY <1>2 DEF DmnSends
  <2> QED  BY <2>1 DEF DmnOutcomes
<1> QED  BY <1>1, <1>2

\* A broadcast's next frame, or its end.
LEMMA FecOutcomes ==
    ASSUME NEW l \in DmnLinks, NEW o \in DmnFecNext(l)
    PROVE  o \in DmnOutcomes /\ (o.l.st = "CALL" => l.st = "CALL")
<1>1. CASE l.tx = 0
  <2>1. o \in DmnSame(DmnReset(l))  BY <1>1 DEF DmnFecNext
  <2> QED  BY <2>1, OneOutcome, LinkReset
<1>2. CASE l.tx # 0
  <2> DEFINE m == [l EXCEPT !.tx = @ - 1, !.reps = 0]
  <2>1. o \in DmnSends(m)  BY <1>2 DEF DmnFecNext
  <2>2. l.tx - 1 \in Nat  BY <1>2 DEF DmnLinks
  <2>3. m \in DmnLinks /\ m.st = l.st  BY <2>2 DEF DmnLinks
  <2> HIDE DEF m
  <2> QED  BY <2>1, <2>3, OneOutcome
<1> QED  BY <1>1, <1>2

\* A command keeps the link a link; only a call from rest begins one, and an
\* abort ends whatever there was.
LEMMA HostOutcomes ==
    ASSUME NEW l \in DmnLinks, NEW c \in DmnLine, c # "BUFFER0", NEW mode \in DmnModes,
           NEW o \in DmnHost(l, c, mode)
    PROVE  /\ o \in DmnOutcomes
           /\ o.l.st = "CALL" => l.st = "CALL" \/ (c = "ARQCALL" /\ l.st = "DISC")
           /\ c = "ABORT" => o.l.st = "DISC"
<1>0. l.st \in DmnStates /\ l.tx \in Nat  BY DEF DmnLinks
<1>1. CASE c = "ARQCALL"
  <2> DEFINE m == [l EXCEPT !.st = "CALL", !.armed = TRUE]
  <2>1. m \in DmnLinks  BY DEF DmnLinks, DmnStates
  <2>2. CASE l.st # "DISC"
    <3>1. o \in DmnSame(l)  BY <1>1, <2>2 DEF DmnHost
    <3> QED  BY <1>1, <3>1, OneOutcome
  <2>3. CASE l.st = "DISC"
    <3>1. o \in DmnSends(m)  BY <1>1, <2>3 DEF DmnHost
    <3> QED  BY <1>1, <2>1, <2>3, <3>1, OneOutcome
  <2> QED  BY <2>2, <2>3
<1>2. CASE c = "DISCONNECT"
  <2> DEFINE m == [l EXCEPT !.armed = TRUE]
  <2>1. m \in DmnLinks /\ m.st = l.st  BY DEF DmnLinks
  <2>2. o \in DmnSame(l) \/ o \in DmnSends(m)  BY <1>2 DEF DmnHost
  <2> QED  BY <1>2, <2>1, <2>2, OneOutcome
<1>3. CASE c = "ABORT"
  <2> DEFINE m == [DmnReset(l) EXCEPT !.tx = 0]
  <2>1. m \in DmnLinks /\ m.st = "DISC"  BY DEF DmnReset, DmnLinks, DmnStates
  <2>2. o \in DmnSame(m)  BY <1>3 DEF DmnHost
  <2> QED  BY <1>3, <2>1, <2>2, OneOutcome
<1>4. CASE c = "SENDID"
  <2>1. o \in DmnSame(l) \/ o \in DmnSends(l)  BY <1>4 DEF DmnHost
  <2> QED  BY <1>4, <2>1, OneOutcome
<1>5. CASE c = "FECSEND"
  <2> DEFINE m == [l EXCEPT !.mode = "FEC"]
             f == [m EXCEPT !.st = "FEC"]
  <2>1. m \in DmnLinks /\ m.st = l.st /\ f \in DmnLinks /\ f.st = "FEC"
    BY DEF DmnLinks, DmnModes, DmnStates
  <2>2. CASE l.st = "DISC"
    <3>1. o \in DmnFecNext(f)  BY <1>5, <2>2 DEF DmnHost
    <3> QED  BY <1>5, <2>1, <3>1, FecOutcomes
  <2>3. CASE l.st # "DISC"
    <3>1. o \in DmnSame(m)  BY <1>5, <2>3 DEF DmnHost
    <3> QED  BY <1>5, <2>1, <3>1, OneOutcome
  <2> QED  BY <2>2, <2>3
<1>6. CASE c = "MODE"
  <2> DEFINE m == [l EXCEPT !.mode = mode]
  <2>1. m \in DmnLinks /\ m.st = l.st  BY DEF DmnLinks
  <2>2. o \in DmnSame(m) \/ o \in DmnSame(l)  BY <1>6 DEF DmnHost
  <2> QED  BY <1>6, <2>1, <2>2, OneOutcome
<1>7. CASE c = "DATA"
  <2> DEFINE m == [l EXCEPT !.tx = l.tx + 1]
  <2>9. \A n \in Nat : n + 1 \in Nat  OBVIOUS
  <2>0. l.tx + 1 \in Nat  BY <1>0, <2>9
  <2>1. m \in DmnLinks /\ m.st = l.st  BY <2>0 DEF DmnLinks
  <2>2. o \in DmnSame(m) \/ o \in DmnSame(l)  BY <1>7 DEF DmnHost
  <2> QED  BY <1>7, <2>1, <2>2, OneOutcome
<1> QED  BY <1>1, <1>2, <1>3, <1>4, <1>5, <1>6, <1>7 DEF DmnLine

\* What is heard begins no call and puts nothing in the queue.
LEMMA HearsOutcomes ==
    ASSUME NEW l \in DmnLinks, NEW o \in DmnHears(l)
    PROVE  o \in DmnOutcomes /\ (o.l.st = "CALL" => l.st = "CALL") /\ o.l.tx <= l.tx
<1>0. l.tx \in Nat /\ l.st \in DmnStates  BY DEF DmnLinks
<1>1. CASE o \in DmnSame(l)
  BY <1>0, <1>1, OneOutcome
<1>2. ASSUME NEW s \in BOOLEAN, o = [l |-> DmnReset(l), sends |-> s]
      PROVE  o \in DmnOutcomes /\ o.l.st = "DISC" /\ o.l.tx <= l.tx
  BY <1>0, <1>2, LinkReset DEF DmnOutcomes
<1>3. ASSUME NEW b \in {1, 2}, NEW r \in BOOLEAN,
             o = [l |-> DmnMeets(l, b, r), sends |-> TRUE]
      PROVE  o \in DmnOutcomes /\ o.l.st = "UP" /\ o.l.tx <= l.tx
  <2> DEFINE m == DmnMeets(l, b, r)
  <2>1. b \in 0..2  OBVIOUS
  <2>2. m \in DmnLinks /\ m.st = "UP" /\ m.tx = l.tx
    BY <2>1 DEF DmnMeets, DmnLinks, DmnStates
  <2> QED  BY <1>0, <1>3, <2>2 DEF DmnOutcomes
<1>4. ASSUME NEW r \in BOOLEAN, NEW q \in 0..l.tx, NEW s \in BOOLEAN,
             o = [l |-> DmnGoesOn(l, r, q), sends |-> s]
      PROVE  o \in DmnOutcomes /\ o.l.st = l.st /\ o.l.tx <= l.tx
  <2> DEFINE m == DmnGoesOn(l, r, q)
  <2>1. q \in Nat /\ q <= l.tx  BY <1>0
  <2>2. m \in DmnLinks /\ m.st = l.st /\ m.tx = q  BY <2>1 DEF DmnGoesOn, DmnLinks
  <2> QED  BY <1>4, <2>1, <2>2 DEF DmnOutcomes
<1>5. \/ o \in DmnSame(l)
      \/ \E s \in BOOLEAN : o = [l |-> DmnReset(l), sends |-> s]
      \/ \E b \in {1, 2}, r \in BOOLEAN : o = [l |-> DmnMeets(l, b, r), sends |-> TRUE]
      \/ \E r \in BOOLEAN, q \in 0..l.tx, s \in BOOLEAN :
            o = [l |-> DmnGoesOn(l, r, q), sends |-> s]
  <2> DEFINE S == {x \in 0..l.tx : l.tx - x <= 1}
             up == {[l |-> DmnMeets(l, b, r), sends |-> TRUE] : b \in {1, 2}, r \in BOOLEAN}
             on == {[l |-> DmnGoesOn(l, r, q), sends |-> s] :
                      r \in BOOLEAN, q \in S, s \in BOOLEAN}
             off == {[l |-> DmnReset(l), sends |-> s] : s \in BOOLEAN}
  <2>1. CASE l.mode # "ARQ" \/ l.st = "FEC"
    BY <2>1 DEF DmnHears
  <2>2. CASE ~(l.mode # "ARQ" \/ l.st = "FEC") /\ l.st \in {"DISC", "CALL"}
    <3> DEFINE rest == {[l |-> DmnReset(l), sends |-> FALSE]}
    <3>1. DmnHears(l) = DmnSame(l) \cup (up \cup rest)
      BY <2>2 DEF DmnHears
    <3>2. CASE o \in up
      BY <3>2
    <3>3. CASE o \in rest
      BY <3>3
    <3> HIDE DEF up, rest
    <3> QED  BY <3>1, <3>2, <3>3
  <2>3. CASE ~(l.mode # "ARQ" \/ l.st = "FEC") /\ l.st \notin {"DISC", "CALL"}
    <3>1. DmnHears(l) = DmnSame(l) \cup (on \cup off)
      BY <2>3 DEF DmnHears
    <3>2. CASE o \in on
      BY <3>2
    <3> QED  BY <3>1, <3>2
  <2> QED  BY <2>1, <2>2, <2>3
<1> QED  BY <1>0, <1>1, <1>2, <1>3, <1>4, <1>5

\* Nor does a timer.
LEMMA TimerOutcomes ==
    ASSUME NEW l \in DmnLinks, NEW o \in DmnTimer(l)
    PROVE  o \in DmnOutcomes /\ (o.l.st = "CALL" => l.st = "CALL") /\ o.l.tx <= l.tx
<1> DEFINE m == [l EXCEPT !.armed = TRUE]
<1>0. l.tx \in Nat  BY DEF DmnLinks
<1>1. m \in DmnLinks /\ m.st = l.st /\ m.tx = l.tx  BY DEF DmnLinks
<1>2. \/ o \in DmnSame(l) \/ o \in DmnSends(l)
      \/ o \in DmnSame(DmnReset(l)) \/ o \in DmnSends(m)
  BY DEF DmnTimer
<1>3. CASE o \in DmnSame(l) \/ o \in DmnSends(l)
  BY <1>0, <1>3, OneOutcome
<1>4. CASE o \in DmnSame(DmnReset(l))
  BY <1>0, <1>4, OneOutcome, LinkReset
<1>5. CASE o \in DmnSends(m)
  <2> HIDE DEF m
  <2> QED  BY <1>0, <1>1, <1>5, OneOutcome
<1> QED  BY <1>2, <1>3, <1>4, <1>5

\* The end of a frame begins no call.
LEMMA TxDoneOutcomes ==
    ASSUME NEW l \in DmnLinks, NEW o \in DmnTxDone(l)
    PROVE  o \in DmnOutcomes /\ (o.l.st = "CALL" => l.st = "CALL")
<1> DEFINE m == [l EXCEPT !.reps = @ + 1]
<1>1. m \in DmnLinks /\ m.st = l.st  BY DEF DmnLinks
<1>2. o \in DmnSame(l) \/ o \in DmnSends(m) \/ o \in DmnFecNext(l)
  BY DEF DmnTxDone
<1> QED  BY <1>1, <1>2, OneOutcome, FecOutcomes

-----------------------------------------------------------------------------
(* The runtime: what a step of the link leaves of the radio and the mirror. *)

\* The mirror shows the parts of the state that are always announced.
DmnShows(d) ==
    /\ d.mirror.busy = d.busy /\ d.mirror.ptt = d.ptt
    /\ d.mirror.sn = d.sn /\ d.mirror.quality = d.quality

\* It shows the link as it was when the last difference was announced.
DmnShowsBase(d) ==
    d.base = <<d.mirror.st, d.mirror.mode, d.mirror.bw, d.mirror.buffer>>

\* The line is where the runtime wants it.
DmnObeys(d) == d.refused \/ d.line = d.ptt

\* What no step of the runtime changes.
DmnKept(d, e) ==
    /\ e.heard = d.heard /\ e.was = d.was /\ e.caller = d.caller

LEMMA TruthTyped ==
    ASSUME NEW d \in DmnRecords
    PROVE  DmnTruth(d) \in DmnMirrors
  BY DEF DmnTruth, DmnRecords, DmnMirrors, DmnLinks

\* What is told to the observers is what the state is.
LEMMA EmitEffect ==
    ASSUME NEW d \in DmnRecords
    PROVE  /\ DmnEmit(d) \in DmnRecords
           /\ DmnEmit(d).mirror = DmnTruth(d)
           /\ DmnEmit(d).l = d.l /\ DmnEmit(d).base = d.base
           /\ DmnEmit(d).active = d.active /\ DmnEmit(d).left = d.left
           /\ DmnEmit(d).ptt = d.ptt /\ DmnEmit(d).line = d.line
           /\ DmnEmit(d).refused = d.refused /\ DmnEmit(d).busy = d.busy
           /\ DmnEmit(d).sn = d.sn /\ DmnEmit(d).quality = d.quality
           /\ DmnKept(d, DmnEmit(d))
  BY TruthTyped DEF DmnEmit, DmnRecords, DmnKept

LEMMA TruthShows ==
    ASSUME NEW d, d.mirror = DmnTruth(d)
    PROVE  DmnShows(d) /\ DmnObservable(d.l) =
              <<d.mirror.st, d.mirror.mode, d.mirror.bw, d.mirror.buffer>>
  BY DEF DmnTruth, DmnShows, DmnObservable

\* A change surfaces once: afterwards the mirror is right, if it was right
\* about the last announcement, or about the state that is announced now.
LEMMA DiffsEffect ==
    ASSUME NEW d \in DmnRecords, DmnShows(d),
           \/ DmnShowsBase(d)
           \/ d.base # DmnObservable(d.l)
           \/ d.mirror = DmnTruth(d),
           NEW e, e = DmnDiffs(d)
    PROVE  /\ e \in DmnRecords /\ DmnKept(d, e)
           /\ e.mirror = DmnTruth(e)
           /\ e.base = DmnObservable(e.l)
           /\ e.l = d.l /\ e.active = d.active /\ e.left = d.left
           /\ e.ptt = d.ptt /\ e.line = d.line /\ e.refused = d.refused
<1>1. CASE d.base = DmnObservable(d.l)
  <2>1. e = d  BY <1>1 DEF DmnDiffs
  <2>2. d.mirror = DmnTruth(d)
    <3>1. CASE DmnShowsBase(d)
      BY <1>1, <3>1 DEF DmnShowsBase, DmnShows, DmnTruth, DmnObservable, DmnRecords, DmnMirrors
    <3> QED  BY <1>1, <3>1
  <2> QED  BY <1>1, <2>1, <2>2 DEF DmnKept
<1>2. CASE d.base # DmnObservable(d.l)
  <2> DEFINE f == [d EXCEPT !.base = DmnObservable(d.l)]
  <2>1. DmnObservable(d.l) \in DmnStates \X DmnModes \X (0..2) \X Nat
    BY DEF DmnObservable, DmnRecords, DmnLinks
  <2>2. /\ f \in DmnRecords /\ DmnKept(d, f) /\ f.base = DmnObservable(f.l)
        /\ f.l = d.l /\ f.active = d.active /\ f.left = d.left
        /\ f.ptt = d.ptt /\ f.line = d.line /\ f.refused = d.refused
        /\ f.busy = d.busy /\ f.sn = d.sn /\ f.quality = d.quality
    BY <2>1 DEF DmnRecords, DmnKept
  <2>3. e = DmnEmit(f)  BY <1>2 DEF DmnDiffs
  <2> HIDE DEF f
  <2>4. DmnTruth(DmnEmit(f)) = DmnTruth(f)  BY <2>2, EmitEffect DEF DmnTruth
  <2> QED  BY <2>2, <2>3, <2>4, EmitEffect DEF DmnKept
<1> QED  BY <1>1, <1>2

\* The frame is announced and the line keyed, once.
LEMMA StartTxEffect ==
    ASSUME DmnAssumption,
           NEW d \in DmnRecords, NEW ok \in BOOLEAN, NEW e, e = DmnStartTx(d, ok)
    PROVE  /\ e \in DmnRecords /\ DmnKept(d, e)
           /\ e.mirror = DmnTruth(e)
           /\ e.base = d.base /\ e.l = d.l
           /\ e.active /\ e.ptt /\ e.left = DmnBlocks
           /\ DmnObeys(d) => DmnObeys(e)
<1> DEFINE f == [d EXCEPT !.active = TRUE, !.left = DmnBlocks]
           sent == DmnEmit(f)
<1>1. /\ f \in DmnRecords /\ DmnKept(d, f) /\ f.base = d.base /\ f.l = d.l
      /\ f.active /\ f.left = DmnBlocks /\ f.ptt = d.ptt /\ f.line = d.line
      /\ f.refused = d.refused
  <2>1. DmnBlocks \in 0..DmnBlocks  BY DEF DmnAssumption
  <2> QED  BY <2>1 DEF DmnRecords, DmnKept
<1> HIDE DEF f
<1>2. /\ sent \in DmnRecords /\ DmnKept(d, sent) /\ sent.base = d.base /\ sent.l = d.l
      /\ sent.active /\ sent.left = DmnBlocks /\ sent.ptt = d.ptt /\ sent.line = d.line
      /\ sent.refused = d.refused /\ sent.mirror = DmnTruth(f)
  BY <1>1, EmitEffect DEF DmnKept
<1>3. sent.mirror = DmnTruth(sent)
  BY <1>1, <1>2, EmitEffect DEF DmnTruth
<1>4. CASE d.ptt
  <2>1. e = sent  BY <1>4 DEF DmnStartTx, f
  <2> HIDE DEF sent
  <2> QED  BY <1>2, <1>3, <1>4, <2>1 DEF DmnObeys
<1>5. CASE ~d.ptt
  <2> DEFINE k == DmnSetPtt([sent EXCEPT !.ptt = TRUE], TRUE, ok)
  <2>1. e = DmnEmit(k)  BY <1>5 DEF DmnStartTx, f
  <2> HIDE DEF sent
  <2>2. /\ k \in DmnRecords /\ DmnKept(d, k) /\ k.base = d.base /\ k.l = d.l
        /\ k.active /\ k.left = DmnBlocks /\ k.ptt /\ DmnObeys(k)
    <3> DEFINE p == [sent EXCEPT !.ptt = TRUE]
    <3>1. /\ p \in DmnRecords /\ DmnKept(d, p) /\ p.base = d.base /\ p.l = d.l
          /\ p.active /\ p.left = DmnBlocks /\ p.ptt /\ p.line = d.line /\ p.refused = d.refused
      BY <1>2 DEF DmnRecords, DmnKept
    <3> HIDE DEF p
    <3>2. k = [p EXCEPT !.line = IF ok THEN TRUE ELSE @, !.refused = @ \/ ~ok]
      BY DEF DmnSetPtt, p
    <3>3. CASE ok
      <4>0. (p.refused \/ ~ok) = p.refused  BY <3>1, <3>3 DEF DmnRecords
      <4>1. k = [p EXCEPT !.line = TRUE, !.refused = p.refused]  BY <3>2, <3>3, <4>0
      <4> HIDE DEF k
      <4> QED  BY <3>1, <4>1 DEF DmnRecords, DmnKept, DmnObeys
    <3>4. CASE ~ok
      <4>1. k = [p EXCEPT !.line = p.line, !.refused = TRUE]  BY <3>2, <3>4
      <4> HIDE DEF k
      <4> QED  BY <3>1, <4>1 DEF DmnRecords, DmnKept, DmnObeys
    <3> QED  BY <3>3, <3>4
  <2> HIDE DEF k
  <2>3. DmnTruth(DmnEmit(k)) = DmnTruth(k)  BY <2>2, EmitEffect DEF DmnTruth
  <2>4. /\ DmnEmit(k) \in DmnRecords /\ DmnKept(k, DmnEmit(k))
        /\ DmnEmit(k).mirror = DmnTruth(k)
        /\ DmnEmit(k).base = k.base /\ DmnEmit(k).l = k.l /\ DmnEmit(k).active = k.active
        /\ DmnEmit(k).left = k.left /\ DmnEmit(k).ptt = k.ptt
        /\ DmnEmit(k).line = k.line /\ DmnEmit(k).refused = k.refused
    BY <2>2, EmitEffect
  <2>5. DmnKept(d, e)  BY <2>1, <2>2, <2>4 DEF DmnKept
  <2>6. DmnObeys(e)  BY <2>1, <2>2, <2>4 DEF DmnObeys
  <2> QED  BY <2>1, <2>2, <2>3, <2>4, <2>5, <2>6
<1> QED  BY <1>4, <1>5

\* The heart of the matter.  One step of the link: the radio is keyed if it
\* sent, and the mirror is right, even if it showed something else than the
\* last announcement, as long as the queue is shorter than was announced.
LEMMA PerformEffect ==
    ASSUME DmnAssumption,
           NEW d \in DmnRecords, NEW o \in DmnOutcomes, NEW ok \in BOOLEAN,
           NEW e, e = DmnPerform(d, o, ok), DmnShows(d),
           DmnShowsBase(d) \/ o.l.tx < d.base[4]
    PROVE  /\ e \in DmnRecords /\ DmnKept(d, e)
           /\ e.mirror = DmnTruth(e)
           /\ e.base = DmnObservable(e.l) /\ e.l = o.l
           /\ e.active = (d.active \/ o.sends) /\ e.ptt = (d.ptt \/ o.sends)
           /\ e.left = IF o.sends THEN DmnBlocks ELSE d.left
           /\ DmnObeys(d) => DmnObeys(e)
<1> DEFINE s == [d EXCEPT !.l = o.l]
           t == IF o.sends THEN DmnStartTx(s, ok) ELSE s
<1>1. /\ s \in DmnRecords /\ DmnKept(d, s) /\ s.base = d.base /\ s.l = o.l
      /\ s.active = d.active /\ s.left = d.left /\ s.ptt = d.ptt /\ s.line = d.line
      /\ s.refused = d.refused /\ s.mirror = d.mirror /\ s.busy = d.busy
      /\ s.sn = d.sn /\ s.quality = d.quality
  <2>1. o.l \in DmnLinks  BY DEF DmnOutcomes
  <2> QED  BY <2>1 DEF DmnRecords, DmnKept
<1>2. e = DmnDiffs(t)  BY DEF DmnPerform
<1> HIDE DEF s
<1>3. /\ t \in DmnRecords /\ DmnKept(d, t) /\ t.base = d.base /\ t.l = o.l
      /\ t.active = (d.active \/ o.sends) /\ t.ptt = (d.ptt \/ o.sends)
      /\ t.left = IF o.sends THEN DmnBlocks ELSE d.left
      /\ DmnObeys(d) => DmnObeys(t)
      /\ DmnShows(t)
      /\ DmnShowsBase(t) \/ t.base # DmnObservable(t.l) \/ t.mirror = DmnTruth(t)
  <2>0. o.sends \in BOOLEAN  BY DEF DmnOutcomes
  <2>1. CASE o.sends
    <3>1. t = DmnStartTx(s, ok)  BY <2>1
    <3> HIDE DEF t
    <3>2. /\ t \in DmnRecords /\ DmnKept(s, t) /\ t.mirror = DmnTruth(t)
          /\ t.base = s.base /\ t.l = s.l /\ t.active /\ t.ptt /\ t.left = DmnBlocks
          /\ DmnObeys(s) => DmnObeys(t)
      BY <1>1, <3>1, StartTxEffect
    <3>3. DmnShows(t)  BY <3>2, TruthShows
    <3>4. /\ t.active = (d.active \/ o.sends) /\ t.ptt = (d.ptt \/ o.sends)
      BY <2>1, <3>2 DEF DmnRecords
    <3> QED  BY <1>1, <2>1, <3>2, <3>3, <3>4 DEF DmnKept, DmnObeys
  <2>2. CASE ~o.sends
    <3>1. t = s  BY <2>2
    <3> HIDE DEF t
    <3>2. /\ t.active = (d.active \/ o.sends) /\ t.ptt = (d.ptt \/ o.sends)
      BY <1>1, <2>2, <3>1 DEF DmnRecords
    <3>3. DmnShows(t)  BY <1>1, <3>1 DEF DmnShows
    <3>4. DmnShowsBase(d) => DmnShowsBase(t)  BY <1>1, <3>1 DEF DmnShowsBase
    <3>5. o.l.tx < d.base[4] => t.base # DmnObservable(t.l)
      <4>1. o.l.tx \in Nat  BY DEF DmnOutcomes, DmnLinks
      <4>2. DmnObservable(t.l)[4] = o.l.tx  BY <1>1, <3>1 DEF DmnObservable
      <4> QED  BY <1>1, <3>1, <4>1, <4>2
    <3> QED  BY <1>1, <2>2, <3>1, <3>2, <3>3, <3>4, <3>5 DEF DmnObeys
  <2> QED  BY <2>0, <2>1, <2>2
<1> HIDE DEF t
<1> QED  BY <1>2, <1>3, DiffsEffect DEF DmnKept, DmnObeys

-----------------------------------------------------------------------------
(* The invariant. *)

\* Between two acts of the loop: the radio is keyed while a frame is sent, and
\* the mirror is right but for a queue that was emptied behind its back.
DmnQuiet(d) ==
    /\ d.ptt = d.active /\ DmnObeys(d)
    /\ DmnShows(d) /\ DmnShowsBase(d)
    /\ d.base = DmnObservable(d.l) \/ d.l.tx < d.base[4]

\* The call of a client that was seen needs that client.
DmnCallHeld(d) == d.l.st = "CALL" /\ d.caller = "seen" => d.was

DmnInv ==
    /\ DmnTypes
    /\ dmnPc \in {"poll", "block", "fault"} =>
          DmnQuiet(dmn) /\ DmnCallHeld(dmn) /\ dmn.was = dmnEnv.client
    /\ DmnSilentAtEnd
    /\ DmnMirrorTrue

\* A step of the link leaves the loop quiet, and a call as it was.
LEMMA StepQuiet ==
    ASSUME DmnAssumption,
           NEW d \in DmnRecords, NEW o \in DmnOutcomes, NEW ok \in BOOLEAN,
           NEW e, e = DmnPerform(d, o, ok), DmnShows(d),
           DmnShowsBase(d) \/ o.l.tx < d.base[4],
           d.ptt = d.active, DmnObeys(d)
    PROVE  DmnQuiet(e) /\ e.mirror = DmnTruth(e)
<1>1. /\ e \in DmnRecords /\ e.mirror = DmnTruth(e) /\ e.base = DmnObservable(e.l)
      /\ e.active = (d.active \/ o.sends) /\ e.ptt = (d.ptt \/ o.sends) /\ DmnObeys(e)
  BY PerformEffect
<1>2. DmnShows(e) /\ DmnShowsBase(e)
  BY <1>1, TruthShows DEF DmnShowsBase
<1> QED  BY <1>1, <1>2 DEF DmnQuiet

\* What the loop notes of its client and its block is not part of the picture.
LEMMA NotesKeepQuiet ==
    ASSUME NEW d \in DmnRecords, NEW h \in BOOLEAN, NEW w \in BOOLEAN,
           NEW c \in {"none", "unseen", "seen"}, DmnQuiet(d)
    PROVE  /\ [d EXCEPT !.heard = h] \in DmnRecords /\ DmnQuiet([d EXCEPT !.heard = h])
           /\ [d EXCEPT !.caller = c] \in DmnRecords /\ DmnQuiet([d EXCEPT !.caller = c])
           /\ [d EXCEPT !.was = w, !.caller = c] \in DmnRecords
           /\ DmnQuiet([d EXCEPT !.was = w, !.caller = c])
<1>1. ASSUME NEW e, e.ptt = d.ptt, e.active = d.active, e.refused = d.refused,
             e.line = d.line, e.mirror = d.mirror, e.busy = d.busy, e.sn = d.sn,
             e.quality = d.quality, e.base = d.base, e.l = d.l
      PROVE  DmnQuiet(e)
  BY <1>1 DEF DmnQuiet, DmnObeys, DmnShows, DmnShowsBase
<1>2. [d EXCEPT !.heard = h] \in DmnRecords /\ DmnQuiet([d EXCEPT !.heard = h])
  <2> DEFINE e == [d EXCEPT !.heard = h]
  <2>1. /\ e \in DmnRecords
        /\ e.ptt = d.ptt /\ e.active = d.active /\ e.refused = d.refused
        /\ e.line = d.line /\ e.mirror = d.mirror /\ e.busy = d.busy /\ e.sn = d.sn
        /\ e.quality = d.quality /\ e.base = d.base /\ e.l = d.l
    BY DEF DmnRecords
  <2> HIDE DEF e
  <2>2. DmnQuiet(e)  BY <1>1, <2>1
  <2> QED  BY <2>1, <2>2 DEF e
<1>3. [d EXCEPT !.caller = c] \in DmnRecords /\ DmnQuiet([d EXCEPT !.caller = c])
  <2> DEFINE e == [d EXCEPT !.caller = c]
  <2>1. /\ e \in DmnRecords
        /\ e.ptt = d.ptt /\ e.active = d.active /\ e.refused = d.refused
        /\ e.line = d.line /\ e.mirror = d.mirror /\ e.busy = d.busy /\ e.sn = d.sn
        /\ e.quality = d.quality /\ e.base = d.base /\ e.l = d.l
    BY DEF DmnRecords
  <2> HIDE DEF e
  <2>2. DmnQuiet(e)  BY <1>1, <2>1
  <2> QED  BY <2>1, <2>2 DEF e
<1>4. /\ [d EXCEPT !.was = w, !.caller = c] \in DmnRecords
      /\ DmnQuiet([d EXCEPT !.was = w, !.caller = c])
  <2> DEFINE e == [d EXCEPT !.was = w, !.caller = c]
  <2>1. /\ e \in DmnRecords
        /\ e.ptt = d.ptt /\ e.active = d.active /\ e.refused = d.refused
        /\ e.line = d.line /\ e.mirror = d.mirror /\ e.busy = d.busy /\ e.sn = d.sn
        /\ e.quality = d.quality /\ e.base = d.base /\ e.l = d.l
    BY DEF DmnRecords
  <2> HIDE DEF e
  <2>2. DmnQuiet(e)  BY <1>1, <2>1
  <2> QED  BY <2>1, <2>2 DEF e
<1> QED  BY <1>2, <1>3, <1>4

LEMMA HeardKeepsQuiet ==
    ASSUME NEW d \in DmnRecords, NEW h \in BOOLEAN, DmnQuiet(d)
    PROVE  [d EXCEPT !.heard = h] \in DmnRecords /\ DmnQuiet([d EXCEPT !.heard = h])
<1>1. d.was \in BOOLEAN /\ d.caller \in {"none", "unseen", "seen"}  BY DEF DmnRecords
<1> QED  BY <1>1, NotesKeepQuiet

\* A line of the client.  One that places a call marks it as not yet seen.
LEMMA CommandEffect ==
    ASSUME DmnAssumption,
           NEW d \in DmnRecords, NEW c \in DmnLine, NEW mode \in DmnModes, NEW ok \in BOOLEAN,
           NEW e \in DmnCommand(d, c, mode, ok), DmnQuiet(d), DmnCallHeld(d)
    PROVE  e \in DmnRecords /\ DmnQuiet(e) /\ DmnCallHeld(e) /\ e.was = d.was
<1>0. d.l \in DmnLinks /\ d.l.tx \in Nat /\ d.caller \in {"none", "unseen", "seen"}
  BY DEF DmnRecords, DmnLinks
<1>1. CASE c = "BUFFER0"
  <2> DEFINE l == [d.l EXCEPT !.tx = 0]
  <2>1. e = [d EXCEPT !.l = l]
    <3>1. e = [d EXCEPT !.l.tx = 0]  BY <1>1 DEF DmnCommand
    <3> QED  BY <3>1
  <2>2. l \in DmnLinks /\ l.st = d.l.st /\ l.mode = d.l.mode /\ l.bw = d.l.bw /\ l.tx = 0
    BY <1>0 DEF DmnLinks
  <2> HIDE DEF l
  <2>3. /\ e \in DmnRecords /\ DmnKept(d, e) /\ e.l = l
        /\ e.ptt = d.ptt /\ e.active = d.active /\ e.refused = d.refused
        /\ e.line = d.line /\ e.mirror = d.mirror /\ e.busy = d.busy /\ e.sn = d.sn
        /\ e.quality = d.quality /\ e.base = d.base
    BY <2>1, <2>2 DEF DmnRecords, DmnKept
  <2>4. e.base = DmnObservable(e.l) \/ e.l.tx < e.base[4]
    <3>1. CASE d.base = DmnObservable(d.l)
      <4>1. d.base[4] = d.l.tx  BY <3>1 DEF DmnObservable
      <4>2. CASE d.l.tx = 0
        BY <2>2, <2>3, <3>1, <4>2 DEF DmnObservable
      <4>3. CASE d.l.tx # 0
        BY <1>0, <2>2, <2>3, <4>1, <4>3
      <4> QED  BY <4>2, <4>3
    <3>2. CASE d.l.tx < d.base[4]
      <4>1. d.base[4] \in Nat  BY DEF DmnRecords
      <4> QED  BY <1>0, <2>2, <2>3, <3>2, <4>1
    <3> QED  BY <3>1, <3>2 DEF DmnQuiet
  <2>5. DmnQuiet(e)  BY <2>3, <2>4 DEF DmnQuiet, DmnObeys, DmnShows, DmnShowsBase
  <2>6. DmnCallHeld(e)  BY <2>2, <2>3 DEF DmnCallHeld, DmnKept
  <2> QED  BY <2>3, <2>5, <2>6 DEF DmnKept
<1>2. CASE c # "BUFFER0"
  <2>1. PICK o \in DmnHost(d.l, c, mode) :
          e = [DmnPerform(d, o, ok) EXCEPT
                 !.caller = IF c = "ARQCALL" /\ d.l.st = "DISC" THEN "unseen" ELSE @]
    BY <1>2 DEF DmnCommand, DmnSteps
  <2>2. o \in DmnOutcomes /\ (o.l.st = "CALL" => d.l.st = "CALL" \/ (c = "ARQCALL" /\ d.l.st = "DISC"))
    BY <1>0, <1>2, <2>1, HostOutcomes
  <2> DEFINE p == DmnPerform(d, o, ok)
             q == IF c = "ARQCALL" /\ d.l.st = "DISC" THEN "unseen" ELSE p.caller
  <2>3. DmnQuiet(p)  BY <2>2, StepQuiet DEF DmnQuiet
  <2>4. p \in DmnRecords /\ DmnKept(d, p) /\ p.l = o.l
    BY <2>2, PerformEffect DEF DmnQuiet
  <2>5. e = [p EXCEPT !.caller = q]  BY <2>1
  <2>6. q \in {"none", "unseen", "seen"}  BY <1>0, <2>4 DEF DmnKept
  <2>7. q = "seen" => d.caller = "seen" /\ ~(c = "ARQCALL" /\ d.l.st = "DISC")
    BY <2>4 DEF DmnKept
  <2> HIDE DEF p, q
  <2>8. e \in DmnRecords /\ DmnQuiet(e)  BY <2>3, <2>4, <2>5, <2>6, NotesKeepQuiet
  <2>9. e.caller = q /\ e.was = d.was /\ e.l = o.l  BY <2>4, <2>5 DEF DmnRecords, DmnKept
  <2>10. DmnCallHeld(e)  BY <2>2, <2>7, <2>9 DEF DmnCallHeld
  <2> QED  BY <2>8, <2>9, <2>10
<1> QED  BY <1>1, <1>2

\* The client's coming and going: a call that was seen goes with its client.
LEMMA EdgeEffect ==
    ASSUME DmnAssumption,
           NEW d \in DmnRecords, NEW connected \in BOOLEAN, NEW ok \in BOOLEAN,
           NEW e \in DmnEdge(d, connected, ok), DmnQuiet(d), DmnCallHeld(d)
    PROVE  e \in DmnRecords /\ DmnQuiet(e) /\ DmnCallHeld(e) /\ e.was = connected
<1> DEFINE gone == d.was /\ ~connected /\ d.l.st = "CALL"
           S == IF gone THEN DmnSteps(d, DmnHost(d.l, "ABORT", "ARQ"), ok) ELSE {d}
<1>0. d.l \in DmnLinks /\ d.was \in BOOLEAN /\ d.caller \in {"none", "unseen", "seen"}
  BY DEF DmnRecords
<1>1. PICK p \in S : e = [p EXCEPT !.was = connected,
                                   !.caller = IF connected /\ @ = "unseen" THEN "seen" ELSE @]
  BY DEF DmnEdge
<1>2. /\ p \in DmnRecords /\ DmnQuiet(p) /\ DmnKept(d, p)
      /\ p.l.st = "CALL" => d.l.st = "CALL" /\ ~gone
  <2>1. CASE gone
    <3>1. PICK o \in DmnHost(d.l, "ABORT", "ARQ") : p = DmnPerform(d, o, ok)
      BY <1>1, <2>1 DEF DmnSteps
    <3>2. o \in DmnOutcomes /\ o.l.st = "DISC"
      BY <1>0, <3>1, HostOutcomes DEF DmnLine, DmnModes
    <3>3. DmnQuiet(p)  BY <3>1, <3>2, StepQuiet DEF DmnQuiet
    <3>4. p \in DmnRecords /\ DmnKept(d, p) /\ p.l = o.l
      BY <3>1, <3>2, PerformEffect DEF DmnQuiet
    <3> QED  BY <3>2, <3>3, <3>4
  <2>2. CASE ~gone
    BY <1>1, <2>2 DEF DmnKept
  <2> QED  BY <2>1, <2>2
<1> DEFINE q == IF connected /\ p.caller = "unseen" THEN "seen" ELSE p.caller
<1>3. e = [p EXCEPT !.was = connected, !.caller = q]  BY <1>1
<1>4. q \in {"none", "unseen", "seen"}  BY <1>2 DEF DmnRecords
<1>5. ~connected => q = d.caller  BY <1>2 DEF DmnKept
<1> HIDE DEF q, S
<1>6. e \in DmnRecords /\ DmnQuiet(e)  BY <1>2, <1>3, <1>4, NotesKeepQuiet
<1>7. e.was = connected /\ e.caller = q /\ e.l = p.l  BY <1>2, <1>3 DEF DmnRecords
<1>8. DmnCallHeld(e)
  BY <1>2, <1>5, <1>7 DEF DmnCallHeld
<1> QED  BY <1>6, <1>7, <1>8

\* What may stand between two steps of the link in one act: told to the
\* observers, but not yet compared with the last announcement.
DmnReady(d) ==
    /\ d.ptt = d.active /\ DmnObeys(d) /\ DmnShows(d)
    /\ DmnShowsBase(d) \/ d.l.tx < d.base[4]

LEMMA EmitReady ==
    ASSUME NEW d \in DmnRecords, d.ptt = d.active, DmnObeys(d),
           d.base = DmnObservable(d.l) \/ d.l.tx < d.base[4]
    PROVE  DmnReady(DmnEmit(d))
<1> DEFINE e == DmnEmit(d)
<1>1. /\ e \in DmnRecords /\ e.mirror = DmnTruth(d)
      /\ e.l = d.l /\ e.base = d.base /\ e.active = d.active /\ e.ptt = d.ptt
      /\ e.line = d.line /\ e.refused = d.refused /\ e.busy = d.busy
      /\ e.sn = d.sn /\ e.quality = d.quality
  BY EmitEffect
<1> HIDE DEF e
<1>2. e.mirror = DmnTruth(e)  BY <1>1 DEF DmnTruth
<1>3. DmnShows(e) /\ DmnObservable(e.l) =
         <<e.mirror.st, e.mirror.mode, e.mirror.bw, e.mirror.buffer>>
  BY <1>2, TruthShows
<1>4. DmnReady(e)
  BY <1>1, <1>3 DEF DmnReady, DmnObeys, DmnShowsBase
<1> QED  BY <1>4 DEF e

\* What is heard is told, and leaves the runtime ready for the timers.
LEMMA RxEffect ==
    ASSUME DmnAssumption,
           NEW d \in DmnRecords, NEW busy \in BOOLEAN, NEW ok \in BOOLEAN,
           NEW ev \in {"silence", "leader", "good", "bad"}, NEW x \in DmnSignal,
           NEW e \in DmnRx(d, busy, ev, x, ok), DmnQuiet(d)
    PROVE  /\ e \in DmnRecords /\ DmnReady(e) /\ DmnKept(d, e)
           /\ e.l.st = "CALL" => d.l.st = "CALL"
<1> DEFINE fed == DmnFeedBusy(d, busy)
<1>1. /\ fed \in DmnRecords /\ DmnReady(fed) /\ DmnKept(d, fed)
      /\ fed.l = d.l /\ fed.base = d.base
  <2>1. CASE d.l.st # "DISC" \/ busy = d.busy
    <3>1. fed = d  BY <2>1 DEF DmnFeedBusy
    <3> QED  BY <3>1 DEF DmnQuiet, DmnReady, DmnKept
  <2>2. CASE ~(d.l.st # "DISC" \/ busy = d.busy)
    <3> DEFINE b == [d EXCEPT !.busy = busy]
    <3>1. fed = DmnEmit(b)  BY <2>2 DEF DmnFeedBusy
    <3>2. /\ b \in DmnRecords /\ DmnKept(d, b) /\ b.ptt = d.ptt /\ b.active = d.active
          /\ b.refused = d.refused /\ b.line = d.line /\ b.base = d.base /\ b.l = d.l
      BY DEF DmnRecords, DmnKept
    <3> HIDE DEF b, fed
    <3>3. DmnReady(fed)  BY <3>1, <3>2, EmitReady DEF DmnQuiet, DmnObeys
    <3>4. /\ DmnEmit(b) \in DmnRecords /\ DmnKept(b, DmnEmit(b))
          /\ DmnEmit(b).l = b.l /\ DmnEmit(b).base = b.base
      BY <3>2, EmitEffect
    <3> QED  BY <3>1, <3>2, <3>3, <3>4 DEF DmnKept
  <2> QED  BY <2>1, <2>2
<1> HIDE DEF fed
<1>2. fed.base = DmnObservable(fed.l) \/ fed.l.tx < fed.base[4]
  BY <1>1 DEF DmnQuiet
<1>3. ASSUME NEW t \in DmnRecords, DmnKept(d, t), t.l = d.l, t.base = d.base, DmnReady(t),
             NEW o \in DmnHears(t.l), NEW p, p = DmnPerform(t, o, ok)
      PROVE  /\ p \in DmnRecords /\ DmnReady(p) /\ DmnKept(d, p)
             /\ p.l.st = "CALL" => d.l.st = "CALL"
  <2>0. t.l \in DmnLinks /\ t.l.tx \in Nat /\ t.base[4] \in Nat  BY DEF DmnRecords, DmnLinks
  <2>1. o \in DmnOutcomes /\ (o.l.st = "CALL" => d.l.st = "CALL") /\ o.l.tx <= t.l.tx
    BY <1>3, <2>0, HearsOutcomes
  <2>2. o.l.tx \in Nat  BY <2>1 DEF DmnOutcomes, DmnLinks
  <2>3. DmnShowsBase(t) \/ o.l.tx < t.base[4]
    BY <1>3, <2>0, <2>1, <2>2 DEF DmnReady
  <2>4. DmnQuiet(p)  BY <1>3, <2>1, <2>3, StepQuiet DEF DmnReady
  <2>5. p \in DmnRecords /\ DmnKept(t, p) /\ p.l = o.l
    BY <1>3, <2>1, <2>3, PerformEffect DEF DmnReady
  <2>6. DmnReady(p)  BY <2>4 DEF DmnQuiet, DmnReady
  <2> QED  BY <1>3, <2>1, <2>5, <2>6 DEF DmnKept
<1>4. ASSUME NEW b \in DmnRecords, DmnKept(fed, b), b.l = fed.l, b.base = fed.base,
             b.ptt = fed.ptt, b.active = fed.active, b.line = fed.line, b.refused = fed.refused
      PROVE  /\ DmnEmit(b) \in DmnRecords /\ DmnReady(DmnEmit(b)) /\ DmnKept(d, DmnEmit(b))
             /\ DmnEmit(b).l = d.l /\ DmnEmit(b).base = d.base
  <2>1. DmnReady(DmnEmit(b))
    BY <1>1, <1>2, <1>4, EmitReady DEF DmnReady, DmnObeys
  <2>2. /\ DmnEmit(b) \in DmnRecords /\ DmnKept(b, DmnEmit(b))
        /\ DmnEmit(b).l = b.l /\ DmnEmit(b).base = b.base
    BY EmitEffect
  <2> QED  BY <1>1, <1>4, <2>1, <2>2 DEF DmnKept
<1>5. CASE ev = "silence"
  <2>1. e = fed  BY <1>5 DEF DmnRx, fed
  <2> QED  BY <1>1, <2>1
<1>6. CASE ev = "leader"
  <2> DEFINE b == [fed EXCEPT !.sn = x]
  <2>1. e = DmnEmit(b)  BY <1>6 DEF DmnRx, fed
  <2>2. /\ b \in DmnRecords /\ DmnKept(fed, b) /\ b.l = fed.l /\ b.base = fed.base
        /\ b.ptt = fed.ptt /\ b.active = fed.active /\ b.line = fed.line /\ b.refused = fed.refused
    BY <1>1 DEF DmnRecords, DmnKept
  <2> HIDE DEF b
  <2> QED  BY <1>4, <2>1, <2>2
<1>7. CASE ev = "good"
  <2> DEFINE b == [fed EXCEPT !.quality = x]
  <2>1. PICK o \in DmnHears(DmnEmit(b).l) : e = DmnPerform(DmnEmit(b), o, ok)
    BY <1>7 DEF DmnRx, DmnSteps, fed
  <2>2. /\ b \in DmnRecords /\ DmnKept(fed, b) /\ b.l = fed.l /\ b.base = fed.base
        /\ b.ptt = fed.ptt /\ b.active = fed.active /\ b.line = fed.line /\ b.refused = fed.refused
    BY <1>1 DEF DmnRecords, DmnKept
  <2> HIDE DEF b
  <2> QED  BY <1>3, <1>4, <2>1, <2>2
<1>8. CASE ev = "bad"
  <2>1. PICK o \in DmnHears(DmnEmit(fed).l) : e = DmnPerform(DmnEmit(fed), o, ok)
    BY <1>8 DEF DmnRx, DmnSteps, fed
  <2>2. DmnKept(fed, fed)  BY DEF DmnKept
  <2> QED  BY <1>1, <1>3, <1>4, <2>1, <2>2
<1> QED  BY <1>5, <1>6, <1>7, <1>8

\* The timers' step, after what was heard.
LEMMA TimersEffect ==
    ASSUME DmnAssumption,
           NEW d \in DmnRecords, NEW ok \in BOOLEAN, NEW o \in DmnTimer(d.l),
           NEW e, e = DmnPerform(d, o, ok), DmnReady(d)
    PROVE  /\ e \in DmnRecords /\ DmnQuiet(e) /\ DmnKept(d, e)
           /\ e.mirror = DmnTruth(e)
           /\ e.l.st = "CALL" => d.l.st = "CALL"
<1>0. d.l \in DmnLinks /\ d.l.tx \in Nat /\ d.base[4] \in Nat  BY DEF DmnRecords, DmnLinks
<1>1. o \in DmnOutcomes /\ (o.l.st = "CALL" => d.l.st = "CALL") /\ o.l.tx <= d.l.tx
  BY <1>0, TimerOutcomes
<1>2. o.l.tx \in Nat  BY <1>1 DEF DmnOutcomes, DmnLinks
<1>3. DmnShowsBase(d) \/ o.l.tx < d.base[4]
  BY <1>0, <1>1, <1>2 DEF DmnReady
<1>4. DmnQuiet(e) /\ e.mirror = DmnTruth(e)  BY <1>1, <1>3, StepQuiet DEF DmnReady
<1>5. e \in DmnRecords /\ DmnKept(d, e) /\ e.l = o.l
  BY <1>1, <1>3, PerformEffect DEF DmnReady
<1> QED  BY <1>1, <1>4, <1>5

\* The line at the end of a frame: dropped, unless the link went on at once.
LEMMA PullTxEffect ==
    ASSUME DmnAssumption,
           NEW d \in DmnRecords, NEW ok \in BOOLEAN, NEW e \in DmnPullTx(d, ok),
           d.active, DmnQuiet(d)
    PROVE  /\ e \in DmnRecords /\ DmnQuiet(e) /\ DmnKept(d, e)
           /\ e.l.st = "CALL" => d.l.st = "CALL"
<1>0. d.left \in Nat /\ d.left <= DmnBlocks /\ DmnBlocks \in Nat \ {0} /\ d.l \in DmnLinks
  BY DEF DmnRecords, DmnAssumption
<1>1. CASE d.left > 0
  <2>1. e = [d EXCEPT !.left = d.left - 1]  BY <1>1 DEF DmnPullTx
  <2>2. d.left - 1 \in 0..DmnBlocks  BY <1>0, <1>1
  <2>3. /\ e \in DmnRecords /\ DmnKept(d, e) /\ e.l = d.l /\ e.base = d.base
        /\ e.ptt = d.ptt /\ e.active = d.active /\ e.line = d.line /\ e.refused = d.refused
        /\ e.mirror = d.mirror /\ e.busy = d.busy /\ e.sn = d.sn /\ e.quality = d.quality
    BY <2>1, <2>2 DEF DmnRecords, DmnKept
  <2> QED  BY <2>3 DEF DmnQuiet, DmnObeys, DmnShows, DmnShowsBase
<1>2. CASE ~(d.left > 0)
  <2> DEFINE s == [d EXCEPT !.active = FALSE]
  <2>1. PICK o \in DmnTxDone(d.l) :
          e = LET p == DmnPerform(s, o, ok)
              IN  IF p.active THEN [p EXCEPT !.left = @ - 1]
                  ELSE DmnEmit(DmnSetPtt([p EXCEPT !.ptt = FALSE], FALSE, ok))
    BY <1>2 DEF DmnPullTx, DmnSteps
  <2> DEFINE p == DmnPerform(s, o, ok)
  <2>2. o \in DmnOutcomes /\ (o.l.st = "CALL" => d.l.st = "CALL")
    BY <1>0, TxDoneOutcomes
  <2>3. /\ s \in DmnRecords /\ DmnKept(d, s) /\ s.l = d.l /\ s.base = d.base
        /\ s.ptt = d.ptt /\ ~s.active /\ s.line = d.line /\ s.refused = d.refused
        /\ s.mirror = d.mirror /\ s.busy = d.busy /\ s.sn = d.sn /\ s.quality = d.quality
        /\ s.left = d.left
    BY DEF DmnRecords, DmnKept
  <2>4. DmnShows(s) /\ DmnShowsBase(s) /\ DmnObeys(s)
    BY <2>3 DEF DmnQuiet, DmnShows, DmnShowsBase, DmnObeys
  <2> HIDE DEF s
  <2>5. /\ p \in DmnRecords /\ DmnKept(s, p) /\ p.mirror = DmnTruth(p)
        /\ p.base = DmnObservable(p.l) /\ p.l = o.l
        /\ p.active = (s.active \/ o.sends) /\ p.ptt = (s.ptt \/ o.sends)
        /\ p.left = (IF o.sends THEN DmnBlocks ELSE s.left) /\ DmnObeys(p)
    BY <2>2, <2>3, <2>4, PerformEffect
  <2>6. DmnShows(p) /\ DmnShowsBase(p)
    BY <2>5, TruthShows DEF DmnShowsBase
  <2> HIDE DEF p
  <2>7. CASE p.active
    <3>1. o.sends  BY <2>3, <2>5, <2>7
    <3>2. p.left = DmnBlocks /\ p.ptt  BY <2>5, <3>1
    <3>3. e = [p EXCEPT !.left = p.left - 1]  BY <2>1, <2>7 DEF p
    <3>4. p.left - 1 \in 0..DmnBlocks  BY <1>0, <3>2
    <3>5. /\ e \in DmnRecords /\ DmnKept(p, e) /\ e.l = p.l /\ e.base = p.base
          /\ e.ptt = p.ptt /\ e.active = p.active /\ e.line = p.line /\ e.refused = p.refused
          /\ e.mirror = p.mirror /\ e.busy = p.busy /\ e.sn = p.sn /\ e.quality = p.quality
      BY <2>5, <3>3, <3>4 DEF DmnRecords, DmnKept
    <3>6. e.ptt = e.active  BY <2>5, <2>7, <3>2, <3>5 DEF DmnRecords
    <3>7. DmnQuiet(e)
      BY <2>5, <2>6, <3>5, <3>6 DEF DmnQuiet, DmnObeys, DmnShows, DmnShowsBase
    <3> QED  BY <2>2, <2>3, <2>5, <3>5, <3>7 DEF DmnKept
  <2>8. CASE ~p.active
    <3> DEFINE u == [p EXCEPT !.ptt = FALSE]
               k == DmnSetPtt(u, FALSE, ok)
    <3>1. e = DmnEmit(k)  BY <2>1, <2>8 DEF p
    <3>2. /\ u \in DmnRecords /\ DmnKept(p, u) /\ u.l = p.l /\ u.base = p.base
          /\ ~u.ptt /\ u.active = p.active /\ u.line = p.line /\ u.refused = p.refused
      BY <2>5 DEF DmnRecords, DmnKept
    <3> HIDE DEF u
    <3>3. /\ k \in DmnRecords /\ DmnKept(p, k) /\ k.l = p.l /\ k.base = p.base
          /\ ~k.ptt /\ k.active = p.active /\ DmnObeys(k)
      <4>1. CASE ok
        <5>0. (u.refused \/ ~ok) = u.refused  BY <3>2, <4>1 DEF DmnRecords
        <5>1. k = [u EXCEPT !.line = FALSE, !.refused = u.refused]
          BY <4>1, <5>0 DEF DmnSetPtt
        <5> HIDE DEF k
        <5> QED  BY <3>2, <5>1 DEF DmnRecords, DmnKept, DmnObeys
      <4>2. CASE ~ok
        <5>1. k = [u EXCEPT !.line = u.line, !.refused = TRUE]
          BY <4>2 DEF DmnSetPtt
        <5> HIDE DEF k
        <5> QED  BY <3>2, <5>1 DEF DmnRecords, DmnKept, DmnObeys
      <4> QED  BY <4>1, <4>2
    <3> HIDE DEF k
    <3>4. /\ DmnEmit(k) \in DmnRecords /\ DmnKept(k, DmnEmit(k))
          /\ DmnEmit(k).mirror = DmnTruth(k)
          /\ DmnEmit(k).base = k.base /\ DmnEmit(k).l = k.l /\ DmnEmit(k).active = k.active
          /\ DmnEmit(k).ptt = k.ptt /\ DmnEmit(k).line = k.line
          /\ DmnEmit(k).refused = k.refused /\ DmnEmit(k).busy = k.busy
          /\ DmnEmit(k).sn = k.sn /\ DmnEmit(k).quality = k.quality
      BY <3>3, EmitEffect
    <3>5. e.mirror = DmnTruth(e)  BY <3>1, <3>4 DEF DmnTruth
    <3>6. DmnShows(e) /\ DmnShowsBase(e) /\ e.base = DmnObservable(e.l)
      BY <2>5, <3>1, <3>3, <3>4, <3>5, TruthShows DEF DmnShowsBase
    <3>7. e.ptt = e.active /\ DmnObeys(e)
      BY <2>8, <3>1, <3>3, <3>4 DEF DmnRecords, DmnObeys
    <3>8. DmnQuiet(e)  BY <3>6, <3>7 DEF DmnQuiet
    <3> QED  BY <2>2, <2>3, <2>5, <3>1, <3>3, <3>4, <3>8 DEF DmnKept
  <2> QED  BY <2>7, <2>8
<1> QED  BY <1>1, <1>2

-----------------------------------------------------------------------------
(* The acts of the loop. *)

LEMMA StartQuiet ==
    ASSUME DmnAssumption
    PROVE  /\ DmnStart \in DmnRecords /\ DmnQuiet(DmnStart) /\ DmnCallHeld(DmnStart)
           /\ ~DmnStart.was /\ ~DmnStart.heard /\ ~DmnStart.line
<1> DEFINE l == [st |-> "DISC", mode |-> "ARQ", bw |-> 0, tx |-> 0, armed |-> FALSE, reps |-> 0]
           m == [st |-> "DISC", mode |-> "ARQ", bw |-> 0, buffer |-> 0,
                 busy |-> FALSE, ptt |-> FALSE, sn |-> 0, quality |-> 0]
<1>1. l \in DmnLinks /\ m \in DmnMirrors
  BY DEF DmnLinks, DmnMirrors, DmnStates, DmnModes
<1>2. DmnObservable(l) = <<m.st, m.mode, m.bw, m.buffer>>
  BY DEF DmnObservable
<1>3. DmnObservable(l) \in DmnStates \X DmnModes \X (0..2) \X Nat
  BY DEF DmnObservable, DmnStates, DmnModes
<1>4. m.busy = FALSE /\ m.ptt = FALSE /\ m.sn = 0 /\ m.quality = 0 /\ l.st = "DISC"
  OBVIOUS
<1> DEFINE s == [l |-> l, base |-> DmnObservable(l), active |-> FALSE, left |-> 0, ptt |-> FALSE,
                 line |-> FALSE, refused |-> FALSE, busy |-> FALSE, sn |-> 0, quality |-> 0,
                 heard |-> FALSE, was |-> FALSE, caller |-> "none", mirror |-> m]
<1>5. DmnStart = s  BY DEF DmnStart
<1> HIDE DEF l, m
<1>6. 0 \in 0..DmnBlocks  BY DEF DmnAssumption
<1>7. s \in DmnRecords  BY <1>1, <1>3, <1>6 DEF DmnRecords
<1>8. DmnQuiet(s)  BY <1>2, <1>4 DEF DmnQuiet, DmnObeys, DmnShows, DmnShowsBase
<1>9. DmnCallHeld(s)  BY DEF DmnCallHeld
<1> QED  BY <1>5, <1>7, <1>8, <1>9

DmnSpec == (DmnInit \/ DmnOff) /\ [][DmnNext]_dmnVars

LEMMA InitInv ==
    ASSUME DmnAssumption, DmnInit \/ DmnOff
    PROVE  DmnInv
<1>1. CASE DmnOff
  <2>1. dmn \in DmnRecords /\ ~dmn.heard /\ ~dmn.line  BY <1>1, StartQuiet DEF DmnOff
  <2>2. dmnPc = "over"  BY <1>1 DEF DmnOff
  <2>3. dmnEnv \in [stop : BOOLEAN, fault : BOOLEAN, client : BOOLEAN, visits : Nat, lines : Nat]
    BY <1>1 DEF DmnOff
  <2> QED  BY <2>1, <2>2, <2>3 DEF DmnInv, DmnTypes, DmnPlaces, DmnSilentAtEnd, DmnMirrorTrue
<1>2. CASE DmnInit
  <2>1. dmnPc = "poll"  BY <1>2 DEF DmnInit
  <2>2. /\ dmnEnv \in [stop : BOOLEAN, fault : BOOLEAN, client : BOOLEAN, visits : Nat, lines : Nat]
        /\ dmnEnv.client = FALSE
    BY <1>2 DEF DmnInit, DmnAssumption
  <2>3. dmn \in DmnRecords /\ DmnQuiet(dmn) /\ DmnCallHeld(dmn) /\ dmn.was = FALSE
    <3>1. CASE dmn = DmnStart
      BY <3>1, StartQuiet DEF DmnRecords
    <3>2. CASE dmn \in DmnSteps(DmnStart, DmnHost(DmnStart.l, "SENDID", "ARQ"), TRUE)
      <4>1. PICK o \in DmnHost(DmnStart.l, "SENDID", "ARQ") : dmn = DmnPerform(DmnStart, o, TRUE)
        BY <3>2 DEF DmnSteps
      <4>2. o \in DmnOutcomes /\ (o.l.st = "CALL" => DmnStart.l.st = "CALL")
        BY StartQuiet, HostOutcomes DEF DmnRecords, DmnLine, DmnModes
      <4>0. /\ DmnStart \in DmnRecords /\ DmnStart.ptt = DmnStart.active /\ DmnObeys(DmnStart)
            /\ DmnShows(DmnStart) /\ DmnShowsBase(DmnStart)
        BY StartQuiet DEF DmnQuiet
      <4>3. DmnQuiet(dmn)  BY <4>0, <4>1, <4>2, StepQuiet
      <4>4. dmn \in DmnRecords /\ DmnKept(DmnStart, dmn) /\ dmn.l = o.l
        BY <4>1, <4>2, StartQuiet, PerformEffect DEF DmnQuiet
      <4> QED  BY <4>2, <4>3, <4>4, StartQuiet DEF DmnCallHeld, DmnKept, DmnRecords
    <3> QED  BY <1>2, <3>1, <3>2 DEF DmnInit
  <2> QED  BY <2>1, <2>2, <2>3 DEF DmnInv, DmnTypes, DmnPlaces, DmnSilentAtEnd, DmnMirrorTrue
<1> QED  BY <1>1, <1>2

LEMMA ServiceInv ==
    ASSUME DmnAssumption, DmnInv,
           NEW arrives \in BOOLEAN, NEW leaves \in BOOLEAN, NEW ok \in BOOLEAN,
           NEW c \in DmnLine \cup {"none"}, NEW mode \in DmnModes,
           DmnService(arrives, leaves, c, mode, ok)
    PROVE  DmnInv'
<1> DEFINE here == dmnEnv.client \/ arrives
           connected == here /\ ~leaves
<1>1. /\ dmnPc = "poll" /\ dmnPc' = "block"
      /\ arrives => dmnEnv.visits > 0
      /\ c # "none" => dmnEnv.lines > 0
      /\ dmnEnv' = [dmnEnv EXCEPT !.client = connected,
                                  !.visits = IF arrives THEN @ - 1 ELSE @,
                                  !.lines = IF c # "none" THEN @ - 1 ELSE @]
  BY DEF DmnService
<1>2. /\ dmn \in DmnRecords /\ DmnQuiet(dmn) /\ DmnCallHeld(dmn)
      /\ dmnEnv \in [stop : BOOLEAN, fault : BOOLEAN, client : BOOLEAN, visits : Nat, lines : Nat]
  BY <1>1 DEF DmnInv, DmnTypes
<1>3. PICK d \in IF c = "none" THEN {dmn} ELSE DmnCommand(dmn, c, mode, ok) :
        dmn' \in DmnEdge(d, connected, ok)
  BY DEF DmnService
<1>4. d \in DmnRecords /\ DmnQuiet(d) /\ DmnCallHeld(d)
  <2>1. CASE c = "none"
    BY <1>2, <1>3, <2>1
  <2>2. CASE c # "none"
    <3>1. c \in DmnLine /\ d \in DmnCommand(dmn, c, mode, ok)  BY <1>3, <2>2
    <3> QED  BY <1>2, <3>1, CommandEffect
  <2> QED  BY <2>1, <2>2
<1>5. connected \in BOOLEAN  OBVIOUS
<1>6. dmn' \in DmnRecords /\ DmnQuiet(dmn') /\ DmnCallHeld(dmn') /\ dmn'.was = connected
  <2> HIDE DEF connected
  <2> QED  BY <1>3, <1>4, <1>5, EdgeEffect
<1>7. /\ dmnEnv' \in [stop : BOOLEAN, fault : BOOLEAN, client : BOOLEAN, visits : Nat, lines : Nat]
      /\ dmnEnv'.client = connected
  <2> DEFINE v == IF arrives THEN dmnEnv.visits - 1 ELSE dmnEnv.visits
             n == IF c # "none" THEN dmnEnv.lines - 1 ELSE dmnEnv.lines
  <2>1. v \in Nat /\ n \in Nat  BY <1>1, <1>2
  <2>2. dmnEnv' = [dmnEnv EXCEPT !.client = connected, !.visits = v, !.lines = n]
    BY <1>1
  <2> HIDE DEF v, n, connected
  <2> QED  BY <1>2, <1>5, <2>1, <2>2
<1> HIDE DEF connected
<1> QED  BY <1>1, <1>6, <1>7 DEF DmnInv, DmnTypes, DmnPlaces, DmnSilentAtEnd, DmnMirrorTrue

LEMMA ServeTxInv ==
    ASSUME DmnAssumption, DmnInv, NEW ok \in BOOLEAN, DmnServeTx(ok)
    PROVE  DmnInv'
<1>1. /\ dmnPc = "block" /\ dmnPc' = "fault" /\ dmn.active /\ dmnEnv' = dmnEnv
  BY DEF DmnServeTx
<1>2. dmn \in DmnRecords /\ DmnQuiet(dmn) /\ DmnCallHeld(dmn) /\ dmn.was = dmnEnv.client
  BY <1>1 DEF DmnInv, DmnTypes
<1>3. PICK d \in DmnPullTx(dmn, ok) : dmn' = [d EXCEPT !.heard = FALSE]
  BY DEF DmnServeTx
<1>4. d \in DmnRecords /\ DmnQuiet(d) /\ DmnKept(dmn, d) /\ (d.l.st = "CALL" => dmn.l.st = "CALL")
  BY <1>1, <1>2, PullTxEffect
<1>5. dmn' \in DmnRecords /\ DmnQuiet(dmn')
  BY <1>3, <1>4, HeardKeepsQuiet
<1>6. dmn'.heard = FALSE /\ dmn'.was = dmn.was /\ dmn'.caller = dmn.caller /\ dmn'.l = d.l
  BY <1>3, <1>4 DEF DmnRecords, DmnKept
<1>7. DmnCallHeld(dmn')  BY <1>2, <1>4, <1>6 DEF DmnCallHeld
<1> QED  BY <1>1, <1>2, <1>5, <1>6, <1>7
         DEF DmnInv, DmnTypes, DmnPlaces, DmnSilentAtEnd, DmnMirrorTrue

LEMMA ServeRxInv ==
    ASSUME DmnAssumption, DmnInv, NEW n \in {0, 1}, NEW busy \in BOOLEAN, NEW ok \in BOOLEAN,
           NEW ev \in {"silence", "leader", "good", "bad"}, NEW x \in DmnSignal,
           DmnServeRx(n, busy, ev, x, ok)
    PROVE  DmnInv'
<1>1. /\ dmnPc = "block" /\ dmnPc' = "fault" /\ ~dmn.active /\ dmnEnv' = dmnEnv
  BY DEF DmnServeRx
<1>2. dmn \in DmnRecords /\ DmnQuiet(dmn) /\ DmnCallHeld(dmn) /\ dmn.was = dmnEnv.client
  BY <1>1 DEF DmnInv, DmnTypes
<1>3. PICK d \in IF n = 0 THEN {dmn} ELSE DmnRx(dmn, busy, ev, x, ok) :
        \E e \in DmnSteps(d, DmnTimer(d.l), ok) : dmn' = [e EXCEPT !.heard = TRUE]
  BY DEF DmnServeRx
<1>4. d \in DmnRecords /\ DmnReady(d) /\ DmnKept(dmn, d) /\ (d.l.st = "CALL" => dmn.l.st = "CALL")
  <2>1. CASE n = 0
    BY <1>2, <1>3, <2>1 DEF DmnQuiet, DmnReady, DmnKept
  <2>2. CASE n # 0
    <3>1. d \in DmnRx(dmn, busy, ev, x, ok)  BY <1>3, <2>2
    <3> QED  BY <1>2, <3>1, RxEffect
  <2> QED  BY <2>1, <2>2
<1>5. PICK o \in DmnTimer(d.l) : dmn' = [DmnPerform(d, o, ok) EXCEPT !.heard = TRUE]
  BY <1>3 DEF DmnSteps
<1> DEFINE e == DmnPerform(d, o, ok)
<1>6. /\ e \in DmnRecords /\ DmnQuiet(e) /\ DmnKept(d, e) /\ e.mirror = DmnTruth(e)
      /\ e.l.st = "CALL" => d.l.st = "CALL"
  BY <1>4, TimersEffect
<1>7. dmn' = [e EXCEPT !.heard = TRUE]  BY <1>5
<1> HIDE DEF e
<1>8. dmn' \in DmnRecords /\ DmnQuiet(dmn')  BY <1>6, <1>7, HeardKeepsQuiet
<1>9. /\ dmn'.was = dmn.was /\ dmn'.caller = dmn.caller /\ dmn'.l = e.l
      /\ dmn'.mirror = e.mirror /\ dmn'.busy = e.busy /\ dmn'.ptt = e.ptt
      /\ dmn'.sn = e.sn /\ dmn'.quality = e.quality
  BY <1>4, <1>6, <1>7 DEF DmnRecords, DmnKept
<1>10. dmn'.mirror = DmnTruth(dmn')  BY <1>6, <1>9 DEF DmnTruth
<1>11. DmnCallHeld(dmn')  BY <1>2, <1>4, <1>6, <1>9 DEF DmnCallHeld
<1> QED  BY <1>1, <1>2, <1>8, <1>9, <1>10, <1>11
         DEF DmnInv, DmnTypes, DmnPlaces, DmnSilentAtEnd, DmnMirrorTrue

LEMMA FaultCheckInv ==
    ASSUME DmnAssumption, DmnInv, NEW ok \in BOOLEAN, DmnFaultCheck(ok)
    PROVE  DmnInv'
<1>1. dmnPc = "fault" /\ dmnEnv' = dmnEnv
  BY DEF DmnFaultCheck
<1>2. dmn \in DmnRecords /\ DmnQuiet(dmn) /\ DmnCallHeld(dmn) /\ dmn.was = dmnEnv.client
  BY <1>1 DEF DmnInv, DmnTypes
<1>3. CASE dmnEnv.fault \/ dmn.refused
  <2>1. PICK d \in DmnSteps(dmn, DmnHost(dmn.l, "DISCONNECT", "ARQ"), ok) :
          dmn' = DmnSetPtt(d, FALSE, ok)
    BY <1>3 DEF DmnFaultCheck
  <2>2. PICK o \in DmnHost(dmn.l, "DISCONNECT", "ARQ") : d = DmnPerform(dmn, o, ok)
    BY <2>1 DEF DmnSteps
  <2>3. o \in DmnOutcomes
    BY <1>2, HostOutcomes DEF DmnRecords, DmnLine, DmnModes
  <2>4. d \in DmnRecords  BY <1>2, <2>2, <2>3, PerformEffect DEF DmnQuiet
  <2>5. dmn' \in DmnRecords
    <3>1. (d.refused \/ ~ok) \in BOOLEAN /\ (IF ok THEN FALSE ELSE d.line) \in BOOLEAN
      BY <2>4 DEF DmnRecords
    <3> QED  BY <2>1, <2>4, <3>1 DEF DmnSetPtt, DmnRecords
  <2>6. dmnPc' = "closing"  BY <1>3 DEF DmnFaultCheck
  <2> QED  BY <1>1, <2>5, <2>6
           DEF DmnInv, DmnTypes, DmnPlaces, DmnSilentAtEnd, DmnMirrorTrue
<1>4. CASE ~(dmnEnv.fault \/ dmn.refused)
  <2>1. dmnPc' = "poll" /\ dmn' = dmn  BY <1>4 DEF DmnFaultCheck
  <2> QED  BY <1>1, <1>2, <2>1
           DEF DmnInv, DmnTypes, DmnPlaces, DmnSilentAtEnd, DmnMirrorTrue
<1> QED  BY <1>3, <1>4

LEMMA CloseInv ==
    ASSUME DmnAssumption, DmnInv, NEW ok \in BOOLEAN, DmnClose(ok)
    PROVE  DmnInv'
<1>1. /\ dmnPc = "closing" /\ dmnPc' = "over"
      /\ dmn' = (IF dmn.line /\ ~dmn.refused THEN DmnSetPtt(dmn, FALSE, ok) ELSE dmn)
      /\ dmnEnv' = [dmnEnv EXCEPT !.client = FALSE]
  BY DEF DmnClose
<1>2. /\ dmn \in DmnRecords
      /\ dmnEnv \in [stop : BOOLEAN, fault : BOOLEAN, client : BOOLEAN, visits : Nat, lines : Nat]
  BY DEF DmnInv, DmnTypes
<1>3. dmnEnv' \in [stop : BOOLEAN, fault : BOOLEAN, client : BOOLEAN, visits : Nat, lines : Nat]
  BY <1>1, <1>2
<1>4. dmn' \in DmnRecords /\ (~dmn'.refused => ~dmn'.line)
  <2>1. CASE dmn.line /\ ~dmn.refused
    <3>1. dmn' = [dmn EXCEPT !.line = IF ok THEN FALSE ELSE @, !.refused = @ \/ ~ok]
      BY <1>1, <2>1 DEF DmnSetPtt
    <3>2. CASE ok
      <4>1. (dmn.refused \/ ~ok) = FALSE  BY <2>1, <3>2
      <4>2. dmn' = [dmn EXCEPT !.line = FALSE, !.refused = FALSE]  BY <3>1, <3>2, <4>1
      <4> QED  BY <1>2, <4>2 DEF DmnRecords
    <3>3. CASE ~ok
      <4>1. dmn' = [dmn EXCEPT !.line = dmn.line, !.refused = TRUE]  BY <3>1, <3>3
      <4> QED  BY <1>2, <4>1 DEF DmnRecords
    <3> QED  BY <3>2, <3>3
  <2>2. CASE ~(dmn.line /\ ~dmn.refused)
    BY <1>1, <1>2, <2>2
  <2> QED  BY <2>1, <2>2
<1> QED  BY <1>1, <1>3, <1>4 DEF DmnInv, DmnTypes, DmnPlaces, DmnSilentAtEnd, DmnMirrorTrue

LEMMA WorldInv ==
    ASSUME DmnInv, DmnStopped \/ DmnSignals \/ DmnDeviceFails \/ UNCHANGED dmnVars
    PROVE  DmnInv'
<1> USE DEF DmnInv, DmnTypes, DmnPlaces, DmnSilentAtEnd, DmnMirrorTrue
<1>1. CASE DmnStopped
  BY <1>1 DEF DmnStopped
<1>2. CASE DmnSignals
  <2>1. /\ dmn' = dmn /\ dmnPc' = dmnPc /\ dmnEnv'.client = dmnEnv.client
        /\ dmnEnv' \in [stop : BOOLEAN, fault : BOOLEAN, client : BOOLEAN, visits : Nat, lines : Nat]
    BY <1>2 DEF DmnSignals
  <2> QED  BY <2>1
<1>3. CASE DmnDeviceFails
  <2>1. /\ dmn' = dmn /\ dmnPc' = dmnPc /\ dmnEnv'.client = dmnEnv.client
        /\ dmnEnv' \in [stop : BOOLEAN, fault : BOOLEAN, client : BOOLEAN, visits : Nat, lines : Nat]
    BY <1>3 DEF DmnDeviceFails
  <2> QED  BY <2>1
<1>4. CASE UNCHANGED dmnVars
  BY <1>4 DEF dmnVars
<1> QED  BY <1>1, <1>2, <1>3, <1>4

\* The invariant holds throughout.
THEOREM DaemonInvariant == ASSUME DmnAssumption PROVE DmnSpec => []DmnInv
<1>1. DmnInit \/ DmnOff => DmnInv  BY InitInv
<1>2. DmnInv /\ [DmnNext]_dmnVars => DmnInv'
  BY ServiceInv, ServeTxInv, ServeRxInv, FaultCheckInv, CloseInv, WorldInv DEF DmnNext
<1> QED  BY <1>1, <1>2, PTL DEF DmnSpec

\* Whatever is sent, heard, asked or refused, and however the program ends,
\* the transmitter is on the air exactly while a frame is being sent, and off
\* once the program is over (serve_tx, start_tx, the end of main).
THEOREM DaemonKeysRight == ASSUME DmnAssumption PROVE DmnSpec => []DmnKeysRight
<1>1. DmnInv => DmnKeysRight
  BY DEF DmnInv, DmnTypes, DmnKeysRight, DmnCarrier, DmnQuiet, DmnObeys, DmnRecords
<1> QED  BY <1>1, DaemonInvariant, PTL

\* The display is right after every block that was listened to, and no call
\* outlives a client the loop had seen (emit_state_diffs, main's edge).
THEOREM DaemonSeesClients == ASSUME DmnAssumption PROVE DmnSpec => []DmnSeesClients
<1>1. DmnInv => DmnSeesClients
  BY DEF DmnInv, DmnSeesClients, DmnNoOrphanCall, DmnCallHeld
<1> QED  BY <1>1, DaemonInvariant, PTL
-----------------------------------------------------------------------------
(* The sound device: counters in a word, and places in a ring. *)

AudWords == 0..(AudWord - 1)

\* The numbers of a ring.
LEMMA AudNumbers ==
    /\ AudCap \in Nat /\ AudCap > 0 /\ AudWord \in Nat /\ AudWord > 2 * AudCap
    /\ AudRatio \in Nat /\ AudRatio > 0 /\ AudRatio <= AudCap
    /\ AudTail \in Nat /\ AudLength \in Nat /\ AudOvers \in Nat
    /\ AudFrames \in Nat /\ AudFrames > 0 /\ AudFrames <= AudCap
  BY AudAssumption

\* A number below the divisor is what a division leaves.
LEMMA AudRest ==
    ASSUME NEW d \in Nat, d > 0, NEW q \in Int, NEW m \in Nat, m < d,
           NEW x \in Int, x = d * q + m
    PROVE  x % d = m
  OBVIOUS

\* A counter below two words wraps once.
LEMMA AudWraps ==
    ASSUME NEW x \in Nat, x < 2 * AudWord
    PROVE  /\ x % AudWord = IF x < AudWord THEN x ELSE x - AudWord
           /\ x % AudWord \in AudWords
  BY AudNumbers DEF AudWords

\* The distance of two counters, with the wrap spelled out.
LEMMA AudAvailIs ==
    ASSUME NEW w \in AudWords, NEW r \in AudWords
    PROVE  /\ AudAvail(w, r) = IF w >= r THEN w - r ELSE w - r + AudWord
           /\ AudAvail(w, r) \in AudWords
  BY AudNumbers DEF AudWords, AudAvail

\* A counter that moves by less than a word.
LEMMA AudSteps ==
    ASSUME NEW x \in AudWords, NEW k \in Nat, k < AudWord
    PROVE  /\ (x + k) % AudWord \in AudWords
           /\ (x + k) % AudWord = IF x + k < AudWord THEN x + k ELSE x + k - AudWord
  <1>1. PICK z \in Nat : z = x + k /\ z < 2 * AudWord
    BY AudNumbers DEF AudWords
  <1>2. z % AudWord \in AudWords /\ z % AudWord = IF z < AudWord THEN z ELSE z - AudWord
    BY <1>1, AudWraps
  <1>3. x \in Nat
    BY AudNumbers DEF AudWords
  <1> QED BY <1>1, <1>2, <1>3, AudNumbers

\* The writer moves on: so much more is there.
LEMMA AudAvailGrows ==
    ASSUME NEW w \in AudWords, NEW r \in AudWords, NEW k \in Nat, AudAvail(w, r) + k < AudWord
    PROVE  /\ (w + k) % AudWord \in AudWords
           /\ AudAvail((w + k) % AudWord, r) = AudAvail(w, r) + k
  <1>1. AudAvail(w, r) = (IF w >= r THEN w - r ELSE w - r + AudWord) /\ AudAvail(w, r) \in AudWords
    BY AudAvailIs
  <1>2. w \in Nat /\ w < AudWord /\ r \in Nat /\ r < AudWord
    BY AudNumbers DEF AudWords
  <1>3. PICK a \in Nat : a = AudAvail(w, r) /\ a < AudWord
    <2>1. AudAvail(w, r) \in Nat /\ AudAvail(w, r) < AudWord
      BY <1>1, AudNumbers DEF AudWords
    <2> QED BY <2>1
  <1>4. a + k < AudWord /\ k < AudWord
    BY <1>3, AudNumbers
  <1>5. (w + k) % AudWord \in AudWords
        /\ (w + k) % AudWord = IF w + k < AudWord THEN w + k ELSE w + k - AudWord
    BY <1>4, AudSteps
  <1>6. PICK v \in AudWords : v = (w + k) % AudWord
    BY <1>5
  <1>7. v \in Nat /\ v < AudWord
    BY <1>6, AudNumbers DEF AudWords
  <1>8. AudAvail(v, r) = IF v >= r THEN v - r ELSE v - r + AudWord
    BY <1>6, AudAvailIs
  <1>9. AudAvail(v, r) = a + k
    BY <1>1, <1>2, <1>3, <1>4, <1>5, <1>6, <1>7, <1>8, AudNumbers
  <1> QED BY <1>3, <1>5, <1>6, <1>9

\* The reader moves on: so much less is there.
LEMMA AudAvailFalls ==
    ASSUME NEW w \in AudWords, NEW r \in AudWords, NEW k \in Nat, k <= AudAvail(w, r)
    PROVE  /\ (r + k) % AudWord \in AudWords
           /\ AudAvail(w, (r + k) % AudWord) = AudAvail(w, r) - k
  <1>1. AudAvail(w, r) = (IF w >= r THEN w - r ELSE w - r + AudWord) /\ AudAvail(w, r) \in AudWords
    BY AudAvailIs
  <1>2. w \in Nat /\ w < AudWord /\ r \in Nat /\ r < AudWord
    BY AudNumbers DEF AudWords
  <1>3. PICK a \in Nat : a = AudAvail(w, r) /\ a < AudWord
    <2>1. AudAvail(w, r) \in Nat /\ AudAvail(w, r) < AudWord
      BY <1>1, AudNumbers DEF AudWords
    <2> QED BY <2>1
  <1>4. k <= a /\ k < AudWord
    BY <1>3, AudNumbers
  <1>5. (r + k) % AudWord \in AudWords
        /\ (r + k) % AudWord = IF r + k < AudWord THEN r + k ELSE r + k - AudWord
    BY <1>4, AudSteps
  <1>6. PICK v \in AudWords : v = (r + k) % AudWord
    BY <1>5
  <1>7. v \in Nat /\ v < AudWord
    BY <1>6, AudNumbers DEF AudWords
  <1>8. AudAvail(w, v) = IF w >= v THEN w - v ELSE w - v + AudWord
    BY <1>6, AudAvailIs
  <1>9. AudAvail(w, v) = a - k
    BY <1>1, <1>2, <1>3, <1>4, <1>5, <1>6, <1>7, <1>8, AudNumbers
  <1> QED BY <1>3, <1>5, <1>6, <1>9

\* The counters wrap at a multiple of the ring's size, so the places do not
\* see it.
LEMMA AudPlaceOf ==
    ASSUME NEW x \in Nat, x < 2 * AudWord, NEW j \in Nat
    PROVE  ((x % AudWord) + j) % AudCap = (x + j) % AudCap
  <1> DEFINE q == AudWord \div AudCap
             y == (x - AudWord) + j
             e == y \div AudCap
             m == y % AudCap
  <1>1. q \in Nat /\ AudWord = AudCap * q
    BY AudAssumption, AudNumbers
  <1>2. CASE x < AudWord
    BY <1>2, AudWraps
  <1>3. CASE x >= AudWord
    <2>1. x % AudWord = x - AudWord /\ y \in Nat
      BY <1>3, AudWraps, AudNumbers
    <2>2. e \in Nat /\ m \in 0..(AudCap - 1) /\ y = AudCap * e + m
      BY <2>1, AudNumbers
    <2> HIDE DEF e, m, q
    <2>3. x + j = AudCap * (e + q) + m
      <3>1. x + j = y + AudWord
        BY AudNumbers
      <3>2. AudCap * (e + q) = AudCap * e + AudCap * q
        BY <1>1, <2>2, AudNumbers
      <3> HIDE DEF y
      <3> QED BY <1>1, <2>1, <2>2, <3>1, <3>2, AudNumbers
    <2>4. (x + j) % AudCap = m
      <3>1. PICK u \in Int, v \in Int, l \in Nat :
               u = x + j /\ v = e + q /\ l = m /\ l < AudCap
        BY <1>1, <2>2, AudNumbers
      <3>2. u = AudCap * v + l
        BY <2>3, <3>1
      <3>3. u % AudCap = l
        <4>1. AudCap \in Nat /\ AudCap > 0 /\ l < AudCap /\ u = AudCap * v + l
          BY <3>1, <3>2, AudNumbers
        <4> QED BY <4>1, AudRest, Zenon
      <3> QED BY <3>1, <3>3
    <2> QED BY <2>1, <2>4 DEF m
  <1> QED BY <1>2, <1>3, AudNumbers

\* Two places that are less than a ring apart are two slots.
LEMMA AudPlacesApart ==
    ASSUME NEW x \in Nat, NEW i \in Nat, NEW j \in Nat, i < j, j < i + AudCap
    PROVE  (x + i) % AudCap # (x + j) % AudCap
  <1> DEFINE a == x + i
             k == j - i
             e == a \div AudCap
             m == a % AudCap
  <1>1. /\ a \in Nat /\ k \in 1..(AudCap - 1) /\ x + j = a + k
        /\ e \in Nat /\ m \in 0..(AudCap - 1) /\ a = AudCap * e + m
    BY AudNumbers
  <1> HIDE DEF a, k, e, m
  <1>2. CASE m + k < AudCap
    <2>1. (a + k) % AudCap = m + k
      <3>1. a + k = AudCap * e + (m + k) /\ m + k \in 0..(AudCap - 1)
        BY <1>1, <1>2, AudNumbers
      <3>2. a + k \in Int /\ e \in Int /\ m + k \in Nat /\ m + k < AudCap
        BY <1>1, <3>1, AudNumbers
      <3>3. PICK n \in Nat : n = m + k /\ n < AudCap
        BY <3>2
      <3>4. PICK y \in Int : y = a + k /\ y = AudCap * e + n
        BY <3>1, <3>2, <3>3
      <3>5. y % AudCap = n
        <4>1. AudCap \in Nat /\ AudCap > 0 /\ e \in Int /\ n < AudCap /\ y = AudCap * e + n
          BY <1>1, <3>3, <3>4, AudNumbers
        <4> QED BY <4>1, AudRest, Zenon
      <3> QED BY <1>1, <3>3, <3>4, <3>5, AudNumbers
    <2> QED BY <1>1, <2>1 DEF a, m
  <1>3. CASE m + k >= AudCap
    <2>1. (a + k) % AudCap = m + k - AudCap
      <3>1. AudCap * (e + 1) = AudCap * e + AudCap
        BY <1>1, AudNumbers
      <3>2. a + k = AudCap * (e + 1) + (m + k - AudCap) /\ m + k - AudCap \in 0..(AudCap - 1)
        BY <1>1, <1>3, <3>1, AudNumbers
      <3>3. a + k \in Int /\ e + 1 \in Int /\ m + k - AudCap \in Nat /\ m + k - AudCap < AudCap
        BY <1>1, <3>2, AudNumbers
      <3>4. PICK u \in Int, v \in Int, l \in Nat :
               u = a + k /\ v = e + 1 /\ l = m + k - AudCap /\ l < AudCap
        BY <3>3
      <3>5. u = AudCap * v + l
        BY <3>2, <3>4
      <3>6. u % AudCap = l
        <4>1. AudCap \in Nat /\ AudCap > 0 /\ l < AudCap /\ u = AudCap * v + l
          BY <3>4, <3>5, AudNumbers
        <4> QED BY <4>1, AudRest, Zenon
      <3> QED BY <3>4, <3>6
    <2> QED BY <1>1, <2>1, AudNumbers DEF a, m
  <1> QED BY <1>1, <1>2, <1>3, AudNumbers

\* A place is a slot of the ring.
LEMMA AudSlotIn ==
    ASSUME NEW x \in Nat
    PROVE  x % AudCap \in AudSlots
  BY AudNumbers DEF AudSlots

\* The slot of the j-th sample of a ring that is read from r on.
AudPlace(r, j) == (r + j - 1) % AudCap

\* A place of a ring is a slot of it.
LEMMA AudPlaceIn ==
    ASSUME NEW r \in AudWords, NEW j \in Nat, j >= 1
    PROVE  AudPlace(r, j) \in AudSlots
  <1>1. PICK x \in Nat : x = r + j - 1
    BY AudNumbers DEF AudWords
  <1>2. x % AudCap \in AudSlots
    BY AudSlotIn
  <1> QED BY <1>1, <1>2 DEF AudPlace

\* A counter that has moved on names the same slots.
LEMMA AudPlaceMoved ==
    ASSUME NEW r \in AudWords, NEW k \in Nat, k < AudWord, NEW j \in Nat, j >= 1
    PROVE  AudPlace((r + k) % AudWord, j) = AudPlace(r, k + j)
  <1>1. PICK x \in Nat : x = r + k /\ x < 2 * AudWord
    BY AudNumbers DEF AudWords
  <1>2. PICK i \in Nat : i = j - 1
    OBVIOUS
  <1>3. ((x % AudWord) + i) % AudCap = (x + i) % AudCap
    BY <1>1, AudPlaceOf
  <1>4. x % AudWord \in Nat
    BY <1>1, AudNumbers
  <1>5. (x % AudWord) + i = (x % AudWord) + j - 1 /\ x + i = r + (k + j) - 1
    BY <1>1, <1>2, <1>4, AudNumbers DEF AudWords
  <1>6. AudPlace(x % AudWord, j) = ((x % AudWord) + j - 1) % AudCap
    BY DEF AudPlace
  <1>7. AudPlace(r, k + j) = (r + (k + j) - 1) % AudCap
    BY DEF AudPlace
  <1>8. AudPlace((r + k) % AudWord, j) = AudPlace(x % AudWord, j)
    BY <1>1, Zenon
  <1> QED BY <1>3, <1>5, <1>6, <1>7, <1>8

\* Two places less than a ring apart are two slots.
LEMMA AudPlaceApart ==
    ASSUME NEW r \in AudWords, NEW i \in Nat, NEW j \in Nat, i >= 1, i < j, j < i + AudCap
    PROVE  AudPlace(r, i) # AudPlace(r, j)
  <1>1. r \in Nat
    BY AudNumbers DEF AudWords
  <1>2. PICK a \in Nat, b \in Nat : a = i - 1 /\ b = j - 1
    BY AudNumbers
  <1>3. (r + a) % AudCap # (r + b) % AudCap
    <2>1. a < b /\ b < a + AudCap
      BY <1>2, AudNumbers
    <2> QED BY <1>1, <2>1, AudPlacesApart
  <1>4. r + a = r + i - 1 /\ r + b = r + j - 1
    BY <1>1, <1>2
  <1> QED BY <1>3, <1>4 DEF AudPlace

\* The writer's counter is the reader's and what is between them.
LEMMA AudWriterAt ==
    ASSUME NEW w \in AudWords, NEW r \in AudWords
    PROVE  w = (r + AudAvail(w, r)) % AudWord
  <1>1. AudAvail(w, r) = (IF w >= r THEN w - r ELSE w - r + AudWord) /\ AudAvail(w, r) \in AudWords
    BY AudAvailIs
  <1>2. w \in Nat /\ w < AudWord /\ r \in Nat /\ r < AudWord
    BY AudNumbers DEF AudWords
  <1>3. PICK n \in Nat : n = AudAvail(w, r) /\ n < AudWord
    <2>1. AudAvail(w, r) \in Nat /\ AudAvail(w, r) < AudWord
      BY <1>1, AudNumbers DEF AudWords
    <2> QED BY <2>1
  <1>4. (r + n) % AudWord = IF r + n < AudWord THEN r + n ELSE r + n - AudWord
    BY <1>3, AudSteps
  <1>5. (r + n) % AudWord = w
    BY <1>1, <1>2, <1>3, <1>4, AudNumbers
  <1> QED BY <1>3, <1>5

\* What is written into a ring is a ring.
LEMMA AudPutType ==
    ASSUME NEW S, NEW buf \in [AudSlots -> S], NEW w, NEW xs \in Seq(S)
    PROVE  AudPut(buf, w, xs) \in [AudSlots -> S]
  <1>1. ASSUME NEW s \in AudSlots, \E i \in 1..Len(xs) : (w + i - 1) % AudCap = s
        PROVE  xs[CHOOSE i \in 1..Len(xs) : (w + i - 1) % AudCap = s] \in S
    <2>1. (CHOOSE i \in 1..Len(xs) : (w + i - 1) % AudCap = s) \in 1..Len(xs)
      BY <1>1
    <2> QED BY <2>1, ElementOfSeq
  <1> QED BY <1>1 DEF AudPut

\* What is written lies behind what is there, and nothing of that is lost.
AudKept(buf, w, r, xs, n) ==
    /\ \A j \in 1..n : AudPut(buf, w, xs)[AudPlace(r, j)] = buf[AudPlace(r, j)]
    /\ \A i \in 1..Len(xs) : AudPut(buf, w, xs)[AudPlace(r, n + i)] = xs[i]

\* A write that fits keeps what is there.
LEMMA AudPutKeeps ==
    ASSUME NEW buf, NEW w \in AudWords, NEW r \in AudWords, NEW xs, Len(xs) \in Nat,
           NEW n \in Nat, n = AudAvail(w, r), n + Len(xs) <= AudCap
    PROVE  AudKept(buf, w, r, xs, n)
  <1>1. PICK l \in Nat : l = Len(xs)
    BY LenProperties
  <1>2. w = (r + n) % AudWord /\ n < AudWord
    BY AudWriterAt, AudNumbers, <1>1
  <1>3. ASSUME NEW i \in 1..l PROVE (w + i - 1) % AudCap = AudPlace(r, n + i)
    <2>1. AudPlace(w, i) = AudPlace(r, n + i)
      BY <1>2, AudPlaceMoved
    <2> QED BY <2>1 DEF AudPlace
  <1>4. ASSUME NEW s \in AudSlots
        PROVE  AudPut(buf, w, xs)[s] = IF \E i \in 1..l : AudPlace(r, n + i) = s
                        THEN xs[CHOOSE i \in 1..l : AudPlace(r, n + i) = s]
                        ELSE buf[s]
    <2>1. \A i \in 1..l : (w + i - 1) % AudCap = s <=> AudPlace(r, n + i) = s
      BY <1>3
    <2>2. (CHOOSE i \in 1..l : (w + i - 1) % AudCap = s) = CHOOSE i \in 1..l : AudPlace(r, n + i) = s
      BY <2>1
    <2> QED BY <1>1, <2>1, <2>2 DEF AudPut
  <1>5. ASSUME NEW j \in 1..n
        PROVE  AudPut(buf, w, xs)[AudPlace(r, j)] = buf[AudPlace(r, j)]
    <2>1. ASSUME NEW i \in 1..l PROVE AudPlace(r, n + i) # AudPlace(r, j)
      <3>1. n + i \in Nat /\ j \in Nat /\ j >= 1 /\ j < n + i /\ n + i < j + AudCap
        BY <1>1, AudNumbers
      <3> QED BY <3>1, AudPlaceApart
    <2>2. AudPlace(r, j) \in AudSlots
      BY AudPlaceIn
    <2> QED BY <1>4, <2>1, <2>2
  <1>6. ASSUME NEW i \in 1..l
        PROVE  AudPut(buf, w, xs)[AudPlace(r, n + i)] = xs[i]
    <2>1. ASSUME NEW k \in 1..l, AudPlace(r, n + k) = AudPlace(r, n + i) PROVE k = i
      <3>1. CASE k < i
        <4>1. n + k \in Nat /\ n + i \in Nat /\ n + k >= 1 /\ n + k < n + i /\ n + i < (n + k) + AudCap
          BY <1>1, <3>1, AudNumbers
        <4> QED BY <2>1, <4>1, AudPlaceApart
      <3>2. CASE i < k
        <4>1. n + k \in Nat /\ n + i \in Nat /\ n + i >= 1 /\ n + i < n + k /\ n + k < (n + i) + AudCap
          BY <1>1, <3>2, AudNumbers
        <4> QED BY <2>1, <4>1, AudPlaceApart
      <3> QED BY <3>1, <3>2, <1>1
    <2>2. (CHOOSE k \in 1..l : AudPlace(r, n + k) = AudPlace(r, n + i)) = i
      BY <2>1
    <2>3. AudPlace(r, n + i) \in AudSlots
      <3>1. n + i \in Nat /\ n + i >= 1
        BY <1>1
      <3> QED BY <3>1, AudPlaceIn
    <2> QED BY <1>4, <2>2, <2>3
  <1> QED BY <1>1, <1>5, <1>6 DEF AudKept
-----------------------------------------------------------------------------
(* The inductive invariant. *)

AudRings ==
    [cw : AudWords, cr : AudWords, cbuf : [AudSlots -> BOOLEAN],
     pw : AudWords, pr : AudWords, pbuf : [AudSlots -> Int],
     capPost : BOOLEAN, playPost : BOOLEAN, tx : BOOLEAN,
     fault : {"none", "capture", "playback", "ptt"}, met : BOOLEAN]

AudModems ==
    [pc : {"rx", "key", "tx", "write", "flush", "drain", "settle", "clean", "over"},
     keyed : BOOLEAN, sent : Nat, held : Seq(Int), out : Seq(Int), overs : Int,
     last : BOOLEAN, stale : BOOLEAN, cut : BOOLEAN]

AudTakes == [on : BOOLEAN, at : AudWords, now : BOOLEAN, n : 0..AudCap]
AudGives == [on : BOOLEAN, at : AudWords, n : 0..AudCap]

AudDevs ==
    [capLive : BOOLEAN, playLive : BOOLEAN, heard : Seq(Int),
     cap : AudTakes, play : AudGives]

AudTypes == aud \in AudRings /\ audM \in AudModems /\ audD \in AudDevs

\* What lies in the capture ring, and what a callback is about to add to it,
\* was heard since the modem last let go.
AudFresh(a, d) ==
    LET n == AudAvail(a.cw, a.cr)
    IN  /\ n <= AudCap
        /\ \A j \in 1..n : a.cbuf[AudPlace(a.cr, j)]
        /\ d.cap.on => d.cap.at = a.cw /\ d.cap.now /\ n + d.cap.n <= AudCap

\* The i-th device sample of an over.
AudNth(i) == IF i <= AudTail THEN 0 ELSE i - AudTail

\* What the playback ring holds fits, and a callback takes of that.
AudFits(a, d) ==
    LET n == AudAvail(a.pw, a.pr)
    IN  /\ n <= AudCap
        /\ d.play.on => d.play.at = a.pr /\ d.play.n >= 1 /\ d.play.n <= n

\* The over, in the order it is heard: what was heard, what the ring holds,
\* what waits to be written.
AudInOrder(a, m, d) ==
    LET n == AudAvail(a.pw, a.pr)
        h == Len(d.heard)
    IN  /\ \A j \in 1..h : d.heard[j] = AudNth(j)
        /\ \A j \in 1..n : a.pbuf[AudPlace(a.pr, j)] = AudNth(h + j)
        /\ \A j \in 1..Len(m.out) : m.out[j] = AudNth(h + n + j)

\* What the interpolator holds comes behind that.
AudHeldBehind(a, m, d) ==
    LET n == AudAvail(a.pw, a.pr)
        h == Len(d.heard)
        o == Len(m.out)
    IN  /\ h + n + o = m.sent * AudRatio
        /\ m.sent <= AudLength
        /\ Len(m.held) = AudTail
        /\ \A j \in 1..AudTail : m.held[j] = AudNth(h + n + o + j)

\* All of the over has left the interpolator.
AudAllOut(a, m, d) ==
    Len(d.heard) + AudAvail(a.pw, a.pr) + Len(m.out) = AudLength * AudRatio + AudTail

\* An over without a fault, at each of its places.
AudWhole(a, m, d) ==
    /\ m.pc # "key" => AudFits(a, d)
    /\ m.pc \in {"rx", "clean", "settle"} => AudAvail(a.pw, a.pr) = 0
    /\ m.pc \in {"rx", "clean", "key", "tx", "drain", "settle"} => m.out = <<>>
    /\ m.pc \in {"tx", "write", "flush", "drain", "settle"} => AudInOrder(a, m, d)
    /\ m.pc \in {"tx", "write"} => AudHeldBehind(a, m, d)
    /\ m.pc \in {"flush", "drain", "settle"} => AudAllOut(a, m, d)

AudInv ==
    /\ AudTypes
    /\ ~aud.met /\ audM.pc # "clean" => AudFresh(aud, audD)
    /\ ~aud.met /\ aud.fault = "none" => AudWhole(aud, audM, audD)
    /\ ~aud.met => ~audM.stale /\ ~audM.cut

-----------------------------------------------------------------------------
(* The operators of the rings. *)

\* The lesser of two numbers.
LEMMA AudLeastIs ==
    ASSUME NEW a \in Nat, NEW b \in Nat
    PROVE  /\ AudLeast(a, b) \in Nat /\ AudLeast(a, b) <= a /\ AudLeast(a, b) <= b
           /\ AudLeast(a, b) = a \/ AudLeast(a, b) = b
  BY DEF AudLeast

\* The room in a ring that holds no more than it can.
LEMMA AudSpaceIs ==
    ASSUME NEW w \in AudWords, NEW r \in AudWords
    PROVE  /\ AudSpace(w, r) \in Nat
           /\ AudAvail(w, r) \in Nat
           /\ AudAvail(w, r) <= AudCap => AudSpace(w, r) = AudCap - AudAvail(w, r)
  <1>1. PICK n \in Nat : n = AudAvail(w, r) /\ n < AudWord
    BY AudAvailIs, AudNumbers DEF AudWords
  <1>2. AudSpace(w, r) = (AudCap - n) % AudWord
    BY <1>1 DEF AudSpace
  <1>3. PICK z \in Int : z = AudCap - n
    BY AudNumbers
  <1>4. z % AudWord \in Nat
    BY <1>3, AudNumbers
  <1>5. ASSUME n <= AudCap PROVE z % AudWord = z
    <2>1. z \in Nat /\ z < 2 * AudWord /\ z < AudWord
      BY <1>3, <1>5, AudNumbers
    <2> QED BY <2>1, AudWraps
  <1> QED BY <1>1, <1>2, <1>3, <1>4, <1>5

\* What a callback makes of the room there is.
LEMMA AudRoom ==
    ASSUME NEW w \in AudWords, NEW r \in AudWords
    PROVE  LET n == AudLeast(AudFrames, AudSpace(w, r))
           IN  /\ n \in 0..AudCap
               /\ AudAvail(w, r) <= AudCap => AudAvail(w, r) + n <= AudCap
  <1>1. PICK s \in Nat, a \in Nat :
           s = AudSpace(w, r) /\ a = AudAvail(w, r) /\ (a <= AudCap => s = AudCap - a)
    BY AudSpaceIs
  <1>2. PICK n \in Nat : n = AudLeast(AudFrames, s) /\ n <= AudFrames /\ n <= s
    BY AudLeastIs, AudNumbers
  <1>3. n \in 0..AudCap /\ (a <= AudCap => a + n <= AudCap)
    BY <1>1, <1>2, AudNumbers
  <1> QED BY <1>1, <1>2, <1>3

\* What is read from a ring, place by place.
AudGot(buf, r, n, S) ==
    /\ AudGet(buf, r, n) \in Seq(S)
    /\ Len(AudGet(buf, r, n)) = n
    /\ \A i \in 1..n : AudGet(buf, r, n)[i] = buf[AudPlace(r, i)]

LEMMA AudGetIs ==
    ASSUME NEW S, NEW buf \in [AudSlots -> S], NEW r \in AudWords, NEW n \in Nat
    PROVE  AudGot(buf, r, n, S)
  <1>1. ASSUME NEW i \in 1..n PROVE AudPlace(r, i) \in AudSlots
    BY AudPlaceIn
  <1>2. AudGet(buf, r, n) = [i \in 1..n |-> buf[AudPlace(r, i)]]
    BY DEF AudGet, AudPlace
  <1>3. PICK g : g = [i \in 1..n |-> buf[AudPlace(r, i)]]
    OBVIOUS
  <1>4. g \in [1..n -> S]
    BY <1>1, <1>3
  <1>5. g \in Seq(S) /\ Len(g) = n
    BY <1>4
  <1>6. \A i \in 1..n : g[i] = buf[AudPlace(r, i)]
    BY <1>3
  <1>7. AudGet(buf, r, n) = g
    BY <1>2, <1>3
  <1> QED BY <1>5, <1>6, <1>7 DEF AudGot

\* A counter stays in its word.
LEMMA AudInWords ==
    ASSUME NEW x \in AudWords, NEW k \in Nat
    PROVE  (x + k) % AudWord \in AudWords
  <1>1. x + k \in Nat
    BY AudNumbers DEF AudWords
  <1> QED BY <1>1, AudNumbers DEF AudWords

\* One modem sample more is so many device samples more.
LEMMA AudRatioOf ==
    ASSUME NEW k \in Nat
    PROVE  k * AudRatio \in Nat /\ (k + 1) * AudRatio = k * AudRatio + AudRatio
  BY AudNumbers

\* What the invariant's parts look at.
LEMMA AudFreshSame ==
    ASSUME NEW a, NEW b, NEW d, NEW e, AudFresh(a, d),
           b.cw = a.cw, b.cr = a.cr, b.cbuf = a.cbuf, e.cap = d.cap
    PROVE  AudFresh(b, e)
  BY DEF AudFresh

\* The same, of the over.
LEMMA AudWholeSame ==
    ASSUME NEW a, NEW b, NEW m, NEW l, NEW d, NEW e, AudWhole(a, m, d),
           b.pw = a.pw, b.pr = a.pr, b.pbuf = a.pbuf,
           l.pc = m.pc, l.out = m.out, l.held = m.held, l.sent = m.sent,
           e.heard = d.heard, e.play = d.play
    PROVE  AudWhole(b, l, e)
  BY DEF AudWhole, AudFits, AudInOrder, AudHeldBehind, AudAllOut

\* What an interpolator holds that was reset.
LEMMA AudSilenceIs ==
    /\ AudSilence \in Seq(Int)
    /\ Len(AudSilence) = AudTail
    /\ \A i \in 1..AudTail : AudSilence[i] = 0
  BY AudNumbers DEF AudSilence

\* A backend that was opened, or one that was closed.
LEMMA AudInitInv ==
    ASSUME AudInit \/ AudOff PROVE AudInv
  <1>1. PICK pc \in {"rx", "over"}, live \in BOOLEAN : AudStart(pc, live)
    BY DEF AudInit, AudOff
  <1>2. 0 \in AudWords /\ 0 \in 0..AudCap
    BY AudNumbers DEF AudWords
  <1>3. AudTypes
    <2>1. aud \in AudRings
      BY <1>1, <1>2 DEF AudStart, AudRings
    <2>2. audM \in AudModems
      BY <1>1, AudSilenceIs, AudNumbers DEF AudStart, AudModems
    <2>3. audD \in AudDevs
      BY <1>1, <1>2 DEF AudStart, AudDevs, AudTakes, AudGives
    <2> QED BY <2>1, <2>2, <2>3 DEF AudTypes
  <1>4. AudAvail(0, 0) = 0
    BY <1>2, AudAvailIs
  <1>5. AudFresh(aud, audD)
    BY <1>1, <1>4, AudNumbers DEF AudStart, AudFresh
  <1>6. AudWhole(aud, audM, audD)
    <2>1. AudFits(aud, audD) /\ AudAvail(aud.pw, aud.pr) = 0
      BY <1>1, <1>4, AudNumbers DEF AudStart, AudFits
    <2>2. audM.out = <<>> /\ audM.pc \in {"rx", "over"}
      BY <1>1 DEF AudStart
    <2> QED BY <2>1, <2>2 DEF AudWhole
  <1>7. ~audM.stale /\ ~audM.cut
    BY <1>1 DEF AudStart
  <1> QED BY <1>3, <1>5, <1>6, <1>7 DEF AudInv
-----------------------------------------------------------------------------
(* The devices' steps keep the invariant. *)

\* A capture callback loads the counters: what it adds will fit.
LEMMA AudCaptureKeeps ==
    ASSUME AudInv, ~aud.met, AudCapture PROVE AudInv'
  <1> DEFINE n == AudLeast(AudFrames, AudSpace(aud.cw, aud.cr))
             c == [on |-> TRUE, at |-> aud.cw, now |-> TRUE, n |-> n]
  <1>1. aud \in AudRings /\ audM \in AudModems /\ audD \in AudDevs
    BY DEF AudInv, AudTypes
  <1>2. aud.cw \in AudWords /\ aud.cr \in AudWords
    BY <1>1 DEF AudRings
  <1>3. n \in 0..AudCap /\ (AudAvail(aud.cw, aud.cr) <= AudCap => AudAvail(aud.cw, aud.cr) + n <= AudCap)
    BY <1>2, AudRoom
  <1>4. audD' = [audD EXCEPT !.cap = c] /\ aud' = aud /\ audM' = audM
    BY DEF AudCapture
  <1> HIDE DEF n
  <1>5. c \in AudTakes
    BY <1>2, <1>3 DEF AudTakes
  <1>6. audD' \in AudDevs /\ audD'.cap = c /\ audD'.heard = audD.heard /\ audD'.play = audD.play
    BY <1>1, <1>4, <1>5 DEF AudDevs
  <1>7. AudTypes'
    BY <1>1, <1>4, <1>6 DEF AudTypes
  <1>8. ASSUME AudFresh(aud, audD) PROVE AudFresh(aud, audD')
    BY <1>3, <1>6, <1>8 DEF AudFresh
  <1>9. ASSUME AudWhole(aud, audM, audD) PROVE AudWhole(aud, audM, audD')
    BY <1>6, <1>9, AudWholeSame
  <1> QED BY <1>4, <1>7, <1>8, <1>9 DEF AudInv

\* Its store: what was heard lies behind what waits.
LEMMA AudCapturedKeeps ==
    ASSUME AudInv, AudCaptured PROVE AudInv'
  <1> DEFINE c == audD.cap
             xs == [i \in 1..c.n |-> c.now]
             w == IF c.n = 0 THEN aud.cw ELSE (c.at + c.n) % AudWord
             b == AudPut(aud.cbuf, c.at, xs)
  <1>1. aud \in AudRings /\ audM \in AudModems /\ audD \in AudDevs
    BY DEF AudInv, AudTypes
  <1>2. aud.cw \in AudWords /\ aud.cr \in AudWords /\ aud.cbuf \in [AudSlots -> BOOLEAN]
    BY <1>1 DEF AudRings
  <1>3. c.on /\ c.at \in AudWords /\ c.now \in BOOLEAN /\ c.n \in Nat /\ c.n <= AudCap
    BY <1>1, AudNumbers DEF AudDevs, AudTakes, AudCaptured
  <1>4. xs \in Seq(BOOLEAN) /\ Len(xs) = c.n /\ \A i \in 1..c.n : xs[i] = c.now
    <2>1. PICK k \in Nat : k = c.n
      BY <1>3
    <2>2. PICK v \in BOOLEAN : v = c.now
      BY <1>3
    <2>3. PICK x : x = [i \in 1..k |-> v]
      OBVIOUS
    <2>4. x \in [1..k -> BOOLEAN]
      BY <2>3
    <2>5. x \in Seq(BOOLEAN) /\ Len(x) = k
      BY <2>4
    <2>6. x = xs
      BY <2>1, <2>2, <2>3, Zenon
    <2>7. \A i \in 1..k : x[i] = v
      BY <2>3
    <2> QED BY <2>1, <2>2, <2>5, <2>6, <2>7
  <1>5. /\ aud' = [aud EXCEPT !.cbuf = b, !.cw = w, !.capPost = TRUE]
        /\ audD' = [audD EXCEPT !.cap.on = FALSE] /\ audM' = audM
    BY DEF AudCaptured
  <1>6. w \in AudWords /\ b \in [AudSlots -> BOOLEAN]
    <2>1. (c.at + c.n) % AudWord \in AudWords
      BY <1>3, AudInWords
    <2>2. b \in [AudSlots -> BOOLEAN]
      BY <1>2, <1>4, AudPutType
    <2> QED BY <1>2, <2>1, <2>2
  <1> HIDE DEF w, b, xs
  <1>7. /\ aud' \in AudRings /\ aud'.cw = w /\ aud'.cr = aud.cr /\ aud'.cbuf = b
        /\ aud'.pw = aud.pw /\ aud'.pr = aud.pr /\ aud'.pbuf = aud.pbuf
        /\ aud'.met = aud.met /\ aud'.fault = aud.fault
    BY <1>1, <1>5, <1>6 DEF AudRings
  <1>8. /\ audD' \in AudDevs /\ ~audD'.cap.on
        /\ audD'.heard = audD.heard /\ audD'.play = audD.play
    BY <1>1, <1>5 DEF AudDevs, AudTakes
  <1>9. AudTypes'
    BY <1>1, <1>5, <1>7, <1>8 DEF AudTypes
  <1>10. ASSUME AudFresh(aud, audD) PROVE AudFresh(aud', audD')
    <2>1. PICK n \in Nat : n = AudAvail(aud.cw, aud.cr)
      BY <1>2, AudSpaceIs
    <2>2. /\ n <= AudCap /\ c.at = aud.cw /\ c.now /\ n + c.n <= AudCap
          /\ \A j \in 1..n : aud.cbuf[AudPlace(aud.cr, j)]
      BY <1>3, <1>10, <2>1 DEF AudFresh
    <2>3. AudAvail(w, aud.cr) = n + c.n
      <3>1. CASE c.n = 0
        BY <2>1, <3>1 DEF w
      <3>2. CASE c.n # 0
        <4>1. n + c.n < AudWord
          BY <1>3, <2>2, AudNumbers
        <4>2. AudAvail((aud.cw + c.n) % AudWord, aud.cr) = AudAvail(aud.cw, aud.cr) + c.n
          BY <1>2, <1>3, <2>1, <4>1, AudAvailGrows
        <4> QED BY <2>1, <2>2, <3>2, <4>2 DEF w
      <3> QED BY <3>1, <3>2
    <2>4. /\ \A j \in 1..n : b[AudPlace(aud.cr, j)] = aud.cbuf[AudPlace(aud.cr, j)]
          /\ \A i \in 1..Len(xs) : b[AudPlace(aud.cr, n + i)] = xs[i]
      <3>1. n + Len(xs) <= AudCap
        BY <1>4, <2>2
      <3>2. Len(xs) \in Nat
        BY <1>3, <1>4
      <3>3. AudKept(aud.cbuf, aud.cw, aud.cr, xs, n)
        BY <1>2, <2>1, <3>1, <3>2, AudPutKeeps
      <3>4. b = AudPut(aud.cbuf, aud.cw, xs)
        BY <2>2 DEF b
      <3> QED BY <3>3, <3>4 DEF AudKept
    <2>5. ASSUME NEW j \in 1..(n + c.n) PROVE b[AudPlace(aud.cr, j)]
      <3>1. CASE j <= n
        BY <2>2, <2>4, <3>1
      <3>2. CASE j > n
        <4>1. PICK i \in 1..c.n : j = n + i
          <5>1. j - n \in 1..c.n /\ j = n + (j - n)
            BY <1>3, <3>2
          <5> QED BY <5>1
        <4> QED BY <1>4, <2>2, <2>4, <4>1
      <3> QED BY <3>1, <3>2
    <2> QED BY <1>7, <1>8, <2>2, <2>3, <2>5 DEF AudFresh
  <1>11. ASSUME AudWhole(aud, audM, audD) PROVE AudWhole(aud', audM, audD')
    BY <1>7, <1>8, <1>11, AudWholeSame
  <1> QED BY <1>5, <1>7, <1>9, <1>10, <1>11 DEF AudInv

\* A device stops.
LEMMA AudStallKeeps ==
    ASSUME AudInv, NEW dev, AudStall(dev) PROVE AudInv'
  <1>1. aud \in AudRings /\ audM \in AudModems /\ audD \in AudDevs
    BY DEF AudInv, AudTypes
  <1>2. /\ audD' \in AudDevs /\ audD'.cap = audD.cap
        /\ audD'.heard = audD.heard /\ audD'.play = audD.play
    <2>1. audD' = [audD EXCEPT !.capLive = FALSE] \/ audD' = [audD EXCEPT !.playLive = FALSE]
      BY DEF AudStall
    <2> QED BY <1>1, <2>1 DEF AudDevs
  <1>3. aud' = aud /\ audM' = audM
    BY DEF AudStall
  <1>4. AudTypes'
    BY <1>1, <1>2, <1>3 DEF AudTypes
  <1>5. ASSUME AudFresh(aud, audD) PROVE AudFresh(aud, audD')
    BY <1>2, <1>5, AudFreshSame
  <1>6. ASSUME AudWhole(aud, audM, audD) PROVE AudWhole(aud, audM, audD')
    BY <1>2, <1>6, AudWholeSame
  <1> QED BY <1>3, <1>4, <1>5, <1>6 DEF AudInv

\* A playback callback loads the counters: what it takes is there.
LEMMA AudPlayKeeps ==
    ASSUME AudInv, ~aud.met, AudPlay PROVE AudInv'
  <1> DEFINE k == AudAvail(aud.pw, aud.pr)
             n == AudLeast(AudFrames, k)
             p == [on |-> TRUE, at |-> aud.pr, n |-> n]
  <1>1. aud \in AudRings /\ audM \in AudModems /\ audD \in AudDevs
    BY DEF AudInv, AudTypes
  <1>2. aud.pw \in AudWords /\ aud.pr \in AudWords
    BY <1>1 DEF AudRings
  <1>3. k \in Nat
    BY <1>2, AudSpaceIs
  <1>4. n \in Nat /\ n \in 0..AudCap /\ n <= k
    <2> HIDE DEF k
    <2>1. n \in Nat /\ n <= AudFrames /\ n <= k
      BY <1>3, AudLeastIs, AudNumbers
    <2> QED BY <2>1, AudNumbers
  <1>5. audM' = audM
    BY DEF AudPlay
  <1>6. CASE n = 0
    <2>1. aud' = [aud EXCEPT !.playPost = TRUE] /\ audD' = audD
      BY <1>6 DEF AudPlay
    <2>2. /\ aud' \in AudRings /\ aud'.cw = aud.cw /\ aud'.cr = aud.cr /\ aud'.cbuf = aud.cbuf
          /\ aud'.pw = aud.pw /\ aud'.pr = aud.pr /\ aud'.pbuf = aud.pbuf
          /\ aud'.met = aud.met /\ aud'.fault = aud.fault
      BY <1>1, <2>1 DEF AudRings
    <2>3. AudTypes'
      BY <1>1, <1>5, <2>1, <2>2 DEF AudTypes
    <2>4. ASSUME AudFresh(aud, audD) PROVE AudFresh(aud', audD)
      BY <2>2, <2>4, AudFreshSame
    <2>5. ASSUME AudWhole(aud, audM, audD) PROVE AudWhole(aud', audM, audD)
      BY <2>2, <2>5, AudWholeSame
    <2> QED BY <1>5, <2>1, <2>2, <2>3, <2>4, <2>5 DEF AudInv
  <1>7. CASE n # 0
    <2>1. audD' = [audD EXCEPT !.play = p] /\ aud' = aud
      BY <1>7 DEF AudPlay
    <2> HIDE DEF n
    <2>2. p \in AudGives
      BY <1>2, <1>4 DEF AudGives
    <2>3. audD' \in AudDevs /\ audD'.cap = audD.cap /\ audD'.heard = audD.heard /\ audD'.play = p
      BY <1>1, <2>1, <2>2 DEF AudDevs
    <2>4. AudTypes'
      BY <1>1, <1>5, <2>1, <2>3 DEF AudTypes
    <2>5. ASSUME AudFresh(aud, audD) PROVE AudFresh(aud, audD')
      BY <2>3, <2>5, AudFreshSame
    <2>6. ASSUME AudWhole(aud, audM, audD) PROVE AudWhole(aud, audM, audD')
      <3>1. ASSUME AudFits(aud, audD) PROVE AudFits(aud, audD')
        <4>1. p.on /\ p.at = aud.pr /\ p.n >= 1 /\ p.n <= k
          BY <1>4, <1>7
        <4> QED BY <2>3, <3>1, <4>1 DEF AudFits
      <3>2. ASSUME AudInOrder(aud, audM, audD) PROVE AudInOrder(aud, audM, audD')
        BY <2>3, <3>2 DEF AudInOrder
      <3>3. ASSUME AudHeldBehind(aud, audM, audD) PROVE AudHeldBehind(aud, audM, audD')
        BY <2>3, <3>3 DEF AudHeldBehind
      <3>4. ASSUME AudAllOut(aud, audM, audD) PROVE AudAllOut(aud, audM, audD')
        BY <2>3, <3>4 DEF AudAllOut
      <3> QED BY <2>6, <3>1, <3>2, <3>3, <3>4 DEF AudWhole
    <2> QED BY <1>5, <2>1, <2>4, <2>5, <2>6 DEF AudInv
  <1> QED BY <1>6, <1>7
\* Two sequences behind one another.
LEMMA AudJoined ==
    ASSUME NEW S, NEW a \in Seq(S), NEW b \in Seq(S)
    PROVE  /\ a \o b \in Seq(S)
           /\ Len(a \o b) = Len(a) + Len(b)
           /\ \A j \in 1..Len(a) : (a \o b)[j] = a[j]
           /\ \A i \in 1..Len(b) : (a \o b)[Len(a) + i] = b[i]
  <1>1. PICK k \in Nat, l \in Nat : k = Len(a) /\ l = Len(b)
    BY LenProperties
  <1>2. \A i \in 1..(k + l) : (a \o b)[i] = IF i <= k THEN a[i] ELSE b[i - k]
    BY <1>1, ConcatProperties
  <1>3. ASSUME NEW j \in 1..k PROVE (a \o b)[j] = a[j]
    <2>1. j \in 1..(k + l) /\ j <= k
      OBVIOUS
    <2> QED BY <1>2, <2>1
  <1>4. ASSUME NEW i \in 1..l PROVE (a \o b)[k + i] = b[i]
    <2>1. k + i \in 1..(k + l) /\ ~(k + i <= k) /\ (k + i) - k = i
      OBVIOUS
    <2> QED BY <1>2, <2>1
  <1> QED BY <1>1, <1>3, <1>4, ConcatProperties

\* What a callback gives to the device comes next in the over.
LEMMA AudPlayedWhole ==
    ASSUME AudTypes, AudWhole(aud, audM, audD), audD.play.on, audM.pc # "key",
           NEW a, a.pr = (audD.play.at + audD.play.n) % AudWord, a.pw = aud.pw, a.pbuf = aud.pbuf,
           NEW d, ~d.play.on, d.heard = audD.heard \o AudGet(aud.pbuf, audD.play.at, audD.play.n)
    PROVE  AudWhole(a, audM, d)
  <1>1. /\ aud.pw \in AudWords /\ aud.pr \in AudWords /\ aud.pbuf \in [AudSlots -> Int]
        /\ audD.heard \in Seq(Int) /\ audD.play.n \in Nat /\ audM.out \in Seq(Int)
    BY AudNumbers DEF AudTypes, AudRings, AudDevs, AudGives, AudModems
  <1>2. PICK n \in Nat : n = AudAvail(aud.pw, aud.pr)
    BY <1>1, AudSpaceIs
  <1>3. PICK k \in Nat : k = audD.play.n
    BY <1>1
  <1>4. n <= AudCap /\ audD.play.at = aud.pr /\ k >= 1 /\ k <= n
    BY <1>2, <1>3 DEF AudWhole, AudFits
  <1>5. k < AudWord
    BY <1>4, AudNumbers
  <1>6. AudAvail(a.pw, a.pr) = n - k
    <2>1. AudAvail(aud.pw, (aud.pr + k) % AudWord) = AudAvail(aud.pw, aud.pr) - k
      BY <1>1, <1>2, <1>4, AudAvailFalls
    <2> QED BY <1>2, <1>3, <1>4, <2>1
  <1>7. PICK h \in Nat : h = Len(audD.heard)
    BY <1>1, LenProperties
  <1>8. PICK g \in Seq(Int) :
           /\ g = AudGet(aud.pbuf, aud.pr, k) /\ Len(g) = k
           /\ \A i \in 1..k : g[i] = aud.pbuf[AudPlace(aud.pr, i)]
    <2> DEFINE x == AudGet(aud.pbuf, aud.pr, k)
    <2>1. /\ x \in Seq(Int) /\ Len(x) = k
          /\ \A i \in 1..k : x[i] = aud.pbuf[AudPlace(aud.pr, i)]
      <3>1. AudGot(aud.pbuf, aud.pr, k, Int)
        BY <1>1, AudGetIs
      <3> QED BY <3>1 DEF AudGot
    <2> QED BY <2>1
  <1>9. /\ d.heard = audD.heard \o g
        /\ Len(d.heard) = h + k
        /\ \A j \in 1..h : d.heard[j] = audD.heard[j]
        /\ \A i \in 1..k : d.heard[h + i] = g[i]
    <2>1. d.heard = audD.heard \o g
      BY <1>3, <1>4, <1>8
    <2>2. audD.heard \in Seq(Int)
      BY <1>1
    <2>3. /\ Len(d.heard) = Len(audD.heard) + Len(g)
          /\ \A j \in 1..Len(audD.heard) : d.heard[j] = audD.heard[j]
          /\ \A i \in 1..Len(g) : d.heard[Len(audD.heard) + i] = g[i]
      BY <2>1, <2>2, AudJoined
    <2> QED BY <1>7, <1>8, <2>1, <2>3
  <1>10. PICK o \in Nat : o = Len(audM.out)
    BY <1>1, LenProperties
  <1>11. AudFits(a, d)
    <2>1. n - k <= AudCap
      BY <1>4, AudNumbers
    <2> QED BY <1>6, <2>1 DEF AudFits
  <1>12. audM.pc \notin {"rx", "clean", "settle"}
    BY <1>2, <1>4 DEF AudWhole
  <1>13. ASSUME AudInOrder(aud, audM, audD) PROVE AudInOrder(a, audM, d)
    <2>1. /\ \A j \in 1..h : audD.heard[j] = AudNth(j)
          /\ \A j \in 1..n : aud.pbuf[AudPlace(aud.pr, j)] = AudNth(h + j)
          /\ \A j \in 1..o : audM.out[j] = AudNth(h + n + j)
      BY <1>2, <1>7, <1>10, <1>13 DEF AudInOrder
    <2>2. ASSUME NEW j \in 1..(h + k) PROVE d.heard[j] = AudNth(j)
      <3>1. CASE j <= h
        <4>1. j \in 1..h
          BY <3>1
        <4> QED BY <1>9, <2>1, <4>1
      <3>2. CASE j > h
        <4>1. PICK i \in 1..k : j = h + i
          <5>1. j - h \in 1..k /\ j = h + (j - h)
            BY <3>2
          <5> QED BY <5>1
        <4>2. i \in 1..n
          BY <1>4, <4>1
        <4>3. d.heard[j] = g[i]
          BY <1>9, <4>1
        <4>4. g[i] = aud.pbuf[AudPlace(aud.pr, i)]
          BY <1>8
        <4>5. aud.pbuf[AudPlace(aud.pr, i)] = AudNth(h + i)
          BY <2>1, <4>2
        <4> QED BY <4>1, <4>3, <4>4, <4>5
      <3>3. j <= h \/ j > h
        OBVIOUS
      <3> QED BY <3>1, <3>2, <3>3, Zenon
    <2>3. ASSUME NEW j \in 1..(n - k)
          PROVE  a.pbuf[AudPlace(a.pr, j)] = AudNth((h + k) + j)
      <3>1. j \in Nat /\ j >= 1 /\ k + j \in 1..n /\ h + (k + j) = (h + k) + j
        BY <1>4
      <3>2. AudPlace((aud.pr + k) % AudWord, j) = AudPlace(aud.pr, k + j)
        BY <1>1, <1>5, <3>1, AudPlaceMoved
      <3>3. AudPlace(a.pr, j) = AudPlace(aud.pr, k + j)
        BY <1>3, <1>4, <3>2
      <3> QED BY <2>1, <3>1, <3>3
    <2>4. ASSUME NEW j \in 1..o PROVE audM.out[j] = AudNth((h + k) + (n - k) + j)
      <3>1. (h + k) + (n - k) + j = h + n + j
        BY <1>4
      <3> QED BY <2>1, <3>1
    <2> QED BY <1>6, <1>9, <1>10, <2>2, <2>3, <2>4 DEF AudInOrder
  <1>14. (h + k) + (n - k) = h + n
    BY <1>4
  <1>15. ASSUME AudHeldBehind(aud, audM, audD) PROVE AudHeldBehind(a, audM, d)
    BY <1>2, <1>6, <1>7, <1>9, <1>10, <1>14, <1>15 DEF AudHeldBehind
  <1>16. ASSUME AudAllOut(aud, audM, audD) PROVE AudAllOut(a, audM, d)
    BY <1>2, <1>6, <1>7, <1>9, <1>10, <1>14, <1>16 DEF AudAllOut
  <1> QED BY <1>11, <1>12, <1>13, <1>15, <1>16 DEF AudWhole

\* Its store.
LEMMA AudPlayedKeeps ==
    ASSUME AudInv, AudPlayed PROVE AudInv'
  <1> DEFINE p == audD.play
             g == AudGet(aud.pbuf, p.at, p.n)
             r == (p.at + p.n) % AudWord
  <1>1. aud \in AudRings /\ audM \in AudModems /\ audD \in AudDevs
    BY DEF AudInv, AudTypes
  <1>2. /\ p.on /\ p.at \in AudWords /\ p.n \in Nat /\ aud.pbuf \in [AudSlots -> Int]
        /\ audD.heard \in Seq(Int)
    BY <1>1, AudNumbers DEF AudRings, AudDevs, AudGives, AudPlayed
  <1>3. g \in Seq(Int) /\ r \in AudWords
    <2>1. AudGot(aud.pbuf, p.at, p.n, Int)
      BY <1>2, AudGetIs
    <2>2. r \in AudWords
      BY <1>2, AudInWords
    <2> QED BY <2>1, <2>2 DEF AudGot
  <1>4. /\ aud' = [aud EXCEPT !.pr = r, !.playPost = TRUE]
        /\ audD' = [audD EXCEPT !.play.on = FALSE, !.heard = @ \o g] /\ audM' = audM
    BY DEF AudPlayed
  <1>5. audD.heard \o g \in Seq(Int)
    BY <1>2, <1>3, ConcatProperties
  <1> HIDE DEF g, r
  <1>6. /\ aud' \in AudRings /\ aud'.cw = aud.cw /\ aud'.cr = aud.cr /\ aud'.cbuf = aud.cbuf
        /\ aud'.pw = aud.pw /\ aud'.pr = r /\ aud'.pbuf = aud.pbuf
        /\ aud'.met = aud.met /\ aud'.fault = aud.fault
    BY <1>1, <1>3, <1>4 DEF AudRings
  <1>7. /\ audD' \in AudDevs /\ audD'.cap = audD.cap /\ ~audD'.play.on
        /\ audD'.heard = audD.heard \o g
    BY <1>1, <1>4, <1>5 DEF AudDevs, AudGives
  <1>8. AudTypes'
    BY <1>1, <1>4, <1>6, <1>7 DEF AudTypes
  <1>9. ASSUME AudFresh(aud, audD) PROVE AudFresh(aud', audD')
    BY <1>6, <1>7, <1>9, AudFreshSame
  <1>10. ASSUME AudWhole(aud, audM, audD) PROVE AudWhole(aud', audM, audD')
    <2>1. CASE audM.pc = "key"
      BY <1>10, <2>1 DEF AudWhole
    <2>2. CASE audM.pc # "key"
      BY <1>2, <1>6, <1>7, <1>10, <2>2, AudPlayedWhole DEF AudInv, g, r
    <2> QED BY <2>1, <2>2
  <1> QED BY <1>4, <1>6, <1>8, <1>9, <1>10 DEF AudInv
-----------------------------------------------------------------------------
(* The modem's steps keep the invariant. *)

\* The modem reads.
LEMMA AudReadKeeps ==
    ASSUME AudInv, ~aud.met, AudRead PROVE AudInv'
  <1> DEFINE got == AudGet(aud.cbuf, aud.cr, AudRatio)
             r == (aud.cr + AudRatio) % AudWord
             s == audM.stale \/ \E i \in 1..AudRatio : ~got[i]
  <1>1. aud \in AudRings /\ audM \in AudModems /\ audD \in AudDevs
    BY DEF AudInv, AudTypes
  <1>2. aud.cw \in AudWords /\ aud.cr \in AudWords /\ aud.cbuf \in [AudSlots -> BOOLEAN]
    BY <1>1 DEF AudRings
  <1>3. audD' = audD
    BY DEF AudRead
  <1>4. AudFresh(aud, audD) /\ ~audM.stale /\ ~audM.cut
    BY DEF AudInv, AudRead
  <1>5. CASE AudAvail(aud.cw, aud.cr) >= AudRatio
    <2>1. aud' = [aud EXCEPT !.cr = r] /\ audM' = [audM EXCEPT !.stale = s]
      BY <1>5 DEF AudRead
    <2>2. r \in AudWords
      BY <1>2, AudNumbers, AudInWords
    <2>3. PICK n \in Nat : n = AudAvail(aud.cw, aud.cr)
      BY <1>2, AudSpaceIs
    <2>4. /\ n <= AudCap /\ \A j \in 1..n : aud.cbuf[AudPlace(aud.cr, j)]
          /\ audD.cap.on => audD.cap.at = aud.cw /\ audD.cap.now /\ n + audD.cap.n <= AudCap
      BY <1>4, <2>3 DEF AudFresh
    <2>5. AudRatio \in Nat /\ AudRatio <= n /\ AudRatio < AudWord
      BY <1>5, <2>3, AudNumbers
    <2>6. s = FALSE
      <3>1. \A i \in 1..AudRatio : got[i] = aud.cbuf[AudPlace(aud.cr, i)]
        BY Zenon DEF AudGet, AudPlace
      <3>2. \A i \in 1..AudRatio : i \in 1..n
        BY <2>5
      <3> HIDE DEF got
      <3> QED BY <1>4, <2>4, <3>1, <3>2
    <2> HIDE DEF s, r, got
    <2>7. /\ aud' \in AudRings /\ aud'.cr = r /\ aud'.cw = aud.cw /\ aud'.cbuf = aud.cbuf
          /\ aud'.pw = aud.pw /\ aud'.pr = aud.pr /\ aud'.pbuf = aud.pbuf
          /\ aud'.met = aud.met /\ aud'.fault = aud.fault
      BY <1>1, <2>1, <2>2 DEF AudRings
    <2>8. /\ audM' \in AudModems /\ ~audM'.stale /\ ~audM'.cut /\ audM'.pc = audM.pc
          /\ audM'.out = audM.out /\ audM'.held = audM.held /\ audM'.sent = audM.sent
      BY <1>1, <1>4, <2>1, <2>6 DEF AudModems
    <2>9. AudTypes'
      BY <1>1, <1>3, <2>7, <2>8 DEF AudTypes
    <2>10. AudFresh(aud', audD)
      <3>1. AudAvail(aud.cw, (aud.cr + AudRatio) % AudWord) = AudAvail(aud.cw, aud.cr) - AudRatio
        BY <1>2, <2>3, <2>5, AudAvailFalls
      <3>2. AudAvail(aud'.cw, aud'.cr) = n - AudRatio
        BY <2>3, <2>7, <3>1 DEF r
      <3>3. ASSUME NEW j \in 1..(n - AudRatio) PROVE aud'.cbuf[AudPlace(aud'.cr, j)]
        <4>1. j \in Nat /\ j >= 1 /\ AudRatio + j \in 1..n
          BY <2>5
        <4>2. AudPlace((aud.cr + AudRatio) % AudWord, j) = AudPlace(aud.cr, AudRatio + j)
          BY <1>2, <2>5, <4>1, AudPlaceMoved
        <4> QED BY <2>4, <2>7, <4>1, <4>2 DEF r
      <3>4. n - AudRatio <= AudCap
        BY <2>4, <2>5, AudNumbers
      <3>5. ASSUME audD.cap.on PROVE (n - AudRatio) + audD.cap.n <= AudCap
        <4>1. audD.cap.n \in Nat
          BY <1>1, AudNumbers DEF AudDevs, AudTakes
        <4> QED BY <2>4, <2>5, <3>5, <4>1, AudNumbers
      <3> QED BY <2>4, <2>7, <3>2, <3>3, <3>4, <3>5 DEF AudFresh
    <2>11. ASSUME AudWhole(aud, audM, audD) PROVE AudWhole(aud', audM', audD)
      BY <2>7, <2>8, <2>11, AudWholeSame
    <2> QED BY <1>3, <2>7, <2>8, <2>9, <2>10, <2>11 DEF AudInv
  <1>6. CASE ~(AudAvail(aud.cw, aud.cr) >= AudRatio)
    <2>1. audM' = audM
      BY <1>6 DEF AudRead
    <2>2. aud' = [aud EXCEPT !.capPost = FALSE]
          \/ aud' = [aud EXCEPT !.fault = IF @ = "none" THEN "capture" ELSE @]
      BY <1>6 DEF AudRead, AudFaultSet
    <2>3. /\ aud' \in AudRings /\ aud'.cr = aud.cr /\ aud'.cw = aud.cw /\ aud'.cbuf = aud.cbuf
          /\ aud'.pw = aud.pw /\ aud'.pr = aud.pr /\ aud'.pbuf = aud.pbuf
          /\ aud'.met = aud.met /\ (aud'.fault = "none" => aud.fault = "none")
      BY <1>1, <2>2 DEF AudRings
    <2>4. AudTypes'
      BY <1>1, <1>3, <2>1, <2>3 DEF AudTypes
    <2>5. AudFresh(aud', audD)
      BY <1>4, <2>3, AudFreshSame
    <2>6. ASSUME AudWhole(aud, audM, audD) PROVE AudWhole(aud', audM, audD)
      BY <2>3, <2>6, AudWholeSame
    <2> QED BY <1>3, <1>4, <2>1, <2>3, <2>4, <2>5, <2>6 DEF AudInv
  <1> QED BY <1>5, <1>6

\* The modem keys: the first store of the reset.
LEMMA AudKeyResetKeeps ==
    ASSUME AudInv, ~aud.met, AudKeyReset PROVE AudInv'
  <1>1. aud \in AudRings /\ audM \in AudModems /\ audD \in AudDevs
    BY DEF AudInv, AudTypes
  <1>2. 0 \in AudWords
    BY AudNumbers DEF AudWords
  <1>3. aud' = [aud EXCEPT !.pr = 0] /\ audD' = audD
    BY DEF AudKeyReset
  <1>4. /\ aud' \in AudRings /\ aud'.cr = aud.cr /\ aud'.cw = aud.cw /\ aud'.cbuf = aud.cbuf
        /\ aud'.met = aud.met /\ aud'.fault = aud.fault
    BY <1>1, <1>2, <1>3 DEF AudRings
  <1>5. /\ audM' \in AudModems /\ audM'.pc = "key" /\ audM'.out = audM.out
        /\ audM'.stale = audM.stale /\ audM'.cut = audM.cut
    <2>1. PICK left \in Int : left = audM.overs - 1
      BY <1>1 DEF AudModems
    <2>2. audM' = [audM EXCEPT !.pc = "key", !.overs = left]
      BY <2>1 DEF AudKeyReset
    <2> QED BY <1>1, <2>2 DEF AudModems
  <1>6. AudTypes'
    BY <1>1, <1>3, <1>4, <1>5 DEF AudTypes
  <1>7. audM.pc = "rx"
    BY DEF AudKeyReset
  <1>8. ASSUME AudFresh(aud, audD) PROVE AudFresh(aud', audD)
    BY <1>4, <1>8, AudFreshSame
  <1>9. ASSUME AudWhole(aud, audM, audD) PROVE AudWhole(aud', audM', audD)
    BY <1>5, <1>7, <1>9 DEF AudWhole
  <1>10. ~aud'.met /\ aud'.fault = "none" => AudWhole(aud', audM', audD')
    BY <1>3, <1>4, <1>9 DEF AudInv
  <1>11. AudFresh(aud', audD')
    BY <1>3, <1>7, <1>8 DEF AudInv
  <1>12. ~audM'.stale /\ ~audM'.cut
    BY <1>5 DEF AudInv
  <1> QED BY <1>6, <1>10, <1>11, <1>12 DEF AudInv

\* The second store: an empty ring, an empty interpolator, nothing heard.
LEMMA AudKeyKeeps ==
    ASSUME AudInv, ~aud.met, AudKey PROVE AudInv'
  <1> DEFINE b == [s \in AudSlots |-> IF aud.pbuf[s] = 0 THEN 0 ELSE -1]
             t == aud.met \/ aud.pr # 0 \/ audD.play.on
  <1>1. aud \in AudRings /\ audM \in AudModems /\ audD \in AudDevs
    BY DEF AudInv, AudTypes
  <1>2. 0 \in AudWords /\ AudAvail(0, 0) = 0
    <2>1. 0 \in AudWords
      BY AudNumbers DEF AudWords
    <2> QED BY <2>1, AudAvailIs
  <1>3. aud' = [aud EXCEPT !.pw = 0, !.tx = TRUE, !.met = t, !.pbuf = b]
    BY DEF AudKey
  <1>4. audM' = [audM EXCEPT !.pc = "tx", !.keyed = TRUE, !.sent = 0, !.held = AudSilence]
        /\ audD' = [audD EXCEPT !.heard = <<>>] /\ audM.pc = "key"
    BY DEF AudKey
  <1>5. b \in [AudSlots -> Int] /\ t \in BOOLEAN
    BY <1>1 DEF AudRings, AudDevs, AudGives
  <1>6. ~t => aud.pr = 0 /\ ~audD.play.on
    OBVIOUS
  <1> HIDE DEF b, t
  <1>7. /\ aud' \in AudRings /\ aud'.cr = aud.cr /\ aud'.cw = aud.cw /\ aud'.cbuf = aud.cbuf
        /\ aud'.met = t /\ aud'.fault = aud.fault /\ aud'.pw = 0 /\ aud'.pr = aud.pr
    BY <1>1, <1>2, <1>3, <1>5 DEF AudRings
  <1>8. /\ audM' \in AudModems /\ audM'.pc = "tx" /\ audM'.out = audM.out
        /\ audM'.sent = 0 /\ audM'.held = AudSilence
        /\ audM'.stale = audM.stale /\ audM'.cut = audM.cut
    BY <1>1, <1>4, AudSilenceIs DEF AudModems
  <1>9. /\ audD' \in AudDevs /\ audD'.heard = <<>> /\ audD'.play = audD.play
        /\ audD'.cap = audD.cap
    <2>1. PICK none \in Seq(Int) : none = <<>>
      BY EmptySeq
    <2>2. audD' = [audD EXCEPT !.heard = none]
      BY <1>4, <2>1
    <2> QED BY <1>1, <2>1, <2>2 DEF AudDevs
  <1>10. AudTypes'
    BY <1>7, <1>8, <1>9 DEF AudTypes
  <1>11. ASSUME AudFresh(aud, audD) PROVE AudFresh(aud', audD')
    BY <1>7, <1>9, <1>11, AudFreshSame
  <1>12. ASSUME AudWhole(aud, audM, audD), ~aud'.met PROVE AudWhole(aud', audM', audD')
    <2>1. AudAvail(aud'.pw, aud'.pr) = 0 /\ ~audD'.play.on
      BY <1>2, <1>6, <1>7, <1>9, <1>12
    <2>2. audM'.out = <<>> /\ Len(audM'.out) = 0 /\ Len(audD'.heard) = 0
      BY <1>4, <1>8, <1>9, <1>12 DEF AudWhole
    <2>3. AudFits(aud', audD')
      BY <2>1, AudNumbers DEF AudFits
    <2>4. AudInOrder(aud', audM', audD')
      BY <2>1, <2>2 DEF AudInOrder
    <2>5. AudHeldBehind(aud', audM', audD')
      <3>1. ASSUME NEW j \in 1..AudTail PROVE AudSilence[j] = AudNth(0 + 0 + 0 + j)
        <4>1. 0 + 0 + 0 + j = j /\ j <= AudTail
          BY AudNumbers
        <4> QED BY <4>1, AudSilenceIs DEF AudNth
      <3>2. 0 + 0 + 0 = 0 * AudRatio /\ 0 <= AudLength
        BY AudNumbers
      <3> QED BY <1>8, <2>1, <2>2, <3>1, <3>2, AudSilenceIs DEF AudHeldBehind
    <2> QED BY <1>8, <2>2, <2>3, <2>4, <2>5 DEF AudWhole
  <1> QED BY <1>4, <1>7, <1>8, <1>10, <1>11, <1>12 DEF AudInv

\* The reset of the capture ring.
LEMMA AudCleanKeeps ==
    ASSUME AudInv, ~aud.met, AudClean PROVE AudInv'
  <1>1. aud \in AudRings /\ audM \in AudModems /\ audD \in AudDevs
    BY DEF AudInv, AudTypes
  <1>2. 0 \in AudWords /\ AudAvail(0, 0) = 0
    <2>1. 0 \in AudWords
      BY AudNumbers DEF AudWords
    <2> QED BY <2>1, AudAvailIs
  <1>3. PICK t \in BOOLEAN : t = audD.cap.on
    BY <1>1 DEF AudDevs, AudTakes
  <1>4. PICK next \in {"rx", "over"} : next = IF audM.last THEN "over" ELSE "rx"
    OBVIOUS
  <1>5. aud' = [aud EXCEPT !.cr = 0, !.cw = 0, !.met = t]
    BY <1>3 DEF AudClean
  <1>6. audM' = [audM EXCEPT !.pc = next] /\ audD' = audD /\ audM.pc = "clean"
    BY <1>4 DEF AudClean
  <1>7. /\ aud' \in AudRings /\ aud'.cr = 0 /\ aud'.cw = 0 /\ aud'.met = t
        /\ aud'.pw = aud.pw /\ aud'.pr = aud.pr /\ aud'.pbuf = aud.pbuf
        /\ aud'.fault = aud.fault
    BY <1>1, <1>2, <1>5 DEF AudRings
  <1>8. /\ audM' \in AudModems /\ audM'.pc = next /\ audM'.out = audM.out
        /\ audM'.stale = audM.stale /\ audM'.cut = audM.cut
    BY <1>1, <1>6 DEF AudModems
  <1>9. AudTypes'
    BY <1>1, <1>6, <1>7, <1>8 DEF AudTypes
  <1>10. ASSUME ~t PROVE AudFresh(aud', audD)
    BY <1>2, <1>3, <1>7, <1>10, AudNumbers DEF AudFresh
  <1>11. ASSUME AudWhole(aud, audM, audD) PROVE AudWhole(aud', audM', audD)
    <2>1. AudFits(aud, audD) /\ AudAvail(aud.pw, aud.pr) = 0 /\ audM.out = <<>>
      BY <1>6, <1>11 DEF AudWhole
    <2>2. AudFits(aud', audD) /\ AudAvail(aud'.pw, aud'.pr) = 0 /\ audM'.out = <<>>
      BY <1>7, <1>8, <2>1 DEF AudFits
    <2> QED BY <1>8, <2>2 DEF AudWhole
  <1> QED BY <1>6, <1>7, <1>8, <1>9, <1>10, <1>11 DEF AudInv

\* The backend is closed.
LEMMA AudCloseKeeps ==
    ASSUME AudInv, ~aud.met, AudClose PROVE AudInv'
  <1>1. aud \in AudRings /\ audM \in AudModems /\ audD \in AudDevs
    BY DEF AudInv, AudTypes
  <1>2. /\ audM' = [audM EXCEPT !.pc = "over", !.keyed = FALSE] /\ aud' = aud
        /\ audD' = [audD EXCEPT !.capLive = FALSE, !.playLive = FALSE, !.cap.on = FALSE,
                                !.play.on = FALSE]
        /\ audM.pc \in {"rx", "tx"}
    BY DEF AudClose
  <1>3. /\ audM' \in AudModems /\ audM'.pc = "over"
        /\ audM'.stale = audM.stale /\ audM'.cut = audM.cut
    BY <1>1, <1>2 DEF AudModems
  <1>4. audD' \in AudDevs /\ ~audD'.cap.on /\ ~audD'.play.on
    BY <1>1, <1>2 DEF AudDevs, AudTakes, AudGives
  <1>5. AudTypes'
    BY <1>1, <1>2, <1>3, <1>4 DEF AudTypes
  <1>6. ASSUME AudFresh(aud, audD) PROVE AudFresh(aud, audD')
    BY <1>4, <1>6 DEF AudFresh
  <1>7. ASSUME AudWhole(aud, audM, audD) PROVE AudWhole(aud, audM', audD')
    <2>1. AudFits(aud, audD')
      BY <1>2, <1>4, <1>7 DEF AudWhole, AudFits
    <2> QED BY <1>3, <2>1 DEF AudWhole
  <1> QED BY <1>2, <1>3, <1>5, <1>6, <1>7 DEF AudInv
-----------------------------------------------------------------------------
(* The modem's steps that carry the over. *)

\* A part of a sequence.
LEMMA AudPartOf ==
    ASSUME NEW S, NEW s \in Seq(S), NEW a \in Nat, NEW k \in Nat, a + k <= Len(s)
    PROVE  /\ SubSeq(s, a + 1, a + k) \in Seq(S)
           /\ Len(SubSeq(s, a + 1, a + k)) = k
           /\ \A i \in 1..k : SubSeq(s, a + 1, a + k)[i] = s[a + i]
  <1>1. PICK l \in Nat : l = Len(s)
    BY LenProperties
  <1>2. PICK u \in Nat, v \in Nat : u = a + 1 /\ v = a + k
    OBVIOUS
  <1>3. ASSUME NEW i \in u..v PROVE s[i] \in S
    <2>1. i \in 1..Len(s)
      BY <1>1, <1>2
    <2> QED BY <2>1, ElementOfSeq
  <1>4. /\ SubSeq(s, u, v) \in Seq(S)
        /\ Len(SubSeq(s, u, v)) = IF u <= v THEN v - u + 1 ELSE 0
        /\ \A i \in 1..(v - u + 1) : SubSeq(s, u, v)[i] = s[u + i - 1]
    BY <1>3, SubSeqProperties
  <1>5. v - u + 1 = k /\ (u <= v => v - u + 1 = k) /\ (~(u <= v) => k = 0)
        /\ \A i \in 1..k : u + i - 1 = a + i
    BY <1>2
  <1> QED BY <1>2, <1>4, <1>5

\* What comes out of the interpolator, and what stays in it.
LEMMA AudResampled ==
    ASSUME NEW held \in Seq(Int), Len(held) = AudTail, NEW xs \in Seq(Int), Len(xs) = AudRatio
    PROVE  LET rs == AudResample(held, xs)
           IN  /\ rs.out \in Seq(Int) /\ Len(rs.out) = AudRatio
               /\ \A i \in 1..AudRatio : rs.out[i] = (held \o xs)[i]
               /\ rs.held \in Seq(Int) /\ Len(rs.held) = AudTail
               /\ \A j \in 1..AudTail : rs.held[j] = (held \o xs)[AudRatio + j]
  <1>1. PICK s \in Seq(Int) : s = held \o xs /\ Len(s) = AudTail + AudRatio
    BY AudJoined
  <1>2. PICK t \in Nat, r \in Nat : t = AudTail /\ r = AudRatio
    BY AudNumbers
  <1>3. /\ SubSeq(s, 0 + 1, 0 + r) \in Seq(Int) /\ Len(SubSeq(s, 0 + 1, 0 + r)) = r
        /\ \A i \in 1..r : SubSeq(s, 0 + 1, 0 + r)[i] = s[0 + i]
    <2>1. 0 + r <= Len(s)
      BY <1>1, <1>2
    <2> QED BY <2>1, AudPartOf
  <1>4. /\ SubSeq(s, r + 1, r + t) \in Seq(Int) /\ Len(SubSeq(s, r + 1, r + t)) = t
        /\ \A i \in 1..t : SubSeq(s, r + 1, r + t)[i] = s[r + i]
    <2>1. r + t <= Len(s)
      BY <1>1, <1>2
    <2> QED BY <2>1, AudPartOf
  <1>5. 0 + 1 = 1 /\ 0 + r = r /\ \A i \in 1..r : 0 + i = i
    OBVIOUS
  <1>6. /\ AudResample(held, xs).out = SubSeq(s, 1, r)
        /\ AudResample(held, xs).held = SubSeq(s, r + 1, r + t)
    BY <1>1, <1>2 DEF AudResample
  <1>7. PICK out, left : out = AudResample(held, xs).out /\ left = AudResample(held, xs).held
    OBVIOUS
  <1>8. out \in Seq(Int) /\ Len(out) = r /\ \A i \in 1..r : out[i] = s[i]
    BY <1>3, <1>5, <1>6, <1>7
  <1>9. left \in Seq(Int) /\ Len(left) = t /\ \A j \in 1..t : left[j] = s[r + j]
    BY <1>4, <1>6, <1>7
  <1> QED BY <1>1, <1>2, <1>7, <1>8, <1>9

\* A chunk goes through the interpolator.
LEMMA AudWriteKeeps ==
    ASSUME AudInv, ~aud.met, AudWrite PROVE AudInv'
  <1> DEFINE ids == [i \in 1..AudRatio |-> audM.sent * AudRatio + i]
             rs == AudResample(audM.held, ids)
  <1>1. aud \in AudRings /\ audM \in AudModems /\ audD \in AudDevs
    BY DEF AudInv, AudTypes
  <1>2. /\ aud.pw \in AudWords /\ aud.pr \in AudWords /\ audD.heard \in Seq(Int)
        /\ audM.sent \in Nat /\ audM.held \in Seq(Int) /\ audM.pc = "tx"
    BY <1>1 DEF AudRings, AudModems, AudDevs, AudWrite
  <1>3. AudWhole(aud, audM, audD) /\ AudFresh(aud, audD) /\ ~audM.stale /\ ~audM.cut
    BY <1>2 DEF AudInv, AudWrite
  <1>4. /\ AudFits(aud, audD) /\ AudInOrder(aud, audM, audD) /\ AudHeldBehind(aud, audM, audD)
        /\ audM.out = <<>> /\ Len(audM.out) = 0
    BY <1>2, <1>3 DEF AudWhole
  <1>5. PICK n \in Nat, h \in Nat : n = AudAvail(aud.pw, aud.pr) /\ h = Len(audD.heard)
    BY <1>2, AudSpaceIs, LenProperties
  <1>6. PICK z \in Nat : z = audM.sent * AudRatio /\ (audM.sent + 1) * AudRatio = z + AudRatio
    BY <1>2, AudRatioOf
  <1>7. /\ h + n = z /\ audM.sent <= AudLength /\ Len(audM.held) = AudTail
        /\ \A j \in 1..AudTail : audM.held[j] = AudNth(z + j)
    BY <1>4, <1>5, <1>6 DEF AudHeldBehind
  <1>8. ids \in Seq(Int) /\ Len(ids) = AudRatio /\ \A i \in 1..AudRatio : ids[i] = z + i
    <2>1. PICK r \in Nat : r = AudRatio
      BY AudNumbers
    <2>2. PICK x : x = [i \in 1..r |-> z + i]
      OBVIOUS
    <2>3. x \in [1..r -> Int]
      BY <2>2
    <2>4. x \in Seq(Int) /\ Len(x) = r /\ \A i \in 1..r : x[i] = z + i
      BY <2>2, <2>3
    <2>5. x = ids
      BY <1>6, <2>1, <2>2, Zenon
    <2> QED BY <2>1, <2>4, <2>5
  <1> HIDE DEF ids
  <1>9. PICK x \in Seq(Int), y \in Seq(Int) : x = audM.held /\ y = ids
    BY <1>2, <1>8
  <1>10. /\ \A j \in 1..Len(x) : (x \o y)[j] = x[j]
         /\ \A i \in 1..Len(y) : (x \o y)[Len(x) + i] = y[i]
    BY AudJoined
  <1>11. /\ \A j \in 1..AudTail : (audM.held \o ids)[j] = audM.held[j]
         /\ \A i \in 1..AudRatio : (audM.held \o ids)[AudTail + i] = ids[i]
    BY <1>7, <1>8, <1>9, <1>10
  <1>12. ASSUME NEW j \in 1..(AudTail + AudRatio) PROVE (audM.held \o ids)[j] = AudNth(z + j)
    <2>1. CASE j <= AudTail
      <3>1. j \in 1..AudTail
        BY <2>1, AudNumbers
      <3> QED BY <1>7, <1>11, <3>1
    <2>2. CASE j > AudTail
      <3>1. PICK i \in 1..AudRatio : j = AudTail + i
        <4>1. j - AudTail \in 1..AudRatio /\ j = AudTail + (j - AudTail)
          BY <2>2, AudNumbers
        <4> QED BY <4>1
      <3>2. (audM.held \o ids)[AudTail + i] = ids[i]
        BY <1>11
      <3>3. AudNth(z + j) = z + i
        BY <3>1, AudNumbers DEF AudNth
      <3> QED BY <1>8, <3>1, <3>2, <3>3
    <2>3. j <= AudTail \/ j > AudTail
      BY AudNumbers
    <2> QED BY <2>1, <2>2, <2>3, Zenon
  <1>13. /\ rs.out \in Seq(Int) /\ Len(rs.out) = AudRatio
         /\ \A i \in 1..AudRatio : rs.out[i] = (audM.held \o ids)[i]
         /\ rs.held \in Seq(Int) /\ Len(rs.held) = AudTail
         /\ \A j \in 1..AudTail : rs.held[j] = (audM.held \o ids)[AudRatio + j]
    BY <1>2, <1>7, <1>8, AudResampled
  <1>14. audM' = [audM EXCEPT !.pc = "write", !.sent = @ + 1, !.held = rs.held, !.out = rs.out]
         /\ aud' = aud /\ audD' = audD /\ audM.sent < AudLength
    BY DEF AudWrite, ids
  <1> HIDE DEF rs
  <1>15. /\ audM' \in AudModems /\ audM'.pc = "write" /\ audM'.sent = audM.sent + 1
         /\ audM'.held = rs.held /\ audM'.out = rs.out
         /\ audM'.stale = audM.stale /\ audM'.cut = audM.cut
    <2>1. PICK k \in Nat : k = audM.sent + 1
      BY <1>2
    <2>2. audM' = [audM EXCEPT !.pc = "write", !.sent = k, !.held = rs.held, !.out = rs.out]
      BY <1>14, <2>1
    <2> QED BY <1>1, <1>13, <2>1, <2>2 DEF AudModems
  <1>16. AudTypes'
    BY <1>1, <1>14, <1>15 DEF AudTypes
  <1>17. AudInOrder(aud, audM', audD)
    <2>1. ASSUME NEW i \in 1..AudRatio PROVE rs.out[i] = AudNth(h + n + i)
      <3>1. i \in 1..(AudTail + AudRatio) /\ z + i = h + n + i
        BY <1>7, AudNumbers
      <3> QED BY <1>12, <1>13, <3>1
    <2> QED BY <1>4, <1>5, <1>13, <1>15, <2>1 DEF AudInOrder
  <1>18. AudHeldBehind(aud, audM', audD)
    <2>1. ASSUME NEW j \in 1..AudTail PROVE rs.held[j] = AudNth(h + n + AudRatio + j)
      <3>1. AudRatio + j \in 1..(AudTail + AudRatio) /\ z + (AudRatio + j) = h + n + AudRatio + j
        BY <1>7, AudNumbers
      <3> QED BY <1>12, <1>13, <3>1
    <2>2. h + n + AudRatio = (audM.sent + 1) * AudRatio /\ audM.sent + 1 <= AudLength
      <3>1. h + n + AudRatio = z + AudRatio
        BY <1>7
      <3>2. audM.sent + 1 <= AudLength
        BY <1>2, <1>14, AudNumbers
      <3> QED BY <1>6, <3>1, <3>2
    <2> QED BY <1>5, <1>13, <1>15, <2>1, <2>2 DEF AudHeldBehind
  <1>19. AudWhole(aud, audM', audD)
    BY <1>4, <1>15, <1>17, <1>18 DEF AudWhole
  <1> QED BY <1>3, <1>14, <1>15, <1>16, <1>19 DEF AudInv
\* What the interpolator holds is asked for.
LEMMA AudUnkeyBeginKeeps ==
    ASSUME AudInv, ~aud.met, AudUnkeyBegin PROVE AudInv'
  <1>1. aud \in AudRings /\ audM \in AudModems /\ audD \in AudDevs
    BY DEF AudInv, AudTypes
  <1>2. PICK t \in BOOLEAN : t = (aud.fault # "none")
    OBVIOUS
  <1>3. audM' = [audM EXCEPT !.pc = "flush", !.out = audM.held, !.held = AudSilence, !.last = t]
    BY <1>2 DEF AudUnkeyBegin, AudTailOf
  <1>4. aud' = aud /\ audD' = audD /\ audM.pc \in {"rx", "tx"}
        /\ (aud.fault = "none" => audM.pc = "tx" /\ audM.sent = AudLength)
    BY DEF AudUnkeyBegin
  <1>5. /\ audM' \in AudModems /\ audM'.pc = "flush" /\ audM'.out = audM.held
        /\ audM'.stale = audM.stale /\ audM'.cut = audM.cut
    BY <1>1, <1>3, AudSilenceIs DEF AudModems
  <1>6. AudTypes'
    BY <1>1, <1>4, <1>5 DEF AudTypes
  <1>7. ASSUME AudWhole(aud, audM, audD), aud.fault = "none" PROVE AudWhole(aud, audM', audD)
    <2>1. /\ audM.pc = "tx" /\ audM.sent = AudLength /\ audM.out = <<>> /\ Len(audM.out) = 0
          /\ AudFits(aud, audD) /\ AudInOrder(aud, audM, audD) /\ AudHeldBehind(aud, audM, audD)
      BY <1>4, <1>7 DEF AudWhole
    <2>2. PICK n \in Nat, h \in Nat : n = AudAvail(aud.pw, aud.pr) /\ h = Len(audD.heard)
      BY <1>1, AudSpaceIs, LenProperties DEF AudRings, AudDevs
    <2>3. /\ h + n = AudLength * AudRatio /\ Len(audM.held) = AudTail
          /\ \A j \in 1..AudTail : audM.held[j] = AudNth(h + n + j)
      BY <2>1, <2>2 DEF AudHeldBehind
    <2>4. AudInOrder(aud, audM', audD)
      BY <1>5, <2>1, <2>2, <2>3 DEF AudInOrder
    <2>5. AudAllOut(aud, audM', audD)
      BY <1>5, <2>2, <2>3 DEF AudAllOut
    <2> QED BY <1>5, <2>1, <2>4, <2>5 DEF AudWhole
  <1> QED BY <1>4, <1>5, <1>6, <1>7 DEF AudInv

\* What is moved from the modem to the ring stays in its place of the over.
LEMMA AudQueuedWhole ==
    ASSUME AudTypes, AudFits(aud, audD), AudInOrder(aud, audM, audD),
           NEW k \in Nat, k <= Len(audM.out), k <= AudSpace(aud.pw, aud.pr),
           NEW a, a.pr = aud.pr, a.pw = (aud.pw + k) % AudWord,
           a.pbuf = AudPut(aud.pbuf, aud.pw, SubSeq(audM.out, 1, k)),
           NEW m, m.out = SubSeq(audM.out, k + 1, Len(audM.out))
    PROVE  /\ AudFits(a, audD) /\ AudInOrder(a, m, audD)
           /\ AudAvail(a.pw, a.pr) = AudAvail(aud.pw, aud.pr) + k
           /\ Len(m.out) = Len(audM.out) - k
  <1>1. /\ aud.pw \in AudWords /\ aud.pr \in AudWords /\ aud.pbuf \in [AudSlots -> Int]
        /\ audD.heard \in Seq(Int) /\ audM.out \in Seq(Int)
    BY DEF AudTypes, AudRings, AudDevs, AudModems
  <1>2. PICK n \in Nat, h \in Nat, o \in Nat :
           n = AudAvail(aud.pw, aud.pr) /\ h = Len(audD.heard) /\ o = Len(audM.out)
    BY <1>1, AudSpaceIs, LenProperties
  <1>3. n <= AudCap /\ k <= o
    BY <1>2 DEF AudFits
  <1>4. n + k <= AudCap /\ n + k < AudWord
    <2>1. AudSpace(aud.pw, aud.pr) = AudCap - n
      BY <1>1, <1>2, <1>3, AudSpaceIs
    <2>2. PICK s \in Int : s = AudCap - n /\ k <= s
      BY <2>1, AudNumbers
    <2> QED BY <2>2, AudNumbers
  <1>5. AudAvail(a.pw, a.pr) = n + k
    BY <1>1, <1>2, <1>4, AudAvailGrows
  <1>6. PICK xs \in Seq(Int) :
           /\ xs = SubSeq(audM.out, 1, k) /\ Len(xs) = k
           /\ \A i \in 1..k : xs[i] = audM.out[i]
    <2>1. /\ SubSeq(audM.out, 0 + 1, 0 + k) \in Seq(Int)
          /\ Len(SubSeq(audM.out, 0 + 1, 0 + k)) = k
          /\ \A i \in 1..k : SubSeq(audM.out, 0 + 1, 0 + k)[i] = audM.out[0 + i]
      <3>1. 0 + k <= Len(audM.out)
        BY <1>2, <1>3
      <3> QED BY <1>1, <3>1, AudPartOf
    <2>2. 0 + 1 = 1 /\ 0 + k = k /\ \A i \in 1..k : 0 + i = i
      OBVIOUS
    <2> QED BY <2>1, <2>2
  <1>7. Len(m.out) = o - k /\ \A i \in 1..(o - k) : m.out[i] = audM.out[k + i]
    <2>1. PICK l \in Nat : l = o - k /\ k + l = o
      BY <1>3
    <2>2. /\ Len(SubSeq(audM.out, k + 1, k + l)) = l
          /\ \A i \in 1..l : SubSeq(audM.out, k + 1, k + l)[i] = audM.out[k + i]
      <3>1. k + l <= Len(audM.out)
        BY <1>2, <2>1
      <3> QED BY <1>1, <3>1, AudPartOf
    <2> QED BY <1>2, <2>1, <2>2
  <1>8. /\ \A j \in 1..n : a.pbuf[AudPlace(aud.pr, j)] = aud.pbuf[AudPlace(aud.pr, j)]
        /\ \A i \in 1..k : a.pbuf[AudPlace(aud.pr, n + i)] = xs[i]
    <2>1. n + Len(xs) <= AudCap /\ a.pbuf = AudPut(aud.pbuf, aud.pw, xs)
      BY <1>4, <1>6
    <2>2. /\ \A j \in 1..n : AudPut(aud.pbuf, aud.pw, xs)[AudPlace(aud.pr, j)]
                              = aud.pbuf[AudPlace(aud.pr, j)]
          /\ \A i \in 1..Len(xs) : AudPut(aud.pbuf, aud.pw, xs)[AudPlace(aud.pr, n + i)] = xs[i]
      <3>1. aud.pw \in AudWords /\ aud.pr \in AudWords /\ aud.pbuf \in [AudSlots -> Int]
        BY <1>1
      <3>2. n = AudAvail(aud.pw, aud.pr)
        BY <1>2
      <3>3. n + Len(xs) <= AudCap
        BY <2>1
      <3>4. AudKept(aud.pbuf, aud.pw, aud.pr, xs, n)
        <4>1. Len(xs) \in Nat
          BY <1>6
        <4> QED BY <3>1, <3>2, <3>3, <4>1, AudPutKeeps
      <3> QED BY <3>4 DEF AudKept
    <2> QED BY <1>6, <2>1, <2>2
  <1>9. /\ \A j \in 1..h : audD.heard[j] = AudNth(j)
        /\ \A j \in 1..n : aud.pbuf[AudPlace(aud.pr, j)] = AudNth(h + j)
        /\ \A j \in 1..o : audM.out[j] = AudNth(h + n + j)
    BY <1>2 DEF AudInOrder
  <1>10. AudFits(a, audD)
    <2>1. audD.play.n \in Nat
      BY AudNumbers DEF AudTypes, AudDevs, AudGives
    <2> QED BY <1>2, <1>4, <1>5, <2>1 DEF AudFits
  <1>11. ASSUME NEW j \in 1..(n + k) PROVE a.pbuf[AudPlace(a.pr, j)] = AudNth(h + j)
    <2>1. CASE j <= n
      <3>1. j \in 1..n
        BY <2>1
      <3> QED BY <1>8, <1>9, <3>1
    <2>2. CASE j > n
      <3>1. PICK i \in 1..k : j = n + i
        <4>1. j - n \in 1..k /\ j = n + (j - n)
          BY <2>2
        <4> QED BY <4>1
      <3>2. i \in 1..o /\ h + n + i = h + j
        BY <1>3, <3>1
      <3>3. xs[i] = audM.out[i] /\ a.pbuf[AudPlace(aud.pr, n + i)] = xs[i]
        BY <1>6, <1>8
      <3>4. audM.out[i] = AudNth(h + n + i)
        BY <1>9, <3>2
      <3>5. AudPlace(a.pr, j) = AudPlace(aud.pr, n + i)
        BY <3>1
      <3> QED BY <3>2, <3>3, <3>4, <3>5
    <2> QED BY <2>1, <2>2
  <1>12. ASSUME NEW i \in 1..(o - k) PROVE m.out[i] = AudNth(h + (n + k) + i)
    <2>1. PICK j \in 1..o : j = k + i /\ h + n + j = h + (n + k) + i
      <3>1. k <= o
        BY <1>3
      <3>2. k + i \in Int /\ k + i >= 1 /\ k + i <= o
        BY <3>1
      <3>3. k + i \in 1..o
        BY <3>2
      <3>4. h + n + (k + i) = h + (n + k) + i
        OBVIOUS
      <3> QED BY <3>3, <3>4
    <2>2. audM.out[j] = AudNth(h + n + j)
      BY <1>9
    <2>3. m.out[i] = audM.out[k + i]
      BY <1>7
    <2> QED BY <2>1, <2>2, <2>3
  <1>13. AudInOrder(a, m, audD)
    BY <1>2, <1>5, <1>7, <1>9, <1>11, <1>12 DEF AudInOrder
  <1> QED BY <1>2, <1>5, <1>7, <1>10, <1>13

\* The modem queues what the ring has room for.
LEMMA AudQueueKeeps ==
    ASSUME AudInv, ~aud.met, AudQueue PROVE AudInv'
  <1> DEFINE k == AudLeast(Len(audM.out), AudSpace(aud.pw, aud.pr))
             rest == SubSeq(audM.out, k + 1, Len(audM.out))
             next == IF audM.pc = "write" THEN "tx" ELSE "drain"
             b == AudPut(aud.pbuf, aud.pw, SubSeq(audM.out, 1, k))
             w == (aud.pw + k) % AudWord
  <1>1. aud \in AudRings /\ audM \in AudModems /\ audD \in AudDevs
    BY DEF AudInv, AudTypes
  <1>2. /\ aud.pw \in AudWords /\ aud.pr \in AudWords /\ aud.pbuf \in [AudSlots -> Int]
        /\ audD.heard \in Seq(Int) /\ audM.out \in Seq(Int) /\ audM.pc \in {"write", "flush"}
    BY <1>1 DEF AudRings, AudDevs, AudModems, AudQueue
  <1>3. PICK o \in Nat, s \in Nat : o = Len(audM.out) /\ s = AudSpace(aud.pw, aud.pr)
    BY <1>2, AudSpaceIs, LenProperties
  <1>4. k \in Nat /\ k <= o /\ k <= s
    BY <1>3, AudLeastIs
  <1>5. audD' = audD
    BY DEF AudQueue
  <1>6. \/ /\ rest = <<>> /\ aud' = [aud EXCEPT !.pbuf = b, !.pw = w]
           /\ audM' = [audM EXCEPT !.pc = next, !.out = <<>>]
        \/ /\ aud' = [aud EXCEPT !.pbuf = b, !.pw = w, !.playPost = FALSE]
           /\ audM' = [audM EXCEPT !.out = rest] /\ rest # <<>>
        \/ /\ aud' = [aud EXCEPT !.fault = IF @ = "none" THEN "playback" ELSE @]
           /\ audM' = [audM EXCEPT !.pc = next, !.out = <<>>]
    BY DEF AudQueue, AudFaultSet
  <1> HIDE DEF k
  <1>7. w \in AudWords /\ b \in [AudSlots -> Int] /\ rest \in Seq(Int) /\ <<>> \in Seq(Int)
    <2>1. \A i \in 1..k : audM.out[i] \in Int
      <3>1. \A i \in 1..k : i \in 1..Len(audM.out)
        BY <1>3, <1>4
      <3> QED BY <1>2, <3>1, ElementOfSeq
    <2>2. SubSeq(audM.out, 1, k) \in Seq(Int)
      BY <1>4, <2>1, SubSeqProperties
    <2>3. b \in [AudSlots -> Int]
      BY <1>2, <2>2, AudPutType
    <2>4. rest \in Seq(Int)
      <3>1. \A i \in (k + 1)..Len(audM.out) : audM.out[i] \in Int
        <4>1. \A i \in (k + 1)..o : i \in 1..Len(audM.out)
          BY <1>3, <1>4
        <4> QED BY <1>2, <1>3, <4>1, ElementOfSeq
      <3>2. k + 1 \in Int /\ Len(audM.out) \in Int
        BY <1>3, <1>4
      <3> QED BY <3>1, <3>2, SubSeqProperties
    <2>5. w \in AudWords
      BY <1>2, <1>4, AudInWords
    <2> QED BY <2>3, <2>4, <2>5, EmptySeq
  <1>8. next \in {"tx", "drain"} /\ (audM.pc = "write" => next = "tx")
        /\ (audM.pc = "flush" => next = "drain")
    OBVIOUS
  <1> HIDE DEF b, w, rest, next
  <1>9. PICK none \in Seq(Int) : none = <<>>
    BY <1>7
  <1>10. /\ aud' \in AudRings /\ aud'.cr = aud.cr /\ aud'.cw = aud.cw /\ aud'.cbuf = aud.cbuf
         /\ aud'.met = aud.met /\ aud'.pr = aud.pr
    BY <1>1, <1>6, <1>7 DEF AudRings
  <1>11. /\ audM' \in AudModems /\ audM'.stale = audM.stale /\ audM'.cut = audM.cut
         /\ audM'.held = audM.held /\ audM'.sent = audM.sent
    <2>1. audM' = [audM EXCEPT !.pc = next, !.out = none] \/ audM' = [audM EXCEPT !.out = rest]
      BY <1>6, <1>9
    <2> QED BY <1>1, <1>7, <1>8, <1>9, <2>1 DEF AudModems
  <1>12. AudTypes'
    BY <1>1, <1>5, <1>10, <1>11 DEF AudTypes
  <1>13. ASSUME AudFresh(aud, audD) PROVE AudFresh(aud', audD)
    BY <1>10, <1>13, AudFreshSame
  <1>14. ASSUME AudWhole(aud, audM, audD), aud.fault = "none", aud'.fault = "none"
         PROVE  AudWhole(aud', audM', audD)
    <2>1. /\ aud'.pw = w /\ aud'.pbuf = b /\ audM'.out = rest
          /\ \/ audM'.pc = next /\ rest = <<>>
             \/ audM'.pc = audM.pc
      <3>1. ~(aud' = [aud EXCEPT !.fault = IF @ = "none" THEN "playback" ELSE @])
        BY <1>1, <1>14 DEF AudRings
      <3> QED BY <1>1, <1>6, <3>1 DEF AudRings, AudModems
    <2>2. AudFits(aud, audD) /\ AudInOrder(aud, audM, audD)
      BY <1>2, <1>14 DEF AudWhole
    <2>3. /\ AudFits(aud', audD) /\ AudInOrder(aud', audM', audD)
          /\ AudAvail(aud'.pw, aud'.pr) = AudAvail(aud.pw, aud.pr) + k
          /\ Len(audM'.out) = Len(audM.out) - k
      <3>1. AudTypes
        BY <1>1 DEF AudTypes
      <3>2. k <= Len(audM.out) /\ k <= AudSpace(aud.pw, aud.pr)
        BY <1>3, <1>4
      <3>3. aud'.pbuf = AudPut(aud.pbuf, aud.pw, SubSeq(audM.out, 1, k))
            /\ aud'.pw = (aud.pw + k) % AudWord /\ aud'.pr = aud.pr
            /\ audM'.out = SubSeq(audM.out, k + 1, Len(audM.out))
        BY <1>10, <2>1 DEF b, w, rest
      <3> QED BY <1>4, <2>2, <3>1, <3>2, <3>3, AudQueuedWhole
    <2>4. PICK n \in Nat, h \in Nat : n = AudAvail(aud.pw, aud.pr) /\ h = Len(audD.heard)
      BY <1>2, AudSpaceIs, LenProperties
    <2>5. h + (n + k) + (o - k) = h + n + o
      BY <1>4
    <2>6. Len(audM'.out) = o - k /\ AudAvail(aud'.pw, aud'.pr) = n + k
      BY <1>3, <2>3, <2>4
    <2>7. ASSUME AudHeldBehind(aud, audM, audD) PROVE AudHeldBehind(aud', audM', audD)
      BY <1>3, <1>11, <2>4, <2>5, <2>6, <2>7 DEF AudHeldBehind
    <2>8. ASSUME AudAllOut(aud, audM, audD) PROVE AudAllOut(aud', audM', audD)
      BY <1>3, <2>4, <2>5, <2>6, <2>8 DEF AudAllOut
    <2>9. CASE audM.pc = "write"
      <3>1. AudHeldBehind(aud', audM', audD)
        BY <1>14, <2>7, <2>9 DEF AudWhole
      <3>2. audM'.pc = "write" \/ (audM'.pc = "tx" /\ audM'.out = <<>>)
        BY <1>8, <2>1, <2>9, Zenon
      <3> QED BY <2>3, <3>1, <3>2 DEF AudWhole
    <2>10. CASE audM.pc = "flush"
      <3>1. AudAllOut(aud', audM', audD)
        BY <1>14, <2>8, <2>10 DEF AudWhole
      <3>2. audM'.pc = "flush" \/ (audM'.pc = "drain" /\ audM'.out = <<>>)
        BY <1>8, <2>1, <2>10, Zenon
      <3> QED BY <2>3, <3>1, <3>2 DEF AudWhole
    <2> QED BY <1>2, <2>9, <2>10
  <1>15. aud'.fault = "none" => aud.fault = "none"
    BY <1>1, <1>6 DEF AudRings
  <1>16. audM.pc # "clean"
    BY <1>2
  <1> QED BY <1>5, <1>10, <1>11, <1>12, <1>13, <1>14, <1>15, <1>16 DEF AudInv

\* The ring is waited for.
LEMMA AudDrainKeeps ==
    ASSUME AudInv, ~aud.met, AudDrain PROVE AudInv'
  <1>1. aud \in AudRings /\ audM \in AudModems /\ audD \in AudDevs
    BY DEF AudInv, AudTypes
  <1>2. audD' = audD /\ audM.pc = "drain"
    BY DEF AudDrain
  <1>3. \/ /\ AudAvail(aud.pw, aud.pr) = 0
           /\ audM' = [audM EXCEPT !.pc = "settle"] /\ aud' = aud
        \/ aud' = [aud EXCEPT !.playPost = FALSE] /\ audM' = audM
        \/ /\ aud' = [aud EXCEPT !.fault = IF @ = "none" THEN "playback" ELSE @]
           /\ audM' = [audM EXCEPT !.pc = "settle"]
    BY DEF AudDrain, AudFaultSet
  <1>4. /\ aud' \in AudRings /\ aud'.cr = aud.cr /\ aud'.cw = aud.cw /\ aud'.cbuf = aud.cbuf
        /\ aud'.met = aud.met /\ aud'.pr = aud.pr /\ aud'.pw = aud.pw /\ aud'.pbuf = aud.pbuf
    BY <1>1, <1>3 DEF AudRings
  <1>5. /\ audM' \in AudModems /\ audM'.stale = audM.stale /\ audM'.cut = audM.cut
        /\ audM'.held = audM.held /\ audM'.sent = audM.sent /\ audM'.out = audM.out
    BY <1>1, <1>3 DEF AudModems
  <1>6. AudTypes'
    BY <1>1, <1>2, <1>4, <1>5 DEF AudTypes
  <1>7. ASSUME AudFresh(aud, audD) PROVE AudFresh(aud', audD)
    BY <1>4, <1>7, AudFreshSame
  <1>8. ASSUME aud'.fault = "none"
        PROVE  /\ aud.fault = "none"
               /\ audM'.pc = "drain" \/ (audM'.pc = "settle" /\ AudAvail(aud.pw, aud.pr) = 0)
    <2>1. aud' = [aud EXCEPT !.fault = IF @ = "none" THEN "playback" ELSE @]
          => aud'.fault # "none"
      BY <1>1 DEF AudRings
    <2>2. aud' = aud \/ aud' = [aud EXCEPT !.playPost = FALSE] => aud'.fault = aud.fault
      BY <1>1 DEF AudRings
    <2>3. audM' = [audM EXCEPT !.pc = "settle"] => audM'.pc = "settle"
      BY <1>1 DEF AudModems
    <2> QED BY <1>2, <1>3, <1>8, <2>1, <2>2, <2>3
  <1>9. ASSUME AudWhole(aud, audM, audD), aud'.fault = "none"
        PROVE  AudWhole(aud', audM', audD)
    <2>1. /\ AudFits(aud, audD) /\ AudInOrder(aud, audM, audD) /\ AudAllOut(aud, audM, audD)
          /\ audM.out = <<>>
      BY <1>2, <1>9 DEF AudWhole
    <2>2. AudFits(aud', audD) /\ AudInOrder(aud', audM', audD) /\ AudAllOut(aud', audM', audD)
      BY <1>4, <1>5, <2>1 DEF AudFits, AudInOrder, AudAllOut
    <2> QED BY <1>4, <1>5, <1>8, <1>9, <2>1, <2>2 DEF AudWhole
  <1> QED BY <1>2, <1>4, <1>5, <1>6, <1>7, <1>8, <1>9 DEF AudInv
\* An over as it is to be heard, sample by sample.
LEMMA AudOverOfIs ==
    ASSUME NEW x \in Seq(Int), Len(x) = AudLength * AudRatio + AudTail,
           \A j \in 1..Len(x) : x[j] = AudNth(j)
    PROVE  x = AudOverOf(AudLength)
  <1>1. PICK z \in Nat : z = AudLength * AudRatio
    BY AudNumbers, AudRatioOf
  <1>2. PICK y : y = [i \in 1..z |-> i]
    OBVIOUS
  <1>3. y \in Seq(Int) /\ Len(y) = z /\ \A i \in 1..z : y[i] = i
    <2>1. y \in [1..z -> Int]
      BY <1>2
    <2> QED BY <1>2, <2>1
  <1>4. PICK s \in Seq(Int) : s = AudSilence
    BY AudSilenceIs
  <1>5. AudOverOf(AudLength) = s \o y
    BY <1>1, <1>2, <1>4 DEF AudOverOf
  <1>6. /\ s \o y \in Seq(Int) /\ Len(s \o y) = Len(s) + Len(y)
        /\ \A j \in 1..Len(s) : (s \o y)[j] = s[j]
        /\ \A i \in 1..Len(y) : (s \o y)[Len(s) + i] = y[i]
    <2>1. PICK u \in Seq(Int) : u = y
      BY <1>3
    <2>2. /\ s \o u \in Seq(Int) /\ Len(s \o u) = Len(s) + Len(u)
          /\ \A j \in 1..Len(s) : (s \o u)[j] = s[j]
          /\ \A i \in 1..Len(u) : (s \o u)[Len(s) + i] = u[i]
      BY AudJoined
    <2> QED BY <2>1, <2>2
  <1>7. PICK t \in Nat : t = AudTail
    BY AudNumbers
  <1>8. PICK v \in Seq(Int) : v = s \o y
    BY <1>6
  <1>9. /\ Len(v) = t + z /\ \A j \in 1..t : v[j] = 0
        /\ \A i \in 1..z : v[t + i] = i
    BY <1>3, <1>4, <1>6, <1>7, <1>8, AudSilenceIs
  <1>10. Len(x) = t + z
    BY <1>1, <1>7
  <1>11. ASSUME NEW j \in 1..Len(x) PROVE x[j] = v[j]
    <2>1. x[j] = AudNth(j)
      OBVIOUS
    <2>2. CASE j <= t
      <3>1. j \in 1..t
        BY <1>10, <2>2
      <3>2. AudNth(j) = 0
        BY <1>7, <2>2 DEF AudNth
      <3> QED BY <1>9, <2>1, <3>1, <3>2
    <2>3. CASE j > t
      <3>1. PICK i \in 1..z : j = t + i
        <4>1. j - t \in 1..z /\ j = t + (j - t)
          BY <1>10, <2>3
        <4> QED BY <4>1
      <3>2. AudNth(j) = i
        BY <1>7, <3>1 DEF AudNth
      <3> QED BY <1>9, <2>1, <3>1, <3>2
    <2>4. j <= t \/ j > t
      BY <1>10
    <2> QED BY <2>2, <2>3, <2>4, Zenon
  <1>12. x = v
    BY <1>9, <1>10, <1>11, SeqEqual
  <1> QED BY <1>5, <1>8, <1>12

\* The line is let go of: everything was heard.
LEMMA AudUnkeyKeeps ==
    ASSUME AudInv, ~aud.met, NEW fails \in BOOLEAN, AudUnkey(fails) PROVE AudInv'
  <1> DEFINE heard == audD.heard # AudOverOf(AudLength)
             t == audM.keyed /\ aud.fault = "none" /\ heard
             b == [s \in AudSlots |-> FALSE]
  <1>1. aud \in AudRings /\ audM \in AudModems /\ audD \in AudDevs
    BY DEF AudInv, AudTypes
  <1>2. /\ aud' = [(IF fails THEN AudFaultSet(aud, "ptt") ELSE aud) EXCEPT !.tx = FALSE, !.cbuf = b]
        /\ audM' = [audM EXCEPT !.pc = "clean", !.keyed = FALSE, !.cut = t]
        /\ audD' = [audD EXCEPT !.cap.now = FALSE] /\ audM.pc = "settle"
    BY DEF AudUnkey
  <1>3. t \in BOOLEAN /\ b \in [AudSlots -> BOOLEAN]
    BY <1>1 DEF AudModems
  <1>4. aud.fault = "none" => ~t
    <2> SUFFICES ASSUME aud.fault = "none" PROVE audD.heard = AudOverOf(AudLength)
      OBVIOUS
    <2>1. AudWhole(aud, audM, audD)
      BY DEF AudInv
    <2>2. /\ AudAvail(aud.pw, aud.pr) = 0 /\ audM.out = <<>> /\ Len(audM.out) = 0
          /\ AudInOrder(aud, audM, audD) /\ AudAllOut(aud, audM, audD)
      BY <1>2, <2>1 DEF AudWhole
    <2>3. PICK h \in Nat : h = Len(audD.heard)
      BY <1>1, LenProperties DEF AudDevs
    <2>4. h = AudLength * AudRatio + AudTail
      BY <2>2, <2>3 DEF AudAllOut
    <2>5. audD.heard \in Seq(Int) /\ \A j \in 1..Len(audD.heard) : audD.heard[j] = AudNth(j)
      BY <1>1, <2>2 DEF AudDevs, AudInOrder
    <2> QED BY <2>3, <2>4, <2>5, AudOverOfIs
  <1>5. ~t
    BY <1>4
  <1> HIDE DEF t, b
  <1>6. /\ aud' \in AudRings /\ aud'.met = aud.met
        /\ aud'.pw = aud.pw /\ aud'.pr = aud.pr /\ aud'.pbuf = aud.pbuf
        /\ (aud'.fault = "none" => aud.fault = "none")
    BY <1>1, <1>2, <1>3 DEF AudRings, AudFaultSet
  <1>7. /\ audM' \in AudModems /\ audM'.stale = audM.stale /\ ~audM'.cut
        /\ audM'.pc = "clean" /\ audM'.out = audM.out
    BY <1>1, <1>2, <1>3, <1>5 DEF AudModems
  <1>8. audD' \in AudDevs /\ audD'.play = audD.play /\ audD'.heard = audD.heard
    BY <1>1, <1>2 DEF AudDevs, AudTakes
  <1>9. AudTypes'
    BY <1>6, <1>7, <1>8 DEF AudTypes
  <1>10. ASSUME AudWhole(aud, audM, audD) PROVE AudWhole(aud', audM', audD')
    <2>1. AudFits(aud, audD) /\ AudAvail(aud.pw, aud.pr) = 0 /\ audM.out = <<>>
      BY <1>2, <1>10 DEF AudWhole
    <2>2. AudFits(aud', audD') /\ AudAvail(aud'.pw, aud'.pr) = 0 /\ audM'.out = <<>>
      BY <1>6, <1>7, <1>8, <2>1 DEF AudFits
    <2> QED BY <1>7, <2>2 DEF AudWhole
  <1> QED BY <1>6, <1>7, <1>9, <1>10 DEF AudInv

-----------------------------------------------------------------------------

AudSpec == (AudInit \/ AudOff) /\ [][AudNext]_audVars

\* The types, and where every sample of an over is, hold for rings, overs and
\* interpolators of every size.
THEOREM AudioInvariant == AudSpec => []AudInv
  <1>1. AudInit \/ AudOff => AudInv
    BY AudInitInv
  <1>2. AudInv /\ [AudNext]_audVars => AudInv'
    <2> SUFFICES ASSUME AudInv, [AudNext]_audVars PROVE AudInv'
      OBVIOUS
    <2>1. CASE AudModem
      BY <2>1, AudReadKeeps, AudKeyResetKeeps, AudKeyKeeps, AudWriteKeeps, AudUnkeyBeginKeeps,
         AudQueueKeeps, AudDrainKeeps, AudUnkeyKeeps, AudCleanKeeps DEF AudModem
    <2>2. CASE ~aud.met /\ AudClose
      BY <2>2, AudCloseKeeps
    <2>3. CASE AudDevices
      BY <2>3, AudCaptureKeeps, AudCapturedKeeps, AudPlayKeeps, AudPlayedKeeps, AudStallKeeps
      DEF AudDevices
    <2>4. CASE UNCHANGED audVars
      BY <2>4 DEF audVars, AudInv, AudTypes, AudFresh, AudWhole, AudFits, AudInOrder,
         AudHeldBehind, AudAllOut
    <2> QED BY <2>1, <2>2, <2>3, <2>4 DEF AudNext
  <1> QED BY <1>1, <1>2, PTL DEF AudSpec

\* An over that ends without a fault is heard to its last sample, and what the
\* modem reads was heard since it let go, wherever the callbacks of the two
\* devices come between its steps.
THEOREM AudSamplesAreWhole == AudSpec => []AudSamplesWhole
  <1>1. AudInv => AudSamplesWhole
    BY DEF AudInv, AudSamplesWhole, AudOverWhole, AudRxClean
  <1> QED BY <1>1, AudioInvariant, PTL
=============================================================================
