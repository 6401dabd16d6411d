-------------------------------- MODULE Audio --------------------------------
(***************************************************************************)
(* The miniaudio backend (src/shell/backend_ma.c) over its two sample      *)
(* rings (src/shell/ring.c): the modem thread that keys, writes, drains,   *)
(* unkeys and reads, and the two device callbacks that run beside it on    *)
(* threads of the audio system.                                            *)
(*                                                                         *)
(* The modem's operations on a ring are single steps: beside them the      *)
(* other side only makes more room or more samples.  A callback is two     *)
(* steps, the counters it loads and the counter it stores, for the modem   *)
(* resets both counters of a ring at the edges of an over.                 *)
(***************************************************************************)
EXTENDS Integers, Sequences

CONSTANTS AudCap,       \* samples a ring holds
          AudWord,      \* size_t of the counters, a multiple of AudCap
          AudRatio,     \* m: device samples of a modem sample
          AudTail,      \* device samples the interpolator holds back
          AudFrames,    \* samples a callback moves
          AudLength,    \* modem samples of an over
          AudOvers,     \* bound: overs
          AudStalls     \* devices that may stop calling back

ASSUME AudAssumption ==
    /\ AudCap \in Nat \ {0} /\ AudWord \in Nat
    /\ AudWord % AudCap = 0 /\ AudWord > 2 * AudCap
    /\ AudRatio \in 1..AudCap /\ AudTail \in Nat /\ AudFrames \in 1..AudCap
    /\ AudLength \in Nat /\ AudOvers \in Nat
    /\ AudStalls \subseteq {"capture", "playback"}

VARIABLES aud,      \* ardop_ma_backend: the rings, the signals, the flags
          audM,     \* the modem thread
          audD      \* the devices

audVars == <<aud, audM, audD>>

AudSlots == 0..(AudCap - 1)

\* ardop_ring_avail: unsigned arithmetic.
AudAvail(w, r) == (w - r) % AudWord
AudSpace(w, r) == (AudCap - AudAvail(w, r)) % AudWord
AudLeast(a, b) == IF a < b THEN a ELSE b

\* The copy of ardop_ring_write, and that of ardop_ring_read.
AudPut(buf, w, xs) ==
    [s \in AudSlots |-> IF \E i \in 1..Len(xs) : (w + i - 1) % AudCap = s
                        THEN xs[CHOOSE i \in 1..Len(xs) : (w + i - 1) % AudCap = s]
                        ELSE buf[s]]
AudGet(buf, r, n) == [i \in 1..n |-> buf[(r + i - 1) % AudCap]]

\* fault_set: the first wins.
AudFaultSet(a, f) == [a EXCEPT !.fault = IF @ = "none" THEN f ELSE @]

AudSilence == [i \in 1..AudTail |-> 0]

\* ardop_resample, interpolating: what comes out is what went in AudTail ago.
AudResample(held, xs) ==
    [out |-> SubSeq(held \o xs, 1, Len(xs)),
     held |-> SubSeq(held \o xs, Len(xs) + 1, Len(xs) + AudTail)]

\* An over of so many modem samples as it is to be heard: its samples are
\* numbered, behind the silence that the interpolator begins with.
AudOverOf(length) == AudSilence \o [i \in 1..(length * AudRatio) |-> i]

-----------------------------------------------------------------------------
(* The callbacks. *)

\* capture_cb: what is heard during an over is dropped.
AudCapture ==
    /\ audD.capLive /\ ~audD.cap.on
    /\ ~aud.tx
    /\ audD' = [audD EXCEPT !.cap = [on |-> TRUE, at |-> aud.cw, now |-> TRUE,
                                     n |-> AudLeast(AudFrames, AudSpace(aud.cw, aud.cr))]]
    /\ UNCHANGED <<aud, audM>>

\* Its copy, its store, its post.
AudCaptured ==
    LET c == audD.cap
    IN  /\ c.on
        /\ aud' = [aud EXCEPT !.cbuf = AudPut(@, c.at, [i \in 1..c.n |-> c.now]),
                              !.cw = IF c.n = 0 THEN @ ELSE (c.at + c.n) % AudWord,
                              !.capPost = TRUE]
        /\ audD' = [audD EXCEPT !.cap.on = FALSE]
        /\ UNCHANGED audM

\* playback_cb: silence when there is nothing.
AudPlay ==
    LET n == AudLeast(AudFrames, AudAvail(aud.pw, aud.pr))
    IN  /\ audD.playLive /\ ~audD.play.on
        /\ IF n = 0 THEN aud' = [aud EXCEPT !.playPost = TRUE] /\ UNCHANGED audD
           ELSE /\ audD' = [audD EXCEPT !.play = [on |-> TRUE, at |-> aud.pr, n |-> n]]
                /\ UNCHANGED aud
        /\ UNCHANGED audM

AudPlayed ==
    LET p == audD.play
    IN  /\ p.on
        /\ aud' = [aud EXCEPT !.pr = (p.at + p.n) % AudWord, !.playPost = TRUE]
        /\ audD' = [audD EXCEPT
               !.play.on = FALSE, !.heard = @ \o AudGet(aud.pbuf, p.at, p.n)]
        /\ UNCHANGED audM

\* A device that is unplugged stops calling back.
AudStall(dev) ==
    /\ dev \in AudStalls
    /\ audD' = IF dev = "capture" THEN [audD EXCEPT !.capLive = FALSE]
                                  ELSE [audD EXCEPT !.playLive = FALSE]
    /\ audD' # audD
    /\ ~audD.cap.on /\ ~audD.play.on
    /\ UNCHANGED <<aud, audM>>

-----------------------------------------------------------------------------
(* The modem thread: reading. *)

\* ma_read_audio: whole modem samples; none in time is a device lost.
AudRead ==
    LET avail == AudAvail(aud.cw, aud.cr)
        got == AudGet(aud.cbuf, aud.cr, AudRatio)
    IN  /\ audM.pc = "rx" /\ aud.fault = "none"
        /\ IF avail >= AudRatio
           THEN /\ aud' = [aud EXCEPT !.cr = (@ + AudRatio) % AudWord]
                /\ audM' = [audM EXCEPT !.stale = @ \/ \E i \in 1..AudRatio : ~got[i]]
           ELSE /\ UNCHANGED audM
                /\ IF aud.capPost THEN aud' = [aud EXCEPT !.capPost = FALSE]
                   ELSE ~audD.capLive /\ aud' = AudFaultSet(aud, "capture")
        /\ UNCHANGED audD

-----------------------------------------------------------------------------
(* The modem thread: an over. *)

\* ma_set_ptt(true), the first store of ardop_ring_reset.
AudKeyReset ==
    /\ audM.pc = "rx" /\ aud.fault = "none"
    /\ audM.overs > 0
    /\ aud' = [aud EXCEPT !.pr = 0]
    /\ audM' = [audM EXCEPT !.pc = "key", !.overs = @ - 1]
    /\ UNCHANGED audD

\* Its second store, and the rest: a callback that loaded a counter before, or
\* stored one since, meets the reset.
AudKey ==
    /\ audM.pc = "key"
    /\ aud' = [aud EXCEPT !.pw = 0, !.tx = TRUE, !.met = @ \/ aud.pr # 0 \/ audD.play.on,
                          !.pbuf = [s \in AudSlots |-> IF @[s] = 0 THEN 0 ELSE -1]]
    /\ audM' = [audM EXCEPT !.pc = "tx", !.keyed = TRUE, !.sent = 0, !.held = AudSilence]
    /\ audD' = [audD EXCEPT !.heard = <<>>]

\* ma_write_audio, one chunk through the interpolator.
AudWrite ==
    LET ids == [i \in 1..AudRatio |-> audM.sent * AudRatio + i]
        rs == AudResample(audM.held, ids)
    IN  /\ audM.pc = "tx" /\ aud.fault = "none"
        /\ audM.sent < AudLength
        /\ audM' = [audM EXCEPT !.pc = "write", !.sent = @ + 1, !.held = rs.held, !.out = rs.out]
        /\ UNCHANGED <<aud, audD>>

\* Mutant: nothing of what the interpolator holds is asked for.
AudTailOf_none(held) == <<>>

\* ardop_resample_flush.
AudTailOf(held) == held

\* ma_set_ptt(false), the tail; where a fault was seen, to leave.
AudUnkeyBegin ==
    /\ audM.pc \in {"rx", "tx"}
    /\ \/ audM.pc = "tx" /\ audM.sent = AudLength
       \/ aud.fault # "none"
    /\ audM' = [audM EXCEPT !.pc = "flush", !.out = AudTailOf(audM.held), !.held = AudSilence,
                            !.last = aud.fault # "none"]
    /\ UNCHANGED <<aud, audD>>

\* Mutant: a full ring is waited for as long as it takes.
AudGiveUp_never == FALSE

\* DRAIN_TIMEOUT_MS: a device that calls back does so in time.
AudGiveUp == ~aud.playPost /\ ~audD.playLive

\* The loops around ardop_ring_write.
AudQueue ==
    LET n == AudLeast(Len(audM.out), AudSpace(aud.pw, aud.pr))
        rest == SubSeq(audM.out, n + 1, Len(audM.out))
        next == IF audM.pc = "write" THEN "tx" ELSE "drain"
        put == [aud EXCEPT !.pbuf = AudPut(@, aud.pw, SubSeq(audM.out, 1, n)),
                           !.pw = (@ + n) % AudWord]
    IN  /\ audM.pc \in {"write", "flush"}
        /\ \/ /\ rest = <<>>
              /\ aud' = put /\ audM' = [audM EXCEPT !.pc = next, !.out = <<>>]
           \/ /\ rest # <<>> /\ (n > 0 \/ aud.playPost)
              /\ aud' = [put EXCEPT !.playPost = FALSE] /\ audM' = [audM EXCEPT !.out = rest]
           \/ /\ rest # <<>> /\ n = 0 /\ AudGiveUp
              /\ aud' = AudFaultSet(aud, "playback")
              /\ audM' = [audM EXCEPT !.pc = next, !.out = <<>>]
        /\ UNCHANGED audD

\* Until the device took the ring.
AudDrain ==
    LET empty == AudAvail(aud.pw, aud.pr) = 0
    IN  /\ audM.pc = "drain"
        /\ \/ /\ empty
              /\ audM' = [audM EXCEPT !.pc = "settle"] /\ UNCHANGED aud
           \/ /\ ~empty /\ aud.playPost
              /\ aud' = [aud EXCEPT !.playPost = FALSE] /\ UNCHANGED audM
           \/ /\ ~empty /\ AudGiveUp
              /\ aud' = AudFaultSet(aud, "playback")
              /\ audM' = [audM EXCEPT !.pc = "settle"]
        /\ UNCHANGED audD

\* ardop_ptt_set(false), which may fail, and the end of the over.
AudUnkey(fails) ==
    /\ audM.pc = "settle"
    /\ aud' = [(IF fails THEN AudFaultSet(aud, "ptt") ELSE aud) EXCEPT
                   !.tx = FALSE, !.cbuf = [s \in AudSlots |-> FALSE]]
    /\ audM' = [audM EXCEPT !.pc = "clean", !.keyed = FALSE,
                            !.cut = audM.keyed /\ aud.fault = "none"
                                    /\ audD.heard # AudOverOf(AudLength)]
    /\ audD' = [audD EXCEPT !.cap.now = FALSE]

\* ardop_ring_reset of the capture ring; the consumer's counter is its own, so
\* only the second store meets a callback.
AudClean ==
    /\ audM.pc = "clean"
    /\ aud' = [aud EXCEPT !.cr = 0, !.cw = 0, !.met = @ \/ audD.cap.on]
    /\ audM' = [audM EXCEPT !.pc = IF audM.last THEN "over" ELSE "rx"]
    /\ UNCHANGED audD

\* ardop_backend_ma_close: the line first.
AudClose ==
    /\ audM.pc \in {"rx", "tx"}
    /\ audM' = [audM EXCEPT !.pc = "over", !.keyed = FALSE]
    /\ audD' = [audD EXCEPT !.capLive = FALSE, !.playLive = FALSE, !.cap.on = FALSE,
                            !.play.on = FALSE]
    /\ UNCHANGED aud

-----------------------------------------------------------------------------

\* ardop_backend_ma_open.
AudStart(pc, live) ==
    /\ aud = [cw |-> 0, cr |-> 0, cbuf |-> [s \in AudSlots |-> TRUE],
              pw |-> 0, pr |-> 0, pbuf |-> [s \in AudSlots |-> 0],
              capPost |-> FALSE, playPost |-> FALSE, tx |-> FALSE, fault |-> "none",
              met |-> FALSE]
    /\ audM = [pc |-> pc, keyed |-> FALSE, sent |-> 0, held |-> AudSilence, out |-> <<>>,
               overs |-> AudOvers, last |-> FALSE, stale |-> FALSE, cut |-> FALSE]
    /\ audD = [capLive |-> live, playLive |-> live, heard |-> <<>>,
               cap |-> [on |-> FALSE, at |-> 0, now |-> TRUE, n |-> 0],
               play |-> [on |-> FALSE, at |-> 0, n |-> 0]]

AudInit == AudStart("rx", TRUE)

\* A backend that was closed.
AudOff == AudStart("over", FALSE)

\* A reset that met a callback is undefined behaviour: what the callback
\* stores is still looked at, nothing after it.
AudModem ==
    /\ ~aud.met
    /\ \/ AudRead
       \/ AudKeyReset
       \/ AudKey
       \/ AudWrite
       \/ AudUnkeyBegin
       \/ AudQueue
       \/ AudDrain
       \/ \E fails \in BOOLEAN : AudUnkey(fails)
       \/ AudClean

AudDevices ==
    \/ ~aud.met /\ AudCapture
    \/ AudCaptured
    \/ ~aud.met /\ AudPlay
    \/ AudPlayed
    \/ \E dev \in AudStalls : ~aud.met /\ AudStall(dev)

AudNext == AudModem \/ (~aud.met /\ AudClose) \/ AudDevices

\* The threads run, and a device that lives calls back.
AudFairness ==
    /\ WF_audVars(AudModem)
    /\ WF_audVars(~aud.met /\ AudCapture) /\ WF_audVars(AudCaptured)
    /\ WF_audVars(~aud.met /\ AudPlay) /\ WF_audVars(AudPlayed)

-----------------------------------------------------------------------------
(* Properties. *)

\* An over let go of without a fault was played to its last sample: nothing is
\* left in the ring, nor in the interpolator.
AudOverWhole == ~aud.met => ~audM.cut

\* What the modem reads was heard since it last let go, not before.
AudRxClean == ~aud.met => ~audM.stale

\* An over and what is heard after it are whole and apart.
AudSamplesWhole == AudOverWhole /\ AudRxClean

\* "the difference w - r is bounded by cap regardless" (ring.h).  The code does
\* not keep this: a reset beside a running callback puts the reader's counter
\* before or behind the writer's, and the difference wraps.
AudRingBounded ==
    AudAvail(aud.cw, aud.cr) <= AudCap /\ AudAvail(aud.pw, aud.pr) <= AudCap

\* A transmitter that is keyed is let go of, whatever stops calling back.
AudLetsGo == audM.keyed ~> (~audM.keyed \/ aud.met)

\* A capture device that is gone is seen to be.
AudLossSeen == ~audD.capLive ~> (aud.fault # "none" \/ audM.pc = "over" \/ aud.met)
=============================================================================
