-------------------------------- MODULE Busy --------------------------------
(***************************************************************************)
(* The channel-busy detector (src/core/modem/busy.c) and the part of the  *)
(* runtime that feeds it (src/shell/runtime.c, feed_busy): windows of the *)
(* receiver's audio, a verdict on each, and the report a host sees, which *)
(* is raised after three busy windows and kept for a hold time.           *)
(*                                                                         *)
(* Time runs in windows (1024 samples, 85 ms).  The spectrum of a window  *)
(* is reduced to the two ratios of signal to baseline that sort_signals    *)
(* finds in it.  BsyOff is the detector switched off.                      *)
(***************************************************************************)
EXTENDS Integers, Sequences, FiniteSets

CONSTANTS
    BsyHold,     \* windows in BUSY_HOLD_MS; 58 in the code
    BsyWord,     \* the millisecond clock is an uint32_t: it wraps here
    BsyConfirm,  \* BUSY_CONFIRM_COUNT; 3 in the code
    BsyRatios,   \* <<narrow, wide>> ratios a window may have
    BsyDets,     \* sensitivities the host sets (BUSYDET 0..10)
    BsyWidths    \* ARQ bandwidths the host sets

ASSUME BsyClockAssumption == BsyHold \in Nat /\ BsyWord \in Nat /\ BsyWord > BsyHold + 1
ASSUME BsyConfirmAssumption == BsyConfirm \in Nat

VARIABLE bsy
\* det, width: the host's settings.  range: the width of the last window,
\* 0 before the first.  on, off: busy_on_count and busy_off_count, as far
\* as they are compared.  since: now_ms - last_trip, in the word.  busy:
\* last_busy, which is also what was reported.  idle: the link is in DISC.
\* calm: from here on the channel is quiet and the link idle.  For the
\* properties: heard, the verdicts on the latest windows; age, how long ago
\* a trip of four windows or more last was busy (BsyHold + 2: long ago).

BsyInit == \E d \in BsyDets, w \in BsyWidths :
    bsy = [det |-> d, width |-> w, range |-> 0, on |-> 0, off |-> 0, since |-> BsyHold,
           busy |-> FALSE, idle |-> TRUE, calm |-> FALSE, heard |-> <<>>, age |-> BsyHold + 2]
BsyOff == bsy = [idle |-> FALSE, busy |-> FALSE, calm |-> FALSE]
BsyRuns == "det" \in DOMAIN bsy

\* The thresholds, times a thousand.  The rolling average never averages:
\* its memory is a local, so a ratio counts a fifth, but for the narrow one
\* of the first window at a new width (busy.h, "A preserved accident").
BsyFourth(d) == d * d * d * d
BsyTrips(r) ==
    LET share == IF bsy.range = bsy.width THEN 5 ELSE 1
        slope == IF bsy.width \in {200, 500} THEN 20 ELSE 16
    IN  /\ bsy.det # 0
        /\ \/ 1000 * r[1] > share * (3000 + 8 * BsyFourth(bsy.det))
           \/ 1000 * r[2] > 5 * (5000 + slope * BsyFourth(bsy.det))

BsyLater(n) == IF n > BsyHold + 1 THEN n ELSE n + 1
BsyTick(b) == [b EXCEPT !.since = (@ + 1) % BsyWord, !.age = BsyLater(@)]

\* Mutant: the hold runs from the first window of a trip.
BsyCount_first(b, trips) ==
    IF trips
    THEN LET on == IF b.on > BsyConfirm THEN b.on ELSE b.on + 1
         IN  [b EXCEPT !.on = on, !.off = 0,
                       !.since = IF b.on = BsyConfirm THEN 0 ELSE @,
                       !.age = IF on > BsyConfirm THEN 0 ELSE @]
    ELSE [b EXCEPT !.off = IF @ < BsyConfirm THEN @ + 1 ELSE @, !.on = 0]
\* ardop_busy_detect, the counting half.
BsyCount(b, trips) ==
    IF trips
    THEN LET on == IF b.on > BsyConfirm THEN b.on ELSE b.on + 1
         IN  [b EXCEPT !.on = on, !.off = 0,
                       !.since = IF on > BsyConfirm THEN 0 ELSE @,
                       !.age = IF on > BsyConfirm THEN 0 ELSE @]
    ELSE [b EXCEPT !.off = IF @ < BsyConfirm THEN @ + 1 ELSE @, !.on = 0]

\* ... and the reporting half.
BsyReport(b) ==
    IF ~b.busy /\ b.on >= BsyConfirm THEN [b EXCEPT !.busy = TRUE]
    ELSE IF b.busy /\ b.since > BsyHold /\ b.off >= BsyConfirm
    THEN [b EXCEPT !.busy = FALSE]
    ELSE b

\* feed_busy: one more window of audio, only while the link is idle.
BsyWindow(r) ==
    /\ BsyRuns /\ bsy.idle
    /\ LET trips == BsyTrips(r)
           h == Append(bsy.heard, trips)
           b == BsyReport(BsyCount(BsyTick(bsy), trips))
       IN  bsy' = [b EXCEPT !.range = bsy.width,
                     !.heard = IF Len(h) > BsyConfirm THEN Tail(h) ELSE h]
BsyQuiet == BsyWindow(<<0, 0>>)
BsyAny == BsyRuns /\ ~bsy.calm /\ \E r \in BsyRatios : BsyWindow(r)

\* A session: the detector is not fed, and the clock runs on.
BsyLeave == BsyRuns /\ bsy.idle /\ ~bsy.calm /\ bsy' = [bsy EXCEPT !.idle = FALSE]
BsyAway == BsyRuns /\ ~bsy.idle /\ bsy' = BsyTick(bsy)
BsyBack == BsyRuns /\ ~bsy.idle /\ bsy' = [bsy EXCEPT !.idle = TRUE]

\* The host's BUSYDET and ARQBW.
BsySet == /\ BsyRuns
          /\ ~bsy.calm
          /\ \E d \in BsyDets, w \in BsyWidths : bsy' = [bsy EXCEPT !.det = d, !.width = w]

\* From here on nobody transmits.
BsyCalm == BsyRuns /\ bsy.idle /\ ~bsy.calm /\ bsy' = [bsy EXCEPT !.calm = TRUE]

BsyNext == BsyQuiet \/ BsyAny \/ BsyLeave \/ BsyAway \/ BsyBack \/ BsySet \/ BsyCalm
\* An idle link is fed for as long as the sound card runs.
BsyFair == WF_bsy(BsyQuiet)

----------------------------------------------------------------------------
\* The report changes only on evidence: up after three busy windows in a
\* row, down after three quiet ones and, if a fourth busy window had
\* confirmed the trip, not before the hold time since the last of them --
\* across sessions the detector sleeps through, and a clock that wraps.
BsyEvidence ==
    [][BsyRuns /\ bsy'.busy # bsy.busy =>
         /\ Len(bsy'.heard) = BsyConfirm
         /\ \A i \in 1..BsyConfirm : bsy'.heard[i] = bsy'.busy
         /\ ~bsy'.busy => bsy'.age > BsyHold]_bsy

\* A channel that has gone quiet is eventually reported free.
BsyClears == bsy.calm ~> ~bsy.busy
=============================================================================
