-------------------------------- MODULE Demod --------------------------------
(***************************************************************************)
(* The receiver (src/core/modem/demodulate.c): ardop_demod_push, from the  *)
(* samples held back to the frame reported.  What the filters and the      *)
(* correlators find is an input; what is kept is every buffer and every    *)
(* position in it, in samples, because a frame starts anywhere in a block  *)
(* and each stage waits for as many samples as it is going to read.        *)
(***************************************************************************)
EXTENDS Naturals, Integers, Sequences, FiniteSets

CONSTANTS DemBlocks,      \* sizes of the blocks the backend delivers
          DemPlaces,      \* where envelope_correlator finds the symbol
          DemFines,       \* samples from there to the least phase error
          DemSyncs,       \* which of the symbols looked at is the sync symbol
          DemFrames,      \* frame types on the air, of DemSpecs
          DemBudget       \* bound: blocks with something in them

ASSUME DemAssumption ==
    /\ DemBlocks \subseteq 1..1200 /\ DemBlocks # {}
    /\ DemPlaces \subseteq -1..359 /\ DemFines \subseteq -2..2
    /\ DemSyncs \subseteq Nat /\ DemBudget \in Nat

VARIABLE dem

DemRaw == 2400          \* raw[], and mixed[] of the mixer
DemMixed == 5000        \* filtered_mixed[]
DemSymbols == 520       \* ARDOP_DEMOD_MAX_PSK_SYMBOLS
DemCarrierBytes == 256  \* ARDOP_DEMOD_MAX_CARRIER_BYTES
DemPayload == 1024      \* ARDOP_DEMOD_MAX_PAYLOAD
DemSyncLimit == 12000   \* samples without frame sync

DemStates == {"LEADER", "SYMBOL", "SYNC", "TYPE", "FRAME"}

\* frame_table: modulation, baud, carriers, data and RS bytes of a carrier; odd
\* types have the shape of the even ones.
DemSpecs ==
    LET s(mod, baud, car, data, rs) ==
            [mod |-> mod, baud |-> baud, car |-> car, data |-> data, rs |-> rs]
        psk == {s("4PSK", 100, c, 64, 32) : c \in {1, 2, 4, 8}} \cup
               {s("8PSK", 100, c, 108, 36) : c \in {1, 2, 4, 8}} \cup
               {s("16QAM", 100, c, 128, 64) : c \in {1, 2, 4, 8}} \cup
               {s("4PSK", 100, 1, 16, 8)}
        fsk == {s("4FSK", 50, 1, 16, 4), s("4FSK", 100, 1, 64, 16), s("4FSK", 100, 1, 32, 8),
                s("4FSK", 600, 1, 600, 150), s("4FSK", 600, 1, 200, 50)}
        control == {s("4FSK", 50, 1, 12, 4), s("4FSK", 50, 1, 3, 0)}
        short == {s("4FSK", 50, 1, 0, 0)}
    IN  [data |-> psk \cup fsk, control |-> control, short |-> short]

DemAllSpecs == DemSpecs.data \cup DemSpecs.control \cup DemSpecs.short
ASSUME DemFramesAssumption == DemFrames \subseteq DemAllSpecs

DemNoFrame == [mod |-> "4FSK", baud |-> 50, car |-> 1, data |-> 0, rs |-> 0]

-----------------------------------------------------------------------------
(* Buffers. *)

DemAvail(d) == d.len - d.ptr

\* clear_mixed.
DemClear(d) == [d EXCEPT !.len = 0, !.ptr = 0]

\* Back to the search, with nothing kept.
DemGiveUp(d) == [DemClear(d) EXCEPT !.st = "LEADER"]

\* compact_mixed.
DemCompact(d) == [d EXCEPT !.len = IF d.len < d.ptr THEN 0 ELSE d.len - d.ptr, !.ptr = 0]

\* A read of samples up to place n: those past len are of an earlier frame.
DemRead(d, n) == [d EXCEPT !.stale = @ \/ n > d.len]

\* ardop_demod_mix_filter, fs_mix_filter_2000hz.
DemMix(d, n) == [d EXCEPT !.len = @ + n, !.mixed = n, !.top = d.len + n]

-----------------------------------------------------------------------------
(* The leader. *)

\* ardop_demod_leader_search on one window: rejected and forgotten, too weak
\* to count, or strong at an offset, which must agree with the one before.
DemProbe(d, found) ==
    CASE found = "reject" -> [d EXCEPT !.prior = "none"]
      [] found = "weak" -> d
      [] OTHER -> IF d.prior = found
                  THEN [d EXCEPT !.prior = "none", !.st = "SYMBOL", !.since = 0,
                                 !.len = 0, !.ptr = 30, !.leaders = 1]
                  ELSE [d EXCEPT !.prior = found]

DemFindings == {"reject", "weak", "low", "high"}

\* The search hops 240 samples at a time while 1200 are there; [d, n] pairs.
DemHop(x) ==
    IF x.d.st = "LEADER" /\ x.n >= 1200
    THEN {[d |-> p, n |-> x.n - (IF p.st = "LEADER" THEN 240 ELSE 480)] :
             p \in {DemProbe(x.d, f) : f \in DemFindings}}
    ELSE {x}
DemHops(xs) == UNION {DemHop(x) : x \in xs}
DemSearch(d, n) ==
    LET hops[k \in 0..(1 + (n \div 240))] ==
            IF k = 0 THEN {[d |-> d, n |-> n]} ELSE DemHops(hops[k - 1])
    IN  hops[1 + (n \div 240)]

-----------------------------------------------------------------------------
(* Synchronisation. *)

\* ardop_demod_symbol_framing: the correlator's place, or one before the
\* pointer (-1) when it found none, and up to two samples to either side.
DemSymbolFraming(d, place, fine) ==
    LET c == IF d.len < d.ptr + 720 THEN -1 ELSE place
    IN  IF DemAvail(d) <= 860 THEN d
        ELSE [DemRead(d, d.ptr + c + 2 + 120) EXCEPT !.ptr = @ + c + fine, !.st = "SYNC"]

\* Mutant: the search for the sync symbol never given up.
DemFrameSync_patient(d, k) ==
    LET n == DemAvail(d) \div 240
    IN  DemCompact(IF n < 3 THEN d
                   ELSE IF k \in 1..(n - 2) THEN [d EXCEPT !.ptr = @ + 240 * (k + 2), !.st = "TYPE"]
                   ELSE [d EXCEPT !.ptr = @ + 240 * (n - 2)])

\* ardop_demod_frame_sync, compaction and the limit: the sync symbol is the
\* k-th looked at, or there is none among those there are (k = 0).
DemFrameSync(d, k) ==
    LET n == DemAvail(d) \div 240
        moved == IF n < 3 THEN d
                 ELSE IF k \in 1..(n - 2)
                 THEN [d EXCEPT !.ptr = @ + 240 * (k + 2), !.st = "TYPE"]
                 ELSE [d EXCEPT !.ptr = @ + 240 * (n - 2)]
        kept == DemCompact(moved)
    IN  IF d.since > DemSyncLimit THEN DemGiveUp(kept) ELSE kept

\* acquire_frame_type waits for ten and a half.
DemTypeNeeds == 2520

\* is_short_control_frame.
DemShort(f) == f \in DemSpecs.short
DemIsData(f) == f \in DemSpecs.data

\* The frame-600 type is three blocks, one after another on one carrier.
DemSix(f) == f.mod = "4FSK" /\ f.data = 600
DemBlocksOf(f) == IF DemSix(f) THEN 3 ELSE f.car
DemBlockBytes(f) ==
    (IF DemSix(f) THEN 250 ELSE f.data + f.rs) + (IF DemIsData(f) THEN 3 ELSE 0)

\* Bytes a carrier streams.
DemLeft(f) == IF DemSix(f) THEN 3 * DemBlockBytes(f) ELSE DemBlockBytes(f)

\* The frame type: poor or unknown, a frame that is complete with it, or one
\* whose data follow.  A PSK frame reads its training symbol at once.
DemFrameType(d, f, poor) ==
    LET read == DemRead(d, d.ptr + 2400)
        rest == DemCompact([read EXCEPT !.ptr = @ + 2400])
        trained == IF f.mod = "4FSK" THEN rest ELSE DemRead(rest, 120)
    IN  IF DemAvail(d) < DemTypeNeeds THEN d
        ELSE IF poor THEN DemGiveUp(read)
        ELSE IF DemShort(f) THEN [DemGiveUp(rest) EXCEPT !.frames = 1]
        ELSE [trained EXCEPT !.st = "FRAME", !.f = f, !.left = DemLeft(f), !.symbols = 0,
                             !.chars = 0, !.trained = FALSE]

-----------------------------------------------------------------------------
(* The frame. *)

DemSamples(f) == 12000 \div f.baud
DemMode(f) == IF f.mod = "4PSK" THEN 4 ELSE 8

\* What one character needs in the buffer, what it uses, the bytes it gives
\* and the symbols it adds to a carrier.
DemNeed(f) == CASE f.mod = "4FSK" -> (9 * DemSamples(f)) \div 2
                [] f.mod = "16QAM" -> 8 * DemSamples(f) + 10
                [] OTHER -> (3 * DemMode(f) * DemSamples(f)) \div 2
DemUsed(f) == CASE f.mod = "4FSK" -> 4 * DemSamples(f)
                [] f.mod = "16QAM" -> 2 * DemSamples(f)
                [] OTHER -> DemMode(f) * DemSamples(f)
DemBytes(f) == IF f.mod = "8PSK" THEN 3 ELSE 1
DemCharSymbols(f) == CASE f.mod = "4FSK" -> 0 [] f.mod = "16QAM" -> 2 [] OTHER -> DemMode(f)
DemFirst(f) == CASE f.mod = "4FSK" -> 0
                 [] f.mod = "16QAM" -> 9 * DemSamples(f) + 10
                 [] OTHER -> (5 * DemMode(f) * DemSamples(f)) \div 2

\* ardop_demod_psk_init within the frame, once, when a character follows.
DemTrain(d) ==
    IF d.trained \/ d.f.mod = "4FSK" \/ d.len < DemFirst(d.f) THEN d
    ELSE [DemRead(d, 120) EXCEPT !.len = @ - DemSamples(d.f), !.trained = TRUE]

\* deliver_frame, deliver_content_control: every carrier must decode.
DemDeliver(d) == [DemGiveUp(d) EXCEPT !.frames = 1]

\* Mutant: the end of a frame only when its bytes come out even.
DemStream_exact(d) ==
    LET t == DemTrain(d)
        ready == t.f.mod = "4FSK" \/ t.trained
        can == IF ~ready \/ t.len < DemNeed(t.f) THEN 0
               ELSE 1 + ((t.len - DemNeed(t.f)) \div DemUsed(t.f))
        want == 1 + (t.left \div DemBytes(t.f))
        k == IF can < want THEN can ELSE want
        s == [DemRead(t, k * DemUsed(t.f)) EXCEPT
                 !.len = @ - k * DemUsed(t.f), !.left = @ - k * DemBytes(t.f),
                 !.symbols = @ + k * DemCharSymbols(t.f), !.chars = @ + k]
    IN  IF s.left = 0 THEN DemDeliver(s) ELSE s

\* The streaming loops: characters while the buffer has enough for one.
DemStream(d) ==
    LET t == DemTrain(d)
        ready == t.f.mod = "4FSK" \/ t.trained
        can == IF ~ready \/ t.len < DemNeed(t.f) THEN 0
               ELSE 1 + ((t.len - DemNeed(t.f)) \div DemUsed(t.f))
        want == (t.left + DemBytes(t.f) - 1) \div DemBytes(t.f)
        k == IF can < want THEN can ELSE want
        s == [DemRead(t, k * DemUsed(t.f)) EXCEPT
                 !.len = @ - k * DemUsed(t.f), !.left = @ - k * DemBytes(t.f),
                 !.symbols = @ + k * DemCharSymbols(t.f), !.chars = @ + k]
    IN  IF s.left <= 0 THEN DemDeliver(s) ELSE s

-----------------------------------------------------------------------------
(* One block. *)

\* What a block may hold: where the symbol is, how far off, which symbol is the
\* sync, which frame, and whether its type is read well.
DemHeard == [places |-> DemPlaces, fines |-> DemFines, syncs |-> DemSyncs,
             frames |-> DemFrames, poors |-> BOOLEAN]
DemNothing == [places |-> {-1}, fines |-> {0}, syncs |-> {0}, frames |-> {DemNoFrame},
               poors |-> {TRUE}]

\* The stages after mixing, each entered when the one before it got there.
DemStages(d, in) ==
    LET a == IF d.st # "SYMBOL" THEN {d}
             ELSE {DemSymbolFraming(d, p, fine) : p \in in.places, fine \in in.fines}
        b == UNION {IF x.st # "SYNC" THEN {x} ELSE {DemFrameSync(x, k) : k \in in.syncs} : x \in a}
        c == UNION {IF x.st # "TYPE" THEN {x}
                    ELSE {DemFrameType(x, f, poor) : f \in in.frames, poor \in in.poors} : x \in b}
    IN  {IF x.st = "FRAME" THEN DemStream(x) ELSE x : x \in c}

\* ardop_demod_push up to the search: fewer than 1024 samples are held.  What a
\* frame left behind is not looked at again.
DemBlock(n) ==
    [dem EXCEPT !.raw = 0, !.held = dem.raw + n, !.top = 0, !.mixed = 0,
                !.leaders = 0, !.frames = 0,
                !.f = IF dem.st = "FRAME" THEN @ ELSE DemNoFrame,
                !.symbols = IF dem.st = "FRAME" THEN @ ELSE 0,
                !.since = IF @ > DemSyncLimit THEN @ ELSE @ + n]

\* ardop_demod_push; a search that finds no leader holds its tail.
DemPush(n) ==
    LET d == [DemBlock(n) EXCEPT !.budget = @ - 1]
        held == dem.raw + n
    IN  /\ dem.budget > 0
        /\ IF held < 1024 THEN dem' = [d EXCEPT !.raw = held]
           ELSE \E x \in IF d.st = "LEADER" THEN DemSearch(d, held)
                         ELSE {[d |-> d, n |-> held]} :
                   IF x.d.st = "LEADER" THEN dem' = [x.d EXCEPT !.raw = x.n]
                   ELSE dem' \in DemStages(DemMix(x.d, x.n), DemHeard)

\* A block of noise: what was begun goes on, nothing new is found.
DemNoise(n) ==
    LET d == [DemBlock(n) EXCEPT !.prior = "none"]
        held == dem.raw + n
    IN  /\ dem.st # "LEADER"
        /\ IF held < 1024 THEN dem' = [d EXCEPT !.raw = held]
           ELSE dem' \in DemStages(DemMix(d, held), DemNothing)

\* ardop_demod_init.
DemStart(budget) ==
    [st |-> "LEADER", prior |-> "none", raw |-> 0, held |-> 0, len |-> 0, top |-> 0,
     ptr |-> 0, mixed |-> 0, since |-> 0, f |-> DemNoFrame, left |-> 0, symbols |-> 0, chars |-> 0,
     trained |-> FALSE, leaders |-> 0, frames |-> 0, stale |-> FALSE, budget |-> budget]

DemInit == dem = DemStart(DemBudget)

\* A receiver that hears nothing.
DemOff == dem = DemStart(0)

DemNext == \E n \in DemBlocks : DemPush(n) \/ DemNoise(n)

\* The audio goes on.
DemFairness == WF_dem(\E n \in DemBlocks : DemNoise(n))

-----------------------------------------------------------------------------
(* Properties. *)

\* No block overflows a buffer, wherever in it a frame began, however long the
\* samples before it were held, and for every frame there is: the raw samples,
\* the mixer's, the baseband, the symbols and bytes of a carrier, the payload.
DemRoom ==
    /\ dem.held <= DemRaw /\ dem.mixed <= DemRaw
    /\ dem.len >= 0 /\ dem.top <= DemMixed
    /\ dem.symbols <= DemSymbols
    /\ DemBlockBytes(dem.f) + (IF dem.f.mod = "8PSK" THEN 2 ELSE 0) <= DemCarrierBytes
    /\ DemBlocksOf(dem.f) * (IF DemSix(dem.f) THEN 200 ELSE dem.f.data) <= DemPayload

\* No stage reads samples that are not there yet: the buffer still holds those
\* of an earlier frame, and nothing else would tell.
DemNoStaleRead == ~dem.stale /\ dem.ptr >= 0

\* Every buffer is written within its bounds and read within what was written.
DemBuffersHold == DemRoom /\ DemNoStaleRead

\* Whatever the receiver took for a frame, it comes back to listening.
DemReturns == (dem.st # "LEADER") ~> (dem.st = "LEADER")
=============================================================================
