------------------------------- MODULE Capture -------------------------------
(***************************************************************************)
(* What a session leaves on disk: the capture (src/shell/capture.c), one   *)
(* packet per event, read back by ardop-pcap-dump                          *)
(* (src/apps/ardop_pcap_dump.c), and the recording (src/shell/wavwriter.c),*)
(* whose header is written again after every block.                        *)
(*                                                                         *)
(* The process may be killed between any two calls of stdio: the file is   *)
(* then what the calls put on disk, without what stdio still held.  A      *)
(* scalar of any width is one unit, and so is the header of a packet.      *)
(***************************************************************************)
EXTENDS Naturals, Sequences, SequencesExt

CONSTANTS CptMax,       \* ARDOP_CAPTURE_MAX_RECORD, in units
          CptBuf,       \* what stdio holds
          CptRoom,      \* room on the disk
          CptFreed,     \* room made later
          CptLens,      \* lengths of a tag, of a payload
          CptWrites,    \* bound: events
          WavWord,      \* UINT32_MAX + 1
          WavBlocks,    \* lengths of a block
          WavRoom,      \* room on the disk, in samples
          WavHeard      \* bound: samples heard

ASSUME CptAssumption ==
    /\ CptMax \in Nat /\ CptMax >= 8 /\ CptBuf \in Nat /\ CptMax < CptBuf
    /\ CptRoom \in Nat /\ CptFreed \in Nat /\ CptWrites \in Nat
    /\ CptLens \subseteq Nat /\ 0 \in CptLens /\ WavWord \in Nat /\ WavWord >= 2
    /\ WavRoom \in Nat /\ WavHeard \in Nat
    /\ WavBlocks \subseteq Nat \ {0}
    /\ \E longest \in WavBlocks : \A n \in WavBlocks : n <= longest

VARIABLES cpt,      \* ardop_capture and its file
          wav       \* ardop_wav_writer and its file

cptVars == <<cpt, wav>>

CptLeast(a, b) == IF a < b THEN a ELSE b

-----------------------------------------------------------------------------
(* Records. *)

CptScalars == {"leader", "ptt", "bandwidth", "busy"}
CptFrames == {"rx", "tx", "failed"}
CptTexts == {"state", "host"}

\* An event: n is in every scalar and every byte it carries.
CptEvent(kind, n, tag, payload) == [kind |-> kind, n |-> n, tag |-> tag, payload |-> payload]
CptEvents(n) ==
    {CptEvent(k, n, 0, 0) : k \in CptScalars} \cup
    {CptEvent(k, n, 0, p) : k \in CptFrames \cup CptTexts, p \in CptLens} \cup
    {CptEvent("data", n, t, p) : t \in CptLens, p \in CptLens}

CptPrefix(kind) == <<<<"magic", 0>>, <<"version", 0>>, <<kind, 0>>>>
CptUnits(n, k) == [i \in 1..k |-> <<"is", n>>]

\* clamp16, clamp8: what is too long is cut, not refused.
CptClamp(len, cap) == CptLeast(len, cap)

\* What is left for the data behind the tag and its own length.
CptDataRoom(room, tag) == room - 1 - tag

\* ardop_capture_encode_*.
CptEncode(e) ==
    LET fixed == IF e.kind \in CptFrames THEN 4 ELSE IF e.kind = "state" THEN 1 ELSE 0
        room == CptMax - 3 - fixed - 1
        t == CptClamp(e.tag, room - 1)
        body == IF e.kind \in CptScalars THEN CptUnits(e.n, IF e.kind = "leader" THEN 2 ELSE 1)
                ELSE IF e.kind = "data"
                THEN LET p == CptClamp(e.payload, CptDataRoom(room, t))
                     IN  <<<<"len", t>>>> \o CptUnits(e.n, t) \o <<<<"len", p>>>> \o CptUnits(e.n, p)
                ELSE LET p == CptClamp(e.payload, room)
                     IN  CptUnits(e.n, fixed) \o <<<<"len", p>>>> \o CptUnits(e.n, p)
    IN  CptPrefix(e.kind) \o body

CptMalformed == CptEvent("malformed", 0, 0, 0)

\* ardop_capture_parse_record.
CptParse(us) ==
    LET kind == us[3][1]
        left == Len(us) - 3
        fixed == IF kind \in CptFrames THEN 4 ELSE IF kind = "state" THEN 1 ELSE 0
        len(at) == IF us[3 + at][1] = "len" THEN us[3 + at][2] ELSE 0
        bytes == {us[i][2] : i \in {j \in 4..Len(us) : us[j][1] = "is"}}
        n == IF bytes = {} THEN 0 ELSE CHOOSE x \in bytes : TRUE
    IN  IF Len(us) < 3 \/ us[1][1] # "magic" \/ us[2][1] # "version" THEN CptMalformed
        ELSE IF kind \in CptScalars
        THEN IF left < (IF kind = "leader" THEN 2 ELSE 1) THEN CptMalformed
             ELSE CptEvent(kind, n, 0, 0)
        ELSE IF kind = "data"
        THEN IF left < 1 \/ left < 2 + len(1) \/ left < 2 + len(1) + len(2 + len(1))
             THEN CptMalformed ELSE CptEvent(kind, n, len(1), len(2 + len(1)))
        ELSE IF left < fixed + 1 \/ left < fixed + 1 + len(fixed + 1) THEN CptMalformed
             ELSE CptEvent(kind, n, 0, len(fixed + 1))

\* One packet of ardop-pcap-dump, if it is whole: at is where it begins.
CptPacket(file, s) ==
    LET len == file[s.at][2]
    IN  IF s.at > Len(file) \/ file[CptLeast(s.at, Len(file))][1] # "len" THEN s
        ELSE IF len > CptMax \/ s.at + len > Len(file) THEN s
        ELSE [at |-> s.at + len + 1,
              got |-> Append(s.got, CptParse(SubSeq(file, s.at + 1, s.at + len)))]

\* ardop-pcap-dump: packet after packet, to the first that is not whole.
CptDump(file) ==
    LET read[i \in 0..Len(file)] ==
            IF i = 0 THEN [at |-> 2, got |-> <<>>] ELSE CptPacket(file, read[i - 1])
    IN  IF file = <<>> \/ file[1][1] # "pcap" THEN <<>> ELSE read[Len(file)].got

-----------------------------------------------------------------------------
(* stdio: what a call leaves in the buffer and on the disk. *)

\* fflush: what there is no room for stays in the buffer.
CptPour(c) ==
    LET k == CptLeast(Len(c.buf), c.room)
    IN  [c EXCEPT !.disk = @ \o SubSeq(c.buf, 1, k), !.buf = SubSeq(@, k + 1, Len(@)),
                  !.room = @ - k, !.full = @ \/ k < Len(c.buf)]

\* fwrite: a full buffer is poured, and the rest is lost when it cannot be.
CptFwrite(c, us) ==
    LET all == c.buf \o us
        poured == CptPour([c EXCEPT !.buf = SubSeq(all, 1, CptBuf)])
    IN  IF Len(all) <= CptBuf THEN [c |-> [c EXCEPT !.buf = all], ok |-> TRUE]
        ELSE IF poured.buf # <<>> THEN [c |-> poured, ok |-> FALSE]
        ELSE [c |-> [poured EXCEPT !.buf = SubSeq(all, CptBuf + 1, Len(all))], ok |-> TRUE]

-----------------------------------------------------------------------------
(* The capture. *)

\* capture_observation, capture_frame: write_packet begins with the header.
CptBegin(e) ==
    LET f == CptFwrite(cpt, <<<<"len", Len(CptEncode(e))>>>>)
    IN  /\ cpt.open /\ cpt.pc = "idle"
        /\ e.n = cpt.n + 1 /\ e.n <= CptWrites
        /\ cpt' = [f.c EXCEPT !.n = e.n, !.e = e, !.pc = IF f.ok THEN "record" ELSE "idle"]
        /\ UNCHANGED wav

CptRecord ==
    LET f == CptFwrite(cpt, CptEncode(cpt.e))
    IN  /\ cpt.open /\ cpt.pc = "record"
        /\ cpt' = [f.c EXCEPT !.pc = IF f.ok THEN "flush" ELSE "idle"]
        /\ UNCHANGED wav

\* Mutant: left to stdio.
CptFlush_not ==
    /\ cpt.open /\ cpt.pc = "flush"
    /\ cpt' = [cpt EXCEPT !.pc = "idle", !.said = Append(@, cpt.e)]
    /\ UNCHANGED wav

\* The flush of every record.
CptFlush ==
    /\ cpt.open /\ cpt.pc = "flush"
    /\ cpt' = [CptPour(cpt) EXCEPT !.pc = "idle", !.said = Append(@, cpt.e)]
    /\ UNCHANGED wav

\* ardop_capture_close.
CptClose ==
    /\ cpt.open /\ cpt.pc = "idle"
    /\ cpt' = [CptPour(cpt) EXCEPT !.open = FALSE]
    /\ UNCHANGED wav

\* Somebody makes room.
CptFree ==
    /\ cpt.open /\ cpt.full /\ cpt.freed > 0
    /\ cpt' = [cpt EXCEPT !.room = @ + cpt.freed, !.freed = 0]
    /\ UNCHANGED wav

-----------------------------------------------------------------------------
(* The recording. *)

\* ardop_wav_writer_append, to the length it is going to claim.
WavAppend(n) ==
    LET room == WavWord - 1 - wav.total
        k == CptLeast(n, room)
    IN  /\ wav.open /\ wav.pc = "idle"
        /\ wav.heard + n <= WavHeard
        /\ wav' = IF k = 0 THEN [wav EXCEPT !.heard = @ + n]
                  ELSE [wav EXCEPT !.pc = "samples", !.heard = @ + n, !.total = @ + k,
                                   !.buf = [i \in 1..k |-> wav.heard + i]]
        /\ UNCHANGED cpt

\* repatch_header: each fseek writes out what stdio held before it, the
\* samples, then the length of the file, then the length of the data.
WavPatch ==
    LET k == CptLeast(Len(wav.buf), wav.room)
    IN  /\ wav.open /\ wav.pc # "idle"
        /\ wav' = CASE wav.pc = "samples" ->
                         [wav EXCEPT !.pc = "riff", !.disk = @ \o SubSeq(wav.buf, 1, k),
                                     !.buf = <<>>, !.room = @ - k,
                                     !.full = @ \/ k < Len(wav.buf)]
                    [] wav.pc = "riff" ->
                         [wav EXCEPT !.pc = "data", !.riff = (wav.total * 2 + 36) % WavWord]
                    [] OTHER -> [wav EXCEPT !.pc = "idle", !.data = (wav.total * 2) % WavWord]
        /\ UNCHANGED cpt

WavClose ==
    /\ wav.open /\ wav.pc = "idle"
    /\ wav' = [wav EXCEPT !.open = FALSE]
    /\ UNCHANGED cpt

-----------------------------------------------------------------------------

\* ardop_capture_open, ardop_wav_writer_open: the headers are flushed.
CptStart(capturing, recording) ==
    /\ cpt = [open |-> capturing, disk |-> <<<<"pcap", 0>>>>, buf |-> <<>>, room |-> CptRoom,
              freed |-> CptFreed, full |-> FALSE, pc |-> "idle", n |-> 0,
              e |-> CptEvent("ptt", 0, 0, 0), said |-> <<>>]
    /\ wav = [open |-> recording, pc |-> "idle", disk |-> <<>>, buf |-> <<>>, room |-> WavRoom,
              full |-> FALSE, riff |-> 36 % WavWord, data |-> 0, total |-> 0, heard |-> 0]

CptInit == CptStart(TRUE, FALSE) \/ CptStart(FALSE, TRUE)
CptOff == CptStart(FALSE, FALSE)

CptNext ==
    \/ \E n \in 1..CptWrites : \E e \in CptEvents(n) : CptBegin(e)
    \/ CptRecord
    \/ CptFlush
    \/ CptClose
    \/ CptFree
    \/ \E n \in WavBlocks : WavAppend(n)
    \/ WavPatch
    \/ WavClose

-----------------------------------------------------------------------------
(* Properties. *)

\* The event is what was said, cut at its end where it was too long.
CptTells(got, e) ==
    /\ got.kind = e.kind
    /\ got.tag <= e.tag /\ got.payload <= e.payload
    /\ got.n = (IF e.kind \in {"data", "host"} /\ got.tag + got.payload = 0 THEN 0 ELSE e.n)
    /\ (got.payload < e.payload \/ got.tag < e.tag) => Len(CptEncode(e)) = CptMax

\* Killed at any point, the process leaves a file in which every event said is
\* read as it was, in order, and at most the one being written with them.
CptCrashLosesNothing ==
    LET got == CptDump(cpt.disk)
        all == IF cpt.pc = "idle" THEN cpt.said ELSE Append(cpt.said, cpt.e)
    IN  ~cpt.full => /\ Len(got) \in {Len(cpt.said), Len(all)}
                     /\ \A i \in 1..Len(got) : CptTells(got[i], all[i])

\* Killed at any point, the process leaves a recording whose header counts no
\* sample that is not there, and every block before the last.
WavPlayable ==
    ~wav.full => /\ wav.data <= 2 * Len(wav.disk)
                 /\ wav.data >= 2 * (Len(wav.disk) - Max(WavBlocks))
                 /\ \A i \in 1..Len(wav.disk) : wav.disk[i] = i

\* Whatever ends the process, both files it leaves can be read to their end.
CptFilesReadable == CptCrashLosesNothing /\ WavPlayable

\* "refusing further samples (rather than wrapping the length field into a
\* corrupt header) keeps everything already written valid" (wavwriter.c).  The
\* code does not keep this: the limit is on the number of samples, and the
\* field counts bytes, so it wraps at half of that.
WavHeaderTrue == wav.pc = "idle" /\ ~wav.full => wav.data = 2 * Len(wav.disk)
=============================================================================
