------------------------------ MODULE FecChat ------------------------------
(***************************************************************************)
(* Broadcast chat: src/apps/fecchat.c and the FEC side of                  *)
(* src/apps/ardop_chat.c, with the part of src/core/link/link.c that cuts  *)
(* the queue into frames.  Two stations type lines and one listens.        *)
(*                                                                         *)
(* A message is a header, one unit, and its text, one unit a character; a  *)
(* frame holds FecFrame units of the queue, whatever message they belong   *)
(* to.  Each frame is sent FecCopies times, and a copy may be lost.  Time  *)
(* counts transmissions, and FecWindow of them make the window in which a  *)
(* repeat is recognised.                                                   *)
(***************************************************************************)
EXTENDS Naturals, Sequences, FiniteSets, FiniteSetsExt, SequencesExt

CONSTANTS
    FecLines,     \* what may be typed: sequences of "x" and " "
    FecFrame,     \* payload bytes of the FECMODE's frame
    FecCopies,    \* 1 + FECREPEATS
    FecGap,       \* transmissions of others between two copies of a frame
    FecSeen,      \* FECCHAT_SEEN_MAX
    FecWindow,    \* FECCHAT_DEDUP_MS
    FecIds,       \* message ids wrap here
    FecTyped,     \* lines typed altogether
    FecLoss       \* copies the channel may lose

ASSUME FecAssumption == /\ FecLines \subseteq Seq({"x", " "})
                        /\ FecFrame \in Nat \ {0, 1}
                        /\ FecCopies \in Nat \ {0} /\ FecGap \in Nat
                        /\ FecSeen \in Nat \ {0} /\ FecWindow \in Nat
                        /\ FecIds \in Nat \ {0}

VARIABLES fec,      \* fec[call]: a broadcasting station
          heard,    \* the listener
          fecNow

fecVars == <<fec, heard, fecNow>>

Calls == {"P", "Q"}

-----------------------------------------------------------------------------
(* Typing: one line becomes whole messages. *)

\* fecchat_text_capacity: what the header leaves of a frame.
TextCapacity == FecFrame - 1

\* How much of the rest of the line the next message takes: broken at a space
\* unless that leaves less than a quarter.  line[at + 1] is the next character.
SpaceAt(line, at) ==
    LET spaces == {n \in 1..TextCapacity : line[at + n + 1] = " "}
    IN  IF spaces = {} THEN 0 ELSE Max(spaces)

TakeNext(line, at) ==
    LET left == Len(line) - at
        brk == SpaceAt(line, at)
    IN  IF left <= TextCapacity THEN left
        ELSE IF brk > TextCapacity \div 4 THEN brk ELSE TextCapacity

\* The spaces between two messages are dropped.
SkipSpaces(line, at) ==
    Min({n \in at..Len(line) : n = Len(line) \/ line[n + 1] # " "})

\* fecchat_encode: the next id is used up.
Message(call, id, n) ==
    [i \in 1..(n + 1) |-> [call |-> call, id |-> id, len |-> n + 1, i |-> i]]

Encode(call, s, n) ==
    [s EXCEPT !.queue = @ \o Message(call, s.next, n), !.next = (@ + 1) % FecIds]

\* send_fec_line: one message after another, until the line is sent.
SendNext(call, line, x) ==
    LET n == TakeNext(line, x.sent)
    IN  IF x.sent = Len(line) THEN x
        ELSE [sent |-> SkipSpaces(line, x.sent + n), s |-> Encode(call, x.s, n)]

SendLine(call, line, s) ==
    LET round[k \in 0..Len(line)] ==
            IF k = 0 THEN [sent |-> 0, s |-> s] ELSE SendNext(call, line, round[k - 1])
    IN  round[Len(line)].s

\* began is when the frame at hand was first sent, and reached the messages that
\* a frame heard began with, each with that time.
Station == [next |-> 0, queue |-> <<>>, frame |-> <<>>, copies |-> 0, at |-> 0, began |-> 0,
            reached |-> {}]

-----------------------------------------------------------------------------
(* Listening. *)

\* fecchat_decode: the message at the start of the frame; what follows it in
\* the frame is not looked at.
Decoded(frame) ==
    LET h == frame[1]
    IN  IF /\ h.i = 1 /\ Len(frame) >= h.len
           /\ SubSeq(frame, 1, h.len) = Message(h.call, h.id, h.len - 1)
        THEN {[call |-> h.call, id |-> h.id]} ELSE {}

\* fecchat_is_new and the entry it makes: an expired entry is no match and is
\* the first to be reused, then the oldest.
Live == {e \in heard.seen : fecNow - e.at <= FecWindow}
IsNew(m) == ~\E e \in Live : e.call = m.call /\ e.id = m.id
Oldest == CHOOSE e \in Live : \A f \in Live : e.at <= f.at

\* Mutant: only the last message is remembered.
Remember_last(m) == {[call |-> m.call, id |-> m.id, at |-> fecNow]}

Remember(m) ==
    (IF Cardinality(Live) < FecSeen THEN Live ELSE Live \ {Oldest})
        \cup {[call |-> m.call, id |-> m.id, at |-> fecNow]}

\* print_incoming for one frame: a message that is not new is not shown, what
\* is no message is shown as it is.
Hear(frame) ==
    IF Decoded(frame) = {} THEN [heard EXCEPT !.raw = @ + 1]
    ELSE LET m == CHOOSE m \in Decoded(frame) : TRUE
         IN  IF ~IsNew(m) THEN heard
             ELSE [heard EXCEPT !.seen = Remember(m),
                                !.shown = Append(@, [m |-> m, at |-> fecNow])]

-----------------------------------------------------------------------------
(* The steps. *)

FecInitAt(typed) ==
    /\ fec = [c \in Calls |-> Station]
    /\ heard = [seen |-> {}, shown |-> <<>>, raw |-> 0, typed |-> typed, lost |-> 0]
    /\ fecNow = 0

FecInit == FecInitAt(0)

\* A line is typed, and FECSEND follows it.
FecType(c, line) ==
    /\ heard.typed < FecTyped
    /\ fec' = [fec EXCEPT ![c] = SendLine(c, line, fec[c])]
    /\ heard' = [heard EXCEPT !.typed = @ + 1]
    /\ UNCHANGED fecNow

\* fec_send_next: with no copy left to send, the next frame is cut off the queue.
CutAt(queue) == Min({Len(queue), FecFrame})

Loaded(s) ==
    IF s.copies # 0 THEN s
    ELSE [s EXCEPT !.queue = SubSeq(s.queue, CutAt(s.queue) + 1, Len(s.queue)),
                   !.frame = SubSeq(s.queue, 1, CutAt(s.queue)),
                   !.copies = FecCopies, !.began = fecNow]

Reached(s, lost) ==
    IF lost THEN s.reached
    ELSE s.reached \cup {[id |-> m.id, at |-> s.began] : m \in Decoded(s.frame)}

Sent(s, lost) ==
    [s EXCEPT !.frame = IF s.copies = 1 THEN <<>> ELSE s.frame, !.copies = s.copies - 1,
              !.at = fecNow, !.reached = Reached(s, lost)]

\* One transmission, of a frame or of its repeat.
FecTransmit(c, lost) ==
    LET s == Loaded(fec[c])
    IN  /\ s.frame # <<>>
        /\ lost => heard.lost < FecLoss
        /\ \A d \in Calls \ {c} : fec[d].copies > 0 => fecNow - fec[d].at <= FecGap
        /\ fec' = [fec EXCEPT ![c] = Sent(s, lost)]
        /\ heard' = IF lost THEN [heard EXCEPT !.lost = @ + 1] ELSE Hear(s.frame)
        /\ fecNow' = fecNow + 1

FecNext ==
    \E c \in Calls : \/ \E line \in FecLines : FecType(c, line)
                     \/ \E lost \in BOOLEAN : FecTransmit(c, lost)

-----------------------------------------------------------------------------
(* Properties. *)

ShownAs(c, id) == {i \in DOMAIN heard.shown : heard.shown[i].m = [call |-> c, id |-> id]}

\* A message is shown once, however often its frame is repeated and whoever
\* transmits in between; the same id again within the window is a repeat.
FecShownOnce ==
    \A i, j \in DOMAIN heard.shown :
        (i < j /\ heard.shown[i].m = heard.shown[j].m) =>
            heard.shown[j].at - heard.shown[i].at > FecWindow

\* A message that is heard is not taken for a repeat of another: what a frame
\* begins with is shown when the first copy arrives, whatever was lost before.
FecNewIsShown ==
    \A c \in Calls : \A m \in fec[c].reached :
        \E i \in ShownAs(c, m.id) : heard.shown[i].at >= m.at

\* A repeat is known for one and nothing else is (fecchat.c: fec_seen_new).
FecShownExactly == FecShownOnce /\ FecNewIsShown

\* A line too long for one message becomes several that each stand alone
\* (send_fec_line): with nothing lost every one of them is shown.  The code does
\* not keep this: only what a frame begins with is looked at.
FecEachStandsAlone ==
    heard.lost = 0 =>
        \A c \in Calls : (fec[c].queue = <<>> /\ fec[c].copies = 0) =>
            \A id \in 0..(fec[c].next - 1) : ShownAs(c, id) # {}
=============================================================================
