------------------------------- MODULE AspWire ------------------------------
(***************************************************************************)
(* ASP/1 on the wire (src/app/asp_wire.c): messages become bytes, the     *)
(* bytes arrive in pieces of any size, and are messages again; and the     *)
(* name a peer offers a file under becomes a name to keep it under.        *)
(*                                                                         *)
(* A message is its type and the fields of its payload; Asp.tla, which has *)
(* the protocol the messages serve, treats them as wholes.  Bytes and      *)
(* characters are numbers.  AwrOff is the wire with nothing to do.         *)
(***************************************************************************)
EXTENDS Integers, Sequences, SequencesExt, FiniteSets

CONSTANTS
    AwrMessages,  \* messages a station may send: [type, fields]
    AwrSends,     \* how many, at most
    AwrPieces,    \* how many bytes may arrive at once
    AwrMax,       \* ASP_MAX_PAYLOAD
    AwrCall, AwrNameMax, AwrKind, \* room of a callsign, a name, a content type,
                                  \* with the NUL
    AwrOffered,   \* names a peer may offer
    AwrCap        \* room for the name that is kept, with the NUL

ASSUME AwrAssumption == AwrCap \in Nat /\ AwrOffered \subseteq Seq(Nat)

VARIABLE awr

AwrMagic == <<65, 83, 80, 47, 49>>  \* "ASP/1"

\* A number below 2^(8n) in n bytes, the lowest first (put_u16, put_u32).
AwrLittle(v, n) == [i \in 1..n |-> (v \div 256 ^ (i - 1)) % 256]
AwrFromLittle(b) == FoldRight(LAMBDA x, acc : x + 256 * acc, b, 0)

\* asp_varint_put: seven bits a byte, the lowest first, 128 for "more".
AwrVarint[v \in Nat] ==
    IF v < 128 THEN <<v>> ELSE <<128 + (v % 128)>> \o AwrVarint[v \div 128]
\* asp_varint_get: at most four bytes; 0 used when there is no end in sight.
AwrVarintOf(buf) ==
    LET ends == {i \in 1..Len(buf) : i <= 4 /\ buf[i] < 128}
        used == IF ends = {} THEN 0 ELSE CHOOSE i \in ends : \A j \in ends : i <= j
    IN  [used |-> used,
         value |-> FoldRight(LAMBDA x, acc : (x % 128) + 128 * acc, SubSeq(buf, 1, used), 0)]

\* put_str and get_str: a length byte, cut to the room less its NUL; what
\* would not fit the reader's buffer is refused.
AwrStr(s, room) ==
    LET n == IF Len(s) > room - 1 THEN room - 1 ELSE Len(s)
    IN  <<n>> \o SubSeq(s, 1, n)

\* The payloads, field by field: a fixed magic, numbers of 1, 2 or 4 bytes,
\* strings with their room, or the rest.
AwrLayout(type) ==
    CASE type = "HELLO" -> << [f |-> "magic"], [f |-> "num", n |-> 1],
                              [f |-> "num", n |-> 4], [f |-> "str", room |-> AwrCall] >>
      [] type = "OFFER" -> << [f |-> "num", n |-> 2], [f |-> "num", n |-> 4],
                              [f |-> "num", n |-> 4], [f |-> "str", room |-> AwrNameMax],
                              [f |-> "str", room |-> AwrKind] >>
      [] type = "ACCEPT" -> << [f |-> "num", n |-> 2], [f |-> "num", n |-> 4],
                               [f |-> "num", n |-> 4] >>
      [] type \in {"REJECT", "RESULT", "CANCEL"} ->
                            << [f |-> "num", n |-> 2], [f |-> "num", n |-> 1] >>
      [] type = "START" -> << [f |-> "num", n |-> 2], [f |-> "num", n |-> 4] >>
      [] type = "DONE" -> << [f |-> "num", n |-> 2] >>
      [] type = "TEXT_B" -> << [f |-> "str", room |-> AwrCall], [f |-> "num", n |-> 2],
                               [f |-> "rest"] >>
      [] OTHER -> << [f |-> "rest"] >>
AwrTypes == << <<"HELLO", 1>>, <<"BYE", 2>>, <<"TEXT", 16>>, <<"TEXT_B", 17>>,
               <<"OFFER", 32>>, <<"ACCEPT", 33>>, <<"REJECT", 34>>, <<"START", 35>>,
               <<"DATA", 36>>, <<"DONE", 37>>, <<"RESULT", 38>>, <<"CANCEL", 39>> >>
AwrCode(type) == AwrTypes[CHOOSE i \in 1..Len(AwrTypes) : AwrTypes[i][1] = type][2]
AwrTypeOf(c) == AwrTypes[CHOOSE i \in 1..Len(AwrTypes) : AwrTypes[i][2] = c][1]

AwrPutField(l, v) ==
    CASE l.f = "magic" -> AwrMagic
      [] l.f = "num" -> AwrLittle(v, l.n)
      [] l.f = "str" -> AwrStr(v, l.room)
      [] OTHER -> v
\* asp_hello_put .. asp_text_b_put.
AwrPayload(m) ==
    LET ls == AwrLayout(m.type)
    IN  FlattenSeq([i \in 1..Len(ls) |-> AwrPutField(ls[i], m.fields[i])])

\* asp_hello_get .. asp_text_b_get: one field off the front at a time.
AwrTake(l, b) ==
    CASE l.f = "magic" -> [ok |-> SubSeq(b, 1, 5) = AwrMagic, value |-> <<>>, used |-> 5]
      [] l.f = "num" -> [ok |-> Len(b) >= l.n, value |-> AwrFromLittle(SubSeq(b, 1, l.n)),
                         used |-> l.n]
      [] l.f = "str" ->
            LET n == IF b = <<>> THEN 0 ELSE b[1]
            IN  [ok |-> b # <<>> /\ n + 1 <= Len(b) /\ n < l.room,
                 value |-> SubSeq(b, 2, n + 1), used |-> n + 1]
      [] OTHER -> [ok |-> TRUE, value |-> b, used |-> Len(b)]
AwrFields(type, payload) ==
    FoldLeft(LAMBDA acc, l :
                IF ~acc.ok THEN acc
                ELSE LET t == AwrTake(l, acc.left)
                     IN  IF ~t.ok THEN [acc EXCEPT !.ok = FALSE]
                         ELSE [acc EXCEPT !.fields = Append(@, t.value),
                                  !.left = SubSeq(@, t.used + 1, Len(@))],
             [ok |-> TRUE, fields |-> <<>>, left |-> payload], AwrLayout(type))

\* asp_frame_put
AwrFrame(m) ==
    LET p == AwrPayload(m) IN <<AwrCode(m.type)>> \o AwrVarint[Len(p)] \o p
\* Mutant: a length that has not all arrived is taken for malformed.
AwrStatus_eager(buf) ==
    LET v == AwrVarintOf(Tail(buf)) IN
    CASE buf = <<>> -> "SHORT"
      [] v.used = 0 -> "ERROR"
      [] buf[1] = 0 \/ v.value > AwrMax -> "ERROR"
      [] Len(buf) < 1 + v.used + v.value -> "SHORT"
      [] OTHER -> "OK"
\* asp_frame_get: what the bytes at hand amount to.
AwrStatus(buf) ==
    IF buf = <<>> THEN "SHORT"
    ELSE LET v == AwrVarintOf(Tail(buf)) IN
         CASE buf[1] = 0 -> "ERROR"
           [] v.used = 0 -> IF Len(buf) - 1 < 4 THEN "SHORT" ELSE "ERROR"
           [] v.value > AwrMax -> "ERROR"
           [] Len(buf) < 1 + v.used + v.value -> "SHORT"
           [] OTHER -> "OK"

\* asp_looks_like_hello: the type and, past a one-byte length, the magic.
AwrLooksLikeHello(buf) ==
    Len(buf) >= 7 /\ buf[1] = 1 /\ SubSeq(buf, 3, 7) = AwrMagic

----------------------------------------------------------- \* asp_safe_name
AwrDot == 46
AwrBlank == 32
AwrUnderscore == 95
AwrSeparators == {47, 92, 58}             \* / \ :
AwrForbidden == (0..31) \cup {127, 60, 62, 34, 124, 63, 42}
\* The reserved device names that occur; twenty-two in the code.
AwrDevices == {<<67, 79, 78>>, <<78, 85, 76>>}
AwrUpper(c) == IF c \in 97..122 THEN c - 32 ELSE c
AwrStem(n) ==
    LET dots == {i \in 1..Len(n) : n[i] = AwrDot}
    IN  IF dots = {} THEN n
        ELSE SubSeq(n, 1, (CHOOSE i \in dots : \A j \in dots : i <= j) - 1)
AwrReserved(n) == [i \in DOMAIN AwrStem(n) |-> AwrUpper(AwrStem(n)[i])] \in AwrDevices

AwrTrimSet == {AwrDot, AwrBlank}
AwrTrim(n) ==
    LET kept == {i \in 1..Len(n) : n[i] \notin AwrTrimSet}
    IN  IF kept = {} THEN <<>>
        ELSE SubSeq(n, CHOOSE i \in kept : \A j \in kept : i <= j,
                       CHOOSE i \in kept : \A j \in kept : j <= i)
\* <<>> stands for "nothing usable survived".
AwrSafeName(n) ==
    LET seps == {i \in 1..Len(n) : n[i] \in AwrSeparators}
        base == IF seps = {} THEN n
                ELSE SubSeq(n, (CHOOSE i \in seps : \A j \in seps : j <= i) + 1, Len(n))
        cut == SubSeq(base, 1, IF Len(base) < AwrCap THEN Len(base) ELSE AwrCap - 1)
        clean == [i \in DOMAIN cut |->
                     IF cut[i] \in AwrForbidden THEN AwrUnderscore ELSE cut[i]]
        kept == AwrTrim(clean)
    IN  IF kept # <<>> /\ AwrReserved(kept)
        THEN IF Len(kept) + 2 > AwrCap THEN <<>> ELSE Append(kept, AwrUnderscore)
        ELSE kept

----------------------------------------------------------------------------
AwrInit ==
    \/ awr = [kind |-> "stream", out |-> <<>>, buf |-> <<>>, sent |-> <<>>,
              got |-> <<>>, dead |-> FALSE, left |-> AwrSends]
    \/ \E n \in AwrOffered : awr = [kind |-> "name", offered |-> n, kept |-> <<>>, done |-> FALSE]
AwrOff == awr = [kind |-> "off"]

\* The sender frames a message behind those still on their way.
AwrPut(m) ==
    /\ awr.kind = "stream" /\ awr.left > 0
    /\ awr' = [awr EXCEPT !.out = @ \o AwrFrame(m), !.sent = Append(@, m), !.left = @ - 1]
\* The link delivers some of the bytes, in order.
AwrArrive(k) ==
    /\ awr.kind = "stream" /\ k <= Len(awr.out)
    /\ awr' = [awr EXCEPT !.buf = @ \o SubSeq(awr.out, 1, k),
                          !.out = SubSeq(@, k + 1, Len(@))]
\* The receiver takes one message off the front; malformed is for good.
AwrGet ==
    /\ awr.kind = "stream" /\ ~awr.dead /\ AwrStatus(awr.buf) # "SHORT"
    /\ IF AwrStatus(awr.buf) = "ERROR" THEN awr' = [awr EXCEPT !.dead = TRUE]
       ELSE LET v == AwrVarintOf(Tail(awr.buf))
                from == 1 + v.used
                type == AwrTypeOf(awr.buf[1])
                r == AwrFields(type, SubSeq(awr.buf, from + 1, from + v.value))
            IN  awr' = [awr EXCEPT
                   !.buf = SubSeq(@, from + v.value + 1, Len(@)),
                   !.got = Append(@, IF r.ok THEN [type |-> type, fields |-> r.fields]
                                     ELSE [type |-> "unreadable", fields |-> <<>>])]
\* An offer's name is made into one to keep the file under.
AwrName ==
    /\ awr.kind = "name" /\ ~awr.done
    /\ awr' = [awr EXCEPT !.kept = AwrSafeName(awr.offered), !.done = TRUE]

AwrNext ==
    \/ \E m \in AwrMessages : AwrPut(m)
    \/ \E k \in AwrPieces : AwrArrive(k)
    \/ AwrGet
    \/ AwrName

----------------------------------------------------------------------------
\* A message as its reader should see it: strings cut to their room.
AwrAsRead(m) ==
    [m EXCEPT !.fields = [i \in DOMAIN m.fields |->
        LET l == AwrLayout(m.type)[i]
        IN  IF l.f = "str" /\ Len(m.fields[i]) >= l.room
            THEN SubSeq(m.fields[i], 1, l.room - 1) ELSE m.fields[i]]]

\* However the link cuts the stream, the receiver reads exactly the
\* messages that were sent, in order, never takes the stream for damaged,
\* and is left with nothing once every byte has arrived.
AwrReadsBack ==
    awr.kind = "stream" =>
        /\ ~awr.dead
        /\ Len(awr.got) <= Len(awr.sent)
        /\ \A i \in 1..Len(awr.got) : awr.got[i] = AwrAsRead(awr.sent[i])
        /\ (awr.out = <<>> /\ AwrStatus(awr.buf) = "SHORT")
              => Len(awr.got) = Len(awr.sent)

\* A HELLO is known for one from its first seven bytes, and no other
\* message ever is: on it the receiver decides between ASP and raw text.
AwrHelloKnown ==
    (awr.kind = "stream" /\ awr.sent # <<>> /\ awr.got = <<>> /\ Len(awr.buf) >= 7)
    => (AwrLooksLikeHello(awr.buf) <=> awr.sent[1].type = "HELLO")

\* A file is kept under a name every system takes as it stands: one
\* component, nothing forbidden, nothing a system would strip or hide, and
\* unchanged if it is made safe again -- but for a device name with an
\* extension, which stays one ("CON.txt" becomes "CON.txt_").
AwrNameStands ==
    (awr.kind = "name" /\ awr.done /\ awr.kept # <<>>) =>
        /\ Len(awr.kept) < AwrCap
        /\ \A i \in 1..Len(awr.kept) :
              awr.kept[i] \notin AwrSeparators \cup AwrForbidden
        /\ awr.kept[1] \notin AwrTrimSet
        /\ awr.kept[Len(awr.kept)] \notin AwrTrimSet
        /\ AwrReserved(awr.kept) => AwrStem(awr.kept) # awr.kept
        /\ ~AwrReserved(awr.kept) => AwrSafeName(awr.kept) = awr.kept

\* What is written stands for what was meant: every message is read back as it
\* was sent, HELLO and only HELLO opens a session, a name names one file.
AwrStands == AwrReadsBack /\ AwrHelloKnown /\ AwrNameStands
=============================================================================
