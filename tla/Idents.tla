------------------------------- MODULE Idents -------------------------------
(***************************************************************************)
(* How a station's name and grid square are read from text, packed into   *)
(* six bytes for the air and read back (src/core/codec: packed6.c,        *)
(* stationid.c, locator.c).                                                *)
(*                                                                         *)
(* Text is a sequence of character codes, because the conversion is about  *)
(* nothing else: 48-57 are the digits, 65-90 and 97-122 the letters, 32    *)
(* the space that pads a short name and ends it when it is read back.      *)
(* All operators are pure; Calling.tla and HostCmd.tla put them to work.   *)
(***************************************************************************)
EXTENDS Integers, Sequences, SequencesExt

IdnSpace == 32
IdnDash == 45
IdnBlanks == 9..13 \cup {IdnSpace}
IdnDigits == 48..57
IdnUppers == 65..90
IdnLowers == 97..122

IdnUpper(c) == IF c \in IdnLowers THEN c - 32 ELSE c
IdnLower(c) == IF c \in IdnUppers THEN c + 32 ELSE c

------------------------------------------------------------ \* packed6.c
\* The alphabet: ASCII 32 to 95, after folding lower case.
IdnPackable(c) == IdnUpper(c) \in 32..95
IdnSix(c) == IF IdnPackable(c) THEN IdnUpper(c) - 32 ELSE 0

\* compress_four_to_three: four six-bit codes, the first the most
\* significant, as three bytes.
IdnWord(q) == 64 * (64 * (64 * IdnSix(q[1]) + IdnSix(q[2])) + IdnSix(q[3])) + IdnSix(q[4])
IdnFourToThree(q) ==
    <<IdnWord(q) \div 65536, (IdnWord(q) \div 256) % 256, IdnWord(q) % 256>>

\* decompress_three_to_four.
IdnThreeToFour(b) ==
    LET w == 65536 * b[1] + 256 * b[2] + b[3]
    IN  [i \in 1..4 |-> 32 + ((w \div 64 ^ (4 - i)) % 64)]

\* ardop_packed6_from_str_slice: eight characters, short text padded with
\* spaces, long text cut and reported; to_fixed_str is its inverse.
IdnPadded(t) == [i \in 1..8 |-> IF i <= Len(t) THEN t[i] ELSE IdnSpace]
IdnPack(t) ==
    LET p == IdnPadded(t)
    IN  [ok |-> Len(t) <= 8 /\ \A i \in 1..8 : IdnPackable(p[i]),
         wire |-> IdnFourToThree(SubSeq(p, 1, 4))
                    \o IdnFourToThree(SubSeq(p, 5, 8))]
IdnUnpack(w) == IdnThreeToFour(SubSeq(w, 1, 3)) \o IdnThreeToFour(SubSeq(w, 4, 6))

\* Both readers turn every space into the end of the text.
IdnUpToSpace(t) ==
    LET stops == {i \in 1..Len(t) : t[i] = IdnSpace}
    IN  IF stops = {} THEN t
        ELSE SubSeq(t, 1, (CHOOSE i \in stops : \A j \in stops : i <= j) - 1)

---------------------------------------------------------- \* stationid.c
\* ardop_stationid_init: the zero station id, which is not valid.
IdnNobody == [call |-> <<>>, ssid |-> <<48>>, str |-> <<>>,
              wire |-> <<0, 0, 0, 0, 0, 0>>]
\* ardop_stationid_ok
IdnValid(id) == \E i \in 1..6 : id.wire[i] # 0
\* ardop_stationid_eq: two names denote one node when the bytes agree.
IdnSame(a, b) == a.wire = b.wire

\* parse_str: the text before and after the first dash.  An SSID that is
\* not given, or is empty, stays "0".
IdnParse(t) ==
    LET dashes == {i \in 1..Len(t) : t[i] = IdnDash}
        at == IF dashes = {} THEN Len(t) + 1
              ELSE CHOOSE i \in dashes : \A j \in dashes : i <= j
        ssid == SubSeq(t, at + 1, Len(t))
    IN  [call |-> SubSeq(t, 1, at - 1),
         ssid |-> IF ssid = <<>> THEN <<48>> ELSE ssid,
         fits |-> at - 1 <= 7 /\ Len(ssid) <= 2]

\* validate_callsign
IdnCallOk(call) ==
    /\ Len(call) \in 2..7
    /\ IdnSpace \notin {call[i] : i \in 1..Len(call)}

\* ssid_pack reads the SSID in base 36 as strtol does, with a leading
\* blank and a sign allowed: 0-9, then 10-35 as letters, then "10" to "15"
\* (36 to 41 in that base) as the characters after '9'.  -1: no such SSID.
\* Two characters at most: parse_str has refused more.
IdnDigit(c) == CASE c \in IdnDigits -> c - 48
                 [] IdnUpper(c) \in IdnUppers -> IdnUpper(c) - 55
                 [] OTHER -> 36
IdnSsid(t) ==
    LET body == IF t # <<>> /\ t[1] \in IdnBlanks \cup {43, IdnDash} THEN Tail(t) ELSE t
        minus == t # <<>> /\ t[1] = IdnDash
        value == IF Len(body) < 2 THEN IdnDigit(body[1])
                 ELSE 36 * IdnDigit(body[1]) + IdnDigit(body[2])
    IN  IF \/ body = <<>>
           \/ \E i \in 1..Len(body) : IdnDigit(body[i]) = 36
           \/ value > 41
           \/ minus /\ value > 0
        THEN -1 ELSE value
IdnSsidByte(v) == CASE v \in 0..9 -> 48 + v
                    [] v \in 10..35 -> 55 + v
                    [] OTHER -> 22 + v

\* ssid_unpack: a character up to '?' is a decimal number, a letter itself.
IdnSsidText(c) ==
    IF c \in 48..57 THEN <<c>>
    ELSE IF c \in 58..63 THEN <<49, c - 10>>
    ELSE IF c \in IdnUppers THEN <<c>> ELSE <<>>

\* ardop_stationid_from_bytes (uncompress): the canonical text of six bytes
\* off the air, or nobody.
IdnFromBytes(w) ==
    LET t == IdnUnpack(w)
        call == IdnUpToSpace(SubSeq(t, 1, 7))
        ssid == IdnSsidText(t[8])
    IN  IF IdnCallOk(call) /\ ssid # <<>>
        THEN [call |-> call, ssid |-> ssid, wire |-> w,
              str |-> IF ssid = <<48>> THEN call ELSE call \o <<IdnDash>> \o ssid]
        ELSE IdnNobody

\* Mutant: the station keeps the text as typed.
IdnFromStr_typed(t) ==
    LET p == IdnParse(t)
        v == IdnSsid(p.ssid)
        work == SubSeq(IdnPadded(p.call), 1, 7) \o <<IdnSsidByte(v)>>
    IN  IF p.fits /\ IdnCallOk(p.call) /\ v >= 0 /\ IdnPack(work).ok
        THEN [IdnFromBytes(IdnPack(work).wire) EXCEPT !.str = t]
        ELSE IdnNobody
\* ardop_stationid_from_str: parse, pack (compress: the callsign padded to
\* seven, then the SSID's character), and read the packed bytes back.
IdnFromStr(t) ==
    LET p == IdnParse(t)
        v == IdnSsid(p.ssid)
        work == SubSeq(IdnPadded(p.call), 1, 7) \o <<IdnSsidByte(v)>>
    IN  IF p.fits /\ IdnCallOk(p.call) /\ v >= 0 /\ IdnPack(work).ok
        THEN IdnFromBytes(IdnPack(work).wire)
        ELSE IdnNobody

\* ardop_stationid_from_str_to_array: the stations of a list, already cut
\* at its spaces and commas, written one by one over the old ones.  A bad
\* entry ends it with the earlier ones, and the blanked slot, overwritten.
IdnListOk(texts, room) ==
    \A i \in 1..Len(texts) : i <= room => IdnValid(IdnFromStr(texts[i]))
IdnOverwrite(texts, slots) ==
    LET bad == {i \in 1..Len(texts) : ~IdnValid(IdnFromStr(texts[i]))}
    IN  [i \in DOMAIN slots |->
            IF i <= Len(texts) /\ \A b \in bad : i <= b
            THEN IdnFromStr(texts[i]) ELSE slots[i]]

------------------------------------------------------------ \* locator.c
IdnNowhere == [grid |-> <<>>, wire |-> <<0, 0, 0, 0, 0, 0>>]
\* LOCATOR_NOGS: what the legacy program sent for an unset square.
IdnNoGs == {<<188, 240, 39, 204, 0, 0>>, <<186, 240, 39, 204, 0, 0>>}

\* validate_grid: pairs of A-R, 0-9, A-X, 0-9.
IdnGridOk(t) ==
    /\ Len(t) % 2 = 0
    /\ \A i \in 1..Len(t) :
          CASE i \in 1..2 -> IdnUpper(t[i]) \in 65..82
            [] i \in 5..6 -> IdnUpper(t[i]) \in 65..88
            [] OTHER -> t[i] \in IdnDigits

\* ardop_locator_from_bytes (uncompress): the subsquare in lower case.
IdnGridFromBytes(w) ==
    LET t == IdnUpToSpace([i \in 1..8 |->
                 IF i \in 5..6 THEN IdnLower(IdnUnpack(w)[i]) ELSE IdnUnpack(w)[i]])
    IN  IF w \notin IdnNoGs /\ IdnGridOk(t) THEN [grid |-> t, wire |-> w]
        ELSE IdnNowhere

\* ardop_locator_from_str: an empty square is fine, more than eight
\* characters are not.
IdnGridAccepts(t) == Len(t) <= 8 /\ IdnGridOk(t)
IdnGridFromStr(t) ==
    IF t # <<>> /\ IdnGridAccepts(t)
    THEN IdnGridFromBytes(IdnPack(t).wire) ELSE IdnNowhere

\* ardop_locator_as_bytes: an unset square goes out as "No GS".
IdnGridBytes(g) == IF g.grid # <<>> THEN g.wire ELSE <<186, 240, 39, 204, 0, 0>>
=============================================================================
