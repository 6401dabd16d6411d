-------------------------------- MODULE Ptt --------------------------------
(***************************************************************************)
(* Keying the transmitter: src/shell/ptt.c with its CAT dialects           *)
(* (src/shell/ptt_cat.c) and the C-Media GPIO (src/shell/ptt_cm108.c), and *)
(* the radio at the other end of the cable.                                *)
(*                                                                         *)
(* A --ptt specification is a sequence of tokens, a punctuation mark being *)
(* a token of its own.  The radio works through the commands it was sent   *)
(* at its own pace: within the 200 ms the program waits for an answer, or  *)
(* later.  A set call blocks the modem thread and is one step.             *)
(***************************************************************************)
EXTENDS Naturals, Sequences, FiniteSets, FiniteSetsExt, TLC

CONSTANTS PttSpecs,     \* specifications an operator may write
          PttHids,      \* sets of C-Media devices that may be plugged in
          PttRefusals,  \* commands the radio may refuse
          PttOpens,     \* times the keying device may be opened
          PttBehind     \* commands a slow radio may be behind

ASSUME PttAssumption == PttOpens \in Nat /\ PttBehind \in Nat

VARIABLES ptt,      \* struct ardop_ptt, method "closed" when there is none
          radio,    \* the rig, its end of the link, and what is on the way
          pttLeft   \* bounds

pttVars == <<ptt, radio, pttLeft>>

-----------------------------------------------------------------------------
(* ardop_ptt_parse. *)

PttConfig == [method |-> "none", target |-> <<>>, port |-> "", pin |-> "3",
              family |-> "", addr |-> "00", baud |-> "", chip |-> <<>>]
PttBad == [PttConfig EXCEPT !.method = "bad"]
PttClosed == [cfg |-> PttBad, keyed |-> FALSE, fault |-> FALSE]

LastAt(s, tok) == Max({i \in DOMAIN s : s[i] = tok} \cup {0})
FirstAt(s, tok) == Min({i \in DOMAIN s : s[i] = tok} \cup {Len(s) + 1})
UpTo(s, i) == SubSeq(s, 1, i - 1)
From(s, i) == SubSeq(s, i + 1, Len(s))
Joined(s) == IF s = <<>> THEN "" ELSE s[1]

OrLocalhost(host) == IF host = <<>> THEN <<"127.0.0.1">> ELSE host

\* An IPv6 literal is full of colons: the bracketed form first.
ParseRigctld(rest) ==
    LET c == [PttConfig EXCEPT !.method = "rigctld", !.port = "4532"]
        shut == FirstAt(rest, "]")
        colon == LastAt(rest, ":")
    IN  IF rest # <<>> /\ rest[1] = "["
        THEN IF shut > Len(rest) THEN PttBad
             ELSE [c EXCEPT !.target = OrLocalhost(SubSeq(rest, 2, shut - 1)),
                            !.port = IF From(rest, shut) # <<>> /\ rest[shut + 1] = ":"
                                     THEN Joined(From(rest, shut + 1)) ELSE @]
        ELSE IF colon > 0
        THEN [c EXCEPT !.target = OrLocalhost(UpTo(rest, colon)),
                       !.port = Joined(From(rest, colon))]
        ELSE [c EXCEPT !.target = OrLocalhost(rest)]

\* The pin may follow any of the forms; VID:PID narrows a scan.
ParseCm108(rest) ==
    LET plus == LastAt(rest, "+")
        body == IF plus = 0 THEN rest ELSE UpTo(rest, plus)
        c == [PttConfig EXCEPT !.method = "cm108",
                               !.pin = IF plus = 0 THEN @ ELSE Joined(From(rest, plus))]
    IN  IF c.pin \notin {"1", "2", "3", "4", "5", "6", "7", "8"} THEN PttBad
        ELSE IF Len(body) = 3 /\ body[2] = ":" THEN [c EXCEPT !.chip = body]
        ELSE IF body = <<"auto">> THEN c
        ELSE [c EXCEPT !.target = body]

Families == [civ |-> "civ", icom |-> "civ", xiegu |-> "civ",
             kenwood |-> "kenwood", yaesu |-> "yaesu"]
HexBytes == {"00", "94", "a4"}
BaudRates == {"1200", "9600", "19200", "38400", "115200"}

\* The address is written after the rate and stripped first.  What follows
\* the last colon is a rate only when it is one: a path may hold colons.
ParseCat(word, rest) ==
    LET at == LastAt(rest, "@")
        noaddr == IF at = 0 THEN rest ELSE UpTo(rest, at)
        colon == LastAt(noaddr, ":")
        rated == colon > 0 /\ Joined(From(noaddr, colon)) \in BaudRates
        port == IF rated THEN UpTo(noaddr, colon) ELSE noaddr
    IN  IF (at > 0 /\ Joined(From(rest, at)) \notin HexBytes) \/ port = <<>> THEN PttBad
        ELSE [PttConfig EXCEPT !.method = "cat", !.family = Families[word],
                !.target = port,
                !.addr = IF at = 0 THEN @ ELSE Joined(From(rest, at)),
                !.baud = IF rated THEN Joined(From(noaddr, colon)) ELSE @]

\* "rts:" and the like are two tokens.
PttParse(spec) ==
    LET method == Joined(spec)
        named == Len(spec) > 1 /\ spec[2] = ":"
    IN  CASE spec \in {<<>>, <<"none">>, <<"vox">>} -> PttConfig
          [] named /\ method \in {"rts", "dtr"} ->
                [PttConfig EXCEPT !.method = method, !.target = From(spec, 2)]
          [] named /\ method = "rigctld" -> ParseRigctld(From(spec, 2))
          [] method = "cm108" /\ (Len(spec) = 1 \/ spec[2] \in {":", "+"}) ->
                ParseCm108(IF named THEN From(spec, 2) ELSE From(spec, 1))
          [] named /\ method \in DOMAIN Families -> ParseCat(method, From(spec, 2))
          [] OTHER -> IF LastAt(spec, ":") > 0 THEN PttBad
                      ELSE [PttConfig EXCEPT !.method = "rts", !.target = spec]

-----------------------------------------------------------------------------
(* The radio. *)

RadioStart == [keyed |-> FALSE, cmds |-> <<>>, answers |-> <<>>, dead |-> FALSE,
               refused |-> FALSE, conn |-> 0]

\* Kenwood answers nothing, Yaesu only what it refuses; CI-V also echoes.
Answers(c, ok) ==
    CASE c.method = "rigctld" -> <<IF ok THEN "ok" ELSE "no">>
      [] c.method = "cat" /\ c.family = "civ" ->
            <<"echo", IF ok THEN "ok" ELSE "no">>
      [] c.method = "cat" /\ c.family = "yaesu" /\ ~ok -> <<"no">>
      [] OTHER -> <<>>

\* An answer over TCP goes to the connection that asked; on a serial line
\* whoever has the port open hears it.
RadioDoes(r, c, cmd) ==
    LET ok == cmd.do \notin PttRefusals \/ ~pttLeft.refusing
        heard == IF c.method = "rigctld" THEN cmd.conn = r.conn ELSE r.conn # 0
    IN  [r EXCEPT !.keyed = IF ok THEN cmd.do = "key" ELSE @,
                  !.refused = ~ok,
                  !.answers = IF heard THEN @ \o Answers(c, ok) ELSE @]

\* The radio works through what it was sent.
RadioCatchesUp(r, c) ==
    LET n == Len(r.cmds)
        after[i \in 0..n] == IF i = 0 THEN [r EXCEPT !.cmds = <<>>]
                              ELSE RadioDoes(after[i - 1], c, r.cmds[i])
    IN  IF r.dead THEN r ELSE after[n]

\* A line of the port or a GPIO pin: no protocol, the radio follows at once.
Direct(c) == c.method \in {"rts", "dtr", "cm108"}

-----------------------------------------------------------------------------
(* Keying. *)

Acknowledged(family) == family # "kenwood"      \* ardop_cat_is_acknowledged

\* cat_set reads on past echoes; rig_set judges by the first line it reads.
Verdict(answers) ==
    LET heard == {i \in DOMAIN answers : answers[i] # "echo"}
    IN  IF heard = {} THEN "silence" ELSE answers[Min(heard)]

\* One ardop_ptt_set: [p, r] afterwards.  Answers from earlier commands that
\* came too late for them are still in the socket, and are read first.
PttSet(p, r, key, prompt) ==
    LET c == p.cfg
        cmd == [do |-> IF key THEN "key" ELSE "unkey", conn |-> r.conn]
        q == [p EXCEPT !.keyed = key]
        lost == [q EXCEPT !.fault = TRUE]
        sent == [r EXCEPT !.cmds = Append(@, cmd)]
        late == Verdict(r.answers) # "silence"
        done == IF prompt THEN RadioCatchesUp(sent, c) ELSE sent
        waits == c.method = "rigctld" \/ Acknowledged(c.family)
        verdict == Verdict(IF late THEN r.answers ELSE done.answers)
    IN  CASE c.method = "none" -> [p |-> q, r |-> [r EXCEPT !.keyed = key]]
          [] Direct(c) -> IF r.dead THEN [p |-> lost, r |-> r]
                          ELSE [p |-> q, r |-> [r EXCEPT !.keyed = key]]
          [] c.method \in {"rigctld", "cat"} ->
               IF r.dead THEN [p |-> lost, r |-> r]
               ELSE IF ~waits THEN [p |-> q, r |-> done]
               ELSE [p |-> IF verdict = "ok" THEN q ELSE lost,
                     r |-> [done EXCEPT !.answers = IF late THEN From(@, Len(r.answers)) ELSE <<>>]]

-----------------------------------------------------------------------------
(* Opening and closing. *)

\* The table of ptt_cm108.c, and how many pins each chip has.
ChipPins(chip) == CASE chip = "CM108" -> 8 [] chip = "CM108B" -> 3
                    [] chip = "SSS1623" -> 2 [] OTHER -> 0

\* ardop_cm108_choose: the one device that matches, or none.
Cm108Matches(hids, want) ==
    {h \in hids : IF want = <<>> THEN ChipPins(h.chip) > 0 ELSE h.id = want}

Pins == [n \in {"1", "2", "3", "4", "5", "6", "7", "8"} |->
           CHOOSE i \in 1..8 : ToString(i) = n]

\* The pin is checked against a chip the scan found, not against a path.
Cm108Opens(c) ==
    \/ c.target # <<>>
    \/ \E h \in Cm108Matches(pttLeft.hids, c.chip) :
          /\ Cardinality(Cm108Matches(pttLeft.hids, c.chip)) = 1
          /\ ChipPins(h.chip) > 0 => Pins[c.pin] <= ChipPins(h.chip)

\* Opening proves an acknowledged link by unkeying; it leaves the lines down.
PttOpen(prompt) ==
    LET c == PttParse(pttLeft.spec)
        p == [cfg |-> c, keyed |-> FALSE, fault |-> FALSE]
        proved == PttSet(p, [radio EXCEPT !.answers = <<>>, !.conn = pttLeft.opens],
                         FALSE, prompt)
    IN  /\ ptt = PttClosed
        /\ pttLeft.opens > 0
        /\ pttLeft' = [pttLeft EXCEPT !.opens = @ - 1]
        /\ CASE c.method = "bad" \/ (c.method = "cm108" /\ ~Cm108Opens(c)) ->
                  UNCHANGED <<ptt, radio>>
             [] c.method \in {"rigctld", "cat"} ->
                  /\ ptt' = IF proved.p.fault THEN PttClosed ELSE proved.p
                  /\ radio' = IF proved.p.fault THEN [proved.r EXCEPT !.conn = 0] ELSE proved.r
             [] c.method \in {"rts", "dtr"} ->
                  IF radio.dead THEN UNCHANGED <<ptt, radio>>
                  ELSE ptt' = p /\ radio' = [radio EXCEPT !.keyed = FALSE]
             [] c.method = "none" \/ (c.method = "cm108" /\ Cm108Opens(c)) ->
                  ptt' = p /\ UNCHANGED radio

\* The callers key only a device without a fault.
PttKey(key, prompt) ==
    LET after == PttSet(ptt, radio, key, prompt)
    IN  /\ ptt # PttClosed
        /\ ~prompt => Len(radio.cmds) < PttBehind
        /\ key => ~ptt.keyed /\ ~ptt.fault
        /\ ~key => ptt.keyed
        /\ ptt' = after.p
        /\ radio' = after.r
        /\ UNCHANGED pttLeft

\* Mutant: a keyed radio is let go as it is.
PttClose_keyed(prompt) ==
    /\ ptt # PttClosed
    /\ ptt' = PttClosed
    /\ radio' = [radio EXCEPT !.keyed = IF Direct(ptt.cfg) /\ ~radio.dead
                                        THEN FALSE ELSE @, !.conn = 0]
    /\ UNCHANGED pttLeft

\* ardop_ptt_close; a serial line falls with its handle, and the HID handle
\* is always unkeyed.
PttClose(prompt) ==
    LET after == IF ptt.keyed THEN PttSet([ptt EXCEPT !.fault = FALSE], radio, FALSE, prompt)
                              ELSE [p |-> ptt, r |-> radio]
        falls == Direct(ptt.cfg) /\ ~radio.dead
    IN  /\ ptt # PttClosed
        /\ ptt' = PttClosed
        /\ radio' = [after.r EXCEPT !.keyed = IF falls THEN FALSE ELSE @, !.conn = 0]
        /\ UNCHANGED pttLeft

\* The process is killed: HUPCL drops the serial lines, nothing else unkeys.
PttKilled ==
    /\ ptt # PttClosed
    /\ ptt' = PttClosed
    /\ radio' = [radio EXCEPT !.keyed = IF ptt.cfg.method \in {"rts", "dtr"}
                                        THEN FALSE ELSE @, !.conn = 0]
    /\ pttLeft' = [pttLeft EXCEPT !.killed = TRUE]

\* The radio gets round to what it was sent.
RadioLate ==
    /\ radio.cmds # <<>>
    /\ ~radio.dead
    /\ radio' = RadioCatchesUp(radio, PttParse(pttLeft.spec))
    /\ UNCHANGED <<ptt, pttLeft>>

\* The cable is pulled, or rigctld goes.
RadioDies ==
    /\ ~radio.dead
    /\ ptt # PttClosed
    /\ radio' = [radio EXCEPT !.dead = TRUE, !.answers = <<>>]
    /\ UNCHANGED <<ptt, pttLeft>>

PttAt(spec, hids, refusing, opens) ==
    /\ ptt = PttClosed
    /\ radio = RadioStart
    /\ pttLeft = [hids |-> hids, refusing |-> refusing, opens |-> opens,
                  spec |-> spec, killed |-> FALSE]

PttInit ==
    \E spec \in PttSpecs, hids \in PttHids, refusing \in BOOLEAN :
       /\ PttParse(spec).method # "cm108" => hids = {}
       /\ PttParse(spec).method \notin {"cat", "rigctld"} => ~refusing
       /\ PttAt(spec, hids, refusing, PttOpens)

\* A device nobody opens.
PttOff == PttAt(<<>>, {}, FALSE, 0)

PttNext ==
    \/ \E prompt \in BOOLEAN : PttOpen(prompt)
    \/ \E key, prompt \in BOOLEAN : PttKey(key, prompt)
    \/ \E prompt \in BOOLEAN : PttClose(prompt)
    \/ PttKilled
    \/ RadioLate
    \/ RadioDies

-----------------------------------------------------------------------------
(* Properties. *)

\* A transmission that is not on the air is a fault: while the program
\* believes it keyed an acknowledged radio and no fault is latched, the radio
\* was told and did it (rig_set and cat_set wait for the answer).
PttKeyedOrFault ==
    (ptt.keyed /\ ~ptt.fault /\ ~radio.dead
        /\ ptt.cfg.method # "bad" /\ ptt.cfg.family # "kenwood") => radio.keyed

\* A device that was let go leaves no transmitter on the air: whatever
\* happened before, in whatever order a slow radio answered, a radio that is
\* still keyed when all is done refused, or its link broke, or the process
\* was killed with a method whose handle keeps the radio keyed.
PttLetGo ==
    (ptt = PttClosed /\ radio.cmds = <<>> /\ radio.keyed) =>
        \/ radio.refused
        \/ radio.dead
        \/ pttLeft.killed /\ PttParse(pttLeft.spec).method \notin {"rts", "dtr"}

\* No radio is silent or keyed behind the program's back.
PttSafe == PttKeyedOrFault /\ PttLetGo
=============================================================================
