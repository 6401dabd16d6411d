------------------------------- MODULE MCShell -------------------------------
(***************************************************************************)
(* The keying device, the telemetry feed, the daemon's loop, the sound     *)
(* device, the host's commands, the placing of a call and the message      *)
(* codec, side by side for TLC: a behaviour runs one of them, and the      *)
(* others are not there.                                                   *)
(***************************************************************************)
EXTENDS Ptt, Telemetry, Daemon, Audio, HostCmd, Calling, AspWire

-----------------------------------------------------------------------------
(* Ptt: what may follow --ptt, and what may be plugged in. *)

MCPttSpecs ==
    {<<>>, <<"vox">>, <<"rts", ":", "tty">>, <<"dtr", ":", "usb", ":", "1">>,
     <<"tty">>, <<"usb", ":", "1">>, <<"gpio", ":", "17">>,
     <<"rigctld", ":", "[", "::1", "]", ":", "4533">>,
     <<"rigctld", ":", "[", "::1">>, <<"rigctld", ":", "h">>,
     <<"rigctld", ":", ":", "4533">>,
     <<"cm108">>, <<"cm108", "+", "8">>, <<"cm108", ":", "hidraw3">>,
     <<"cm108", ":", "0d8c", ":", "0012", "+", "3">>,
     <<"cm108", ":", "auto", "+", "9">>,
     <<"civ", ":", "tty", ":", "38400", "@", "a4">>, <<"civ", ":", "usb", ":", "1">>,
     <<"civ", ":", "tty", "@", "xx">>, <<"icom", ":">>,
     <<"kenwood", ":", "tty">>, <<"yaesu", ":", "tty">>}

ThreePins == [id |-> <<"0d8c", ":", "0012">>, chip |-> "CM108B"]
EightPins == [id |-> <<"0d8c", ":", "0008">>, chip |-> "CM108"]
NoChip == [id |-> <<"1209", ":", "7388">>, chip |-> "other"]
MCPttHids == {{}, {ThreePins}, {ThreePins, EightPins}, {EightPins, NoChip}}

-----------------------------------------------------------------------------
(* Calling and HostCmd: texts as their characters. *)

AB == <<65, 66>>
CD == <<67, 68>>
AB5 == <<65, 66, 45, 53>>
Short == <<65>>              \* one letter is no call

\* "ab-5", "AB-05", "AB", "aB-", "AB-10", "AB-a", "A".
MCCllTargets ==
    {<<97, 98, 45, 53>>, <<65, 66, 45, 48, 53>>, AB, <<97, 66, 45>>,
     <<65, 66, 45, 49, 48>>, <<65, 66, 45, 97>>, Short}
MCCllMine == <<67, 68, 45, 49, 53>>
\* B is AB-5; ab and AB-A; AB-10 and CC.
MCCllNames ==
    {{AB5}, {<<97, 98>>, <<65, 66, 45, 65>>}, {<<65, 66, 45, 49, 48>>, <<67, 67>>}}

Setting(hz, forced) == [hz |-> hz, forced |-> forced]
MCCllSettings ==
    {CllUndefined, Setting(200, TRUE), Setting(500, FALSE), Setting(500, TRUE),
     Setting(1000, FALSE), Setting(2000, FALSE), Setting(2000, TRUE)}
MCCllLadders ==
    {[fsk |-> f, use600 |-> u, tuning |-> 100] : f, u \in BOOLEAN}

HostLine(kw, par) == [kw |-> kw, par |-> par]
Words(kw, words) == {HostLine(kw, HstWord(w)) : w \in words}
Numbers(kw, ns) == {HostLine(kw, HstNumber(n, FALSE)) : n \in ns}
Lists(kw, lists) == {HostLine(kw, HstList(l)) : l \in lists}

MCHstLines ==
    {HostLine(kw, HstNo) : kw \in {"ABORT", "DISCONNECT", "BREAK", "SENDID",
        "PURGEBUFFER", "INITIALIZE", "NONSENSE", "MYAUX", "FECSEND"}}
    \cup Lists("ARQCALL", {<<CD>>})
    \cup Lists("MYCALL", {<<AB5>>, <<Short>>})
    \cup Lists("GRIDSQUARE", {<<<<65, 66, 49, 50>>>>, <<<<65, 66, 49>>>>})
    \cup Lists("MYAUX", {<<>>, <<CD>>, <<AB5, CD>>, <<CD, Short, AB5>>,
                          <<AB5, CD, CD>>, <<Short>>})
    \cup Words("FECSEND", {"TRUE", "FALSE"})
    \cup Words("ARQBW", {"500MAX", "UNDEFINED", "WIDE"})
    \cup Words("FECMODE", {"4FSK.500.100", "WIDE"})
    \cup Words("FECREPEATS", {"MANY"}) \cup Numbers("FECREPEATS", {3, 6})
    \cup Numbers("BUFFER", {0, 7})
    \cup Words("LISTEN", {"TRUE", "MAYBE"}) \cup Words("AUTOBREAK", {"TRUE"})
    \cup Numbers("BUSYDET", {10, 11}) \cup {HostLine("BUSYDET", HstNumber(3, TRUE))}
    \cup Numbers("ARQTIMEOUT", {29, 30}) \cup Numbers("IDLETIMEOUT", {0, 601})
    \cup Words("PROTOCOLMODE", HstModes \cup {"OTHER"})
    \cup Words("CWID", {"TRUE", "FALSE", "ONOFF", "MAYBE"})

-----------------------------------------------------------------------------
(* AspWire: messages of every layout, lengths on both sides of a varint's  *)
(* first byte, and names of few characters.                                *)

Text(n) == [i \in 1..n |-> 120]
Message(type, fields) == [type |-> type, fields |-> fields]
MCAwrMessages ==
    {Message("HELLO", <<<<>>, 1, 5, Text(3)>>), Message("HELLO", <<<<>>, 1, 0, Text(4)>>),
     Message("OFFER", <<65535, 70000, 1, Text(6), Text(2)>>),
     Message("ACCEPT", <<7, 0, 16777216>>), Message("START", <<1, 300>>),
     Message("RESULT", <<300, 2>>), Message("DONE", <<1>>),
     Message("TEXT_B", <<Text(2), 9, Text(125)>>), Message("TEXT", <<<<>>>>),
     Message("DATA", <<AwrMagic \o Text(3)>>), Message("DATA", <<Text(140)>>)}

\* ". /*a" in every order, and the names a device has.
MCAwrOffered ==
    UNION {[1..n -> {46, 32, 47, 42, 97}] : n \in 1..5}
    \cup {<<99, 111, 110>>, <<67, 79, 78, 46, 97>>, <<32, 78, 85, 76, 46>>,
          <<97, 97, 97, 97, 97, 46, 97>>, <<47, 67, 79, 78, 32>>}

-----------------------------------------------------------------------------

Init ==
    \/ PttInit /\ TlmOff /\ DmnOff /\ AudOff /\ HstOff /\ CllOff /\ AwrOff
    \/ PttOff /\ TlmInit /\ DmnOff /\ AudOff /\ HstOff /\ CllOff /\ AwrOff
    \/ PttOff /\ TlmOff /\ DmnInit /\ AudOff /\ HstOff /\ CllOff /\ AwrOff
    \/ PttOff /\ TlmOff /\ DmnOff /\ AudInit /\ HstOff /\ CllOff /\ AwrOff
    \/ PttOff /\ TlmOff /\ DmnOff /\ AudOff /\ HstInit /\ CllOff /\ AwrOff
    \/ PttOff /\ TlmOff /\ DmnOff /\ AudOff /\ HstOff /\ CllInit /\ AwrOff
    \/ PttOff /\ TlmOff /\ DmnOff /\ AudOff /\ HstOff /\ CllOff /\ AwrInit

shellVars == <<pttVars, tlmVars, dmnVars, audVars, hst, cll, awr>>

Next ==
    \/ PttNext /\ UNCHANGED <<tlmVars, dmnVars, audVars, hst, cll, awr>>
    \/ TlmNext /\ UNCHANGED <<pttVars, dmnVars, audVars, hst, cll, awr>>
    \/ DmnNext /\ UNCHANGED <<pttVars, tlmVars, audVars, hst, cll, awr>>
    \/ AudNext /\ UNCHANGED <<pttVars, tlmVars, dmnVars, hst, cll, awr>>
    \/ HstNext /\ UNCHANGED <<pttVars, tlmVars, dmnVars, audVars, cll, awr>>
    \/ CllNext /\ UNCHANGED <<pttVars, tlmVars, dmnVars, audVars, hst, awr>>
    \/ AwrNext /\ UNCHANGED <<pttVars, tlmVars, dmnVars, audVars, hst, cll>>

Spec == Init /\ [][Next]_shellVars
             /\ TlmFairness /\ DmnFairness /\ AudFairness

\* Nothing below the link waits for ever: the display is shown the state, a
\* broadcast ends, the transmitter is let go of, a lost device is noticed.
ShellSettles == TlmShown /\ DmnBroadcastEnds /\ AudLetsGo /\ AudLossSeen
=============================================================================
