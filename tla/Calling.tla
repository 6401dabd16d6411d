------------------------------- MODULE Calling ------------------------------
(***************************************************************************)
(* Setting up a session: what the names, the bandwidth settings and the   *)
(* session number of two stations make of a call.  Station A calls,       *)
(* station B listens under its own call and its auxiliary ones            *)
(* (src/core/link: session.c, bandwidth.c, datamodes.c and the handshake  *)
(* of link.c; names by Idents.tla).                                        *)
(*                                                                         *)
(* Link.tla has the same handshake with the outcome of the negotiation a  *)
(* free choice and every other frame and timer; here the DATA is exact    *)
(* and the handshake is the bare exchange with lost frames, repeats, calls *)
(* given up and settings changed in between.                               *)
(***************************************************************************)
EXTENDS Idents

CONSTANTS
    CllTargets,    \* the texts A's host calls
    CllMine,       \* the text A's host gave as MYCALL
    CllNames,      \* what B may be called: sets of texts, MYCALL and MYAUX
    CllSettings,   \* ARQBW settings that occur
    CllLadders,    \* [fsk_only, use_600_modes, tuning_range] combinations
    CllTries       \* calls A's host places, at most

VARIABLE cll

\* An ARQBW setting and the ConReq type that carries it (the type encodes
\* exactly the width and the policy, ardop_bandwidth_conreq_type).
CllUndefined == [hz |-> 0, forced |-> FALSE]
CllHz == {200, 500, 1000, 2000}

ASSUME CllAssumption ==
    /\ CllSettings \subseteq {CllUndefined} \cup [hz : CllHz, forced : BOOLEAN]
    /\ CllLadders \subseteq [fsk : BOOLEAN, use600 : BOOLEAN, tuning : Nat]
    /\ CllTargets \subseteq Seq(Nat) /\ CllNames \subseteq SUBSET Seq(Nat)
    \* MYCALL and MYAUX accept only names that are valid.
    /\ \A names \in CllNames : \A t \in names : IdnValid(IdnFromStr(t))

\* ardop_negotiate_bandwidth: the session width, or 0 for ConRejBW.
CllNegotiate(local, req) ==
    CASE local = CllUndefined -> 0
      [] local.forced /\ req.forced -> IF req.hz = local.hz THEN local.hz ELSE 0
      [] local.forced /\ ~req.forced -> IF req.hz >= local.hz THEN local.hz ELSE 0
      [] ~local.forced /\ req.forced -> IF req.hz <= local.hz THEN req.hz ELSE 0
      [] OTHER -> IF req.hz <= local.hz THEN req.hz ELSE local.hz

\* ardop_session_id: a checksum of the two canonical texts, caller first.
\* The eight bits of the checksum are abstracted: two pairs never collide.
CllSession(caller, target) == <<caller.str, target.str>>

\* ardop_call_to_me: B's own call first, then the auxiliary ones; the
\* session takes the text of the name that matched.
CllToMe(target, names) == {n \in names : IdnSame(n, target)}

\* ardop_data_modes and ardop_shift_up_thresholds.
CllModes(hz, s) ==
    CASE hz = 200 -> IF s.fsk THEN <<72>> ELSE <<72, 66, 64, 68, 70>>
      [] hz = 500 -> IF s.fsk THEN <<72>> ELSE <<72, 66, 64, 80, 82, 84>>
      [] hz = 1000 -> IF s.fsk THEN <<76, 74>> ELSE <<76, 74, 80, 96, 98, 100>>
      [] hz = 2000 /\ s.tuning > 0 /\ ~s.use600 ->
            IF s.fsk THEN <<76, 74>> ELSE <<76, 74, 80, 96, 112, 114, 116>>
      [] hz = 2000 -> <<76, 74, 124, 122>>
      [] OTHER -> <<>>
CllThresholds(hz, s) ==
    CASE hz = 200 -> <<82, 84, 84, 85, 0>>
      [] hz = 500 -> <<80, 84, 84, 75, 79, 0>>
      [] hz = 1000 -> <<80, 80, 80, 80, 75, 0>>
      [] s.tuning > 0 /\ ~s.use600 -> <<80, 80, 80, 76, 85, 75, 0>>
      [] OTHER -> <<60, 85, 85, 0>>
\* The width in Hz of the data frame types of the ladders (frame_table).
CllWidthOf(type) ==
    CASE type \in 64..73 -> 200
      [] type \in 74..85 -> 500
      [] type \in 96..101 -> 1000
      [] OTHER -> 2000

CllNoFrame == [kind |-> "none"]

CllStart(at, mine, bw, lad, tries) ==
    [a |-> at, b |-> at,
     aBw |-> bw, bBw |-> bw, aLad |-> lad,
     names |-> mine,          \* the texts B was given
     target |-> <<>>,         \* the text A's host called
     aSess |-> <<>>, bSess |-> <<>>,
     aHz |-> 0, bHz |-> 0,
     asked |-> CllUndefined, answered |-> CllUndefined,
     air |-> CllNoFrame,
     said |-> "nothing",      \* what B's host was told of the call
     tries |-> tries]
CllInit == \E mine \in CllNames, bw \in CllSettings, lad \in CllLadders :
    cll = CllStart("DISC", mine, bw, lad, CllTries)
\* No stations: nothing ever happens.
CllOff == cll = CllStart("off", {}, CllUndefined, CHOOSE lad \in CllLadders : TRUE, 0)

\* B's station ids: MYCALL and MYAUX accept only valid ones.
CllIds == {IdnFromStr(t) : t \in cll.names}
CllMe == IdnFromStr(CllMine)

\* step_host_connect: only from DISC, with a valid target (the command
\* parser has refused the others) and a width to ask for.
CllCall(t, bw) ==
    LET id == IdnFromStr(t) IN
    /\ cll.a = "DISC" /\ cll.air = CllNoFrame
    /\ cll.tries > 0
    /\ IdnValid(id)
    /\ bw # CllUndefined
    /\ cll' = [cll EXCEPT
          !.a = "ISS_CON_REQ", !.target = t, !.aBw = bw, !.asked = bw,
          !.aSess = CllSession(CllMe, id), !.tries = @ - 1, !.said = "nothing",
          !.air = [kind |-> "conreq", bw |-> bw,
                   caller |-> CllMe.wire, target |-> id.wire]]

\* The repeat timer of ISS_CON_REQ and ISS_CON_ACK.
CllRepeat ==
    /\ cll.a \in {"ISS_CON_REQ", "ISS_CON_ACK"} /\ cll.air = CllNoFrame
    /\ cll' = [cll EXCEPT !.air =
          IF cll.a = "ISS_CON_REQ"
          THEN [kind |-> "conreq", bw |-> cll.asked, caller |-> CllMe.wire,
                target |-> IdnFromStr(cll.target).wire]
          ELSE [kind |-> "conack", hz |-> cll.aHz, sess |-> cll.aSess, to |-> "b"]]

\* The channel loses what is on it.
CllLose == cll.air # CllNoFrame /\ cll' = [cll EXCEPT !.air = CllNoFrame]

\* step_disc_conreq, with ardop_stationid_from_bytes for both names.
CllHearRequest ==
    LET f == cll.air IN
    /\ f.kind = "conreq"
    /\ IF cll.b # "DISC" THEN cll' = [cll EXCEPT !.air = CllNoFrame]
       ELSE LET caller == IdnFromBytes(f.caller)
                target == IdnFromBytes(f.target)
                me == CllToMe(target, CllIds)
                hz == CllNegotiate(cll.bBw, f.bw)
            IN  IF ~IdnValid(caller) \/ ~IdnValid(target)
                THEN cll' = [cll EXCEPT !.air = CllNoFrame]
                ELSE IF me = {}
                THEN cll' = [cll EXCEPT !.air = CllNoFrame,
                                        !.said = "CANCELPENDING"]
                ELSE LET s == CllSession(caller, CHOOSE n \in me : TRUE) IN
                     IF hz = 0
                     THEN cll' = [cll EXCEPT !.said = "REJECTEDBW",
                                     !.answered = cll.bBw,
                                     !.air = [kind |-> "conrej", sess |-> s, to |-> "a"]]
                     ELSE cll' = [cll EXCEPT !.said = "TARGET",
                                     !.answered = cll.bBw,
                                     !.b = "IRS_CON_ACK", !.bSess = s, !.bHz = hz,
                                     !.air = [kind |-> "conack", hz |-> hz,
                                              sess |-> s, to |-> "a"]]

\* A frame of a session is decoded by the station that holds its number:
\* step_iss_conreq_rx, step_iss_conack_rx, step_irs_conack_rx.
CllHear ==
    LET f == cll.air IN
    /\ f.kind \in {"conack", "conrej", "dataack"}
    /\ \/ /\ f.to = "a" /\ f.sess = cll.aSess
          /\ CASE f.kind = "conack" /\ cll.a = "ISS_CON_REQ" ->
                    cll' = [cll EXCEPT !.a = "ISS_CON_ACK", !.aHz = f.hz,
                              !.air = [f EXCEPT !.to = "b"]]
               [] f.kind = "conrej" /\ cll.a = "ISS_CON_REQ" ->
                    cll' = [cll EXCEPT !.a = "DISC", !.air = CllNoFrame]
               [] f.kind = "dataack" /\ cll.a = "ISS_CON_ACK" ->
                    cll' = [cll EXCEPT !.a = "CONNECTED", !.air = CllNoFrame]
               [] OTHER -> cll' = [cll EXCEPT !.air = CllNoFrame]
       \/ /\ f.to = "b" /\ f.sess = cll.bSess
          /\ IF f.kind = "conack" /\ cll.b = "IRS_CON_ACK"
             THEN cll' = [cll EXCEPT !.b = "CONNECTED", !.bHz = f.hz,
                             !.air = [kind |-> "dataack", sess |-> f.sess, to |-> "a"]]
             ELSE cll' = [cll EXCEPT !.air = CllNoFrame]

\* A call given up (ABORT, or the repeats run out); a session that ends;
\* the answering station's wait that runs out (IRS_PENDING_TIMEOUT_MS).
CllDropA == /\ cll.a \notin {"DISC", "off"}
            /\ cll' = [cll EXCEPT !.a = "DISC", !.aSess = <<>>]
CllDropB == /\ cll.b \notin {"DISC", "off"}
            /\ cll' = [cll EXCEPT !.b = "DISC", !.bSess = <<>>]

\* B's host changes MYCALL, MYAUX or ARQBW at any time.
CllRename == \E n \in CllNames, bw \in CllSettings :
    /\ cll.b # "off"
    /\ cll.said = "nothing"
    /\ cll' = [cll EXCEPT !.names = n, !.bBw = bw]

CllNext ==
    \/ \E t \in CllTargets, bw \in CllSettings : CllCall(t, bw)
    \/ CllRepeat \/ CllLose \/ CllHearRequest \/ CllHear
    \/ CllDropA \/ CllDropB \/ CllRename

----------------------------------------------------------------------------
\* The node a text denotes: the callsign in capitals and the SSID's number,
\* with 0 when none is given; letters and "10" to "15" are numbered apart.
CllDenotes(t) ==
    LET at == SelectInSeq(t, LAMBDA c : c = IdnDash)
        call == IF at = 0 THEN t ELSE SubSeq(t, 1, at - 1)
        ssid == IF at = 0 THEN <<>> ELSE SubSeq(t, at + 1, Len(t))
    IN  [call |-> [i \in DOMAIN call |-> IdnUpper(call[i])],
         node |-> IF Len(ssid) > 1 /\ ssid[1] = 49 THEN <<"ten", ssid[2] - 48>>
                  ELSE IF ssid = <<>> THEN <<"one", 0>>
                  ELSE <<"one", IdnDigit(ssid[Len(ssid)])>>]

\* A call is taken by exactly the stations it was meant for, whatever the
\* case of the letters and however the SSID was written on either side
\* (ardop_call_to_me compares packed bytes made from typed text).
CllRightStation ==
    (cll.a # "off" /\ cll.said # "nothing")
    => (cll.said \in {"TARGET", "REJECTEDBW"}
        <=> \E t \in cll.names : CllDenotes(t) = CllDenotes(cll.target))

\* The answer to a call is sent under the number the caller listens for:
\* both ends compute it, each from its own idea of the two names.
CllSameSession ==
    (cll.a = "ISS_CON_REQ" /\ cll.b = "IRS_CON_ACK")
    => cll.bSess = cll.aSess \/ cll.said # "TARGET"

\* A session runs at the widest bandwidth both settings allow, both ends
\* know the same one, and a call is refused only when there is none.
CllWidths(s) == IF s.forced THEN {s.hz} ELSE {w \in CllHz : w <= s.hz}
CllWidest ==
    LET both == CllWidths(cll.asked) \cap CllWidths(cll.answered) IN
    /\ (cll.a # "off" /\ cll.said = "REJECTEDBW") => both = {}
    /\ (cll.a = "CONNECTED" /\ cll.b = "CONNECTED")
          => cll.aHz = cll.bHz /\ cll.aHz \in both /\ \A w \in both : w <= cll.aHz

\* The ladder a session starts with never uses a frame wider than the
\* session, and has a threshold for every rung but the FSK-only cut.
CllFits ==
    cll.a = "CONNECTED" =>
        LET modes == CllModes(cll.aHz, cll.aLad) IN
        /\ modes # <<>>
        /\ \A i \in 1..Len(modes) : CllWidthOf(modes[i]) <= cll.aHz
        /\ Len(modes) <= Len(CllThresholds(cll.aHz, cll.aLad))

\* A call reaches the right station and sets up one session, under one
\* number, at the best width, with a ladder for it.
CllSetUp == CllRightStation /\ CllSameSession /\ CllWidest /\ CllFits
=============================================================================
