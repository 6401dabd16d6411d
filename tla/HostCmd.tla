------------------------------- MODULE HostCmd ------------------------------
(***************************************************************************)
(* The host command interpreter (src/shell/host.c, ardop_host_command):   *)
(* what a line from a host application changes, what it is answered, and  *)
(* what a later query then reports.  A line is a keyword and a parameter; *)
(* names are read by Idents.tla.                                           *)
(*                                                                         *)
(* Behind it stands the link, reduced to the parts the interpreter reads: *)
(* its state, its mode and the bytes queued (Link.tla has all of it); it  *)
(* moves by itself between two lines.                                      *)
(***************************************************************************)
EXTENDS Idents, FiniteSets

CONSTANTS
    HstLines,    \* the lines the host may send: records [kw, par]
    HstSends,    \* how many of them, at most
    HstAux,      \* ARDOP_LINK_MAX_AUX slots; 10 in the code
    HstFecTypes, \* data frame types that have a name
    HstQueue     \* bytes the link's queue holds, at most

ASSUME HstFecAssumption == "4PSK.200.100" \in HstFecTypes

VARIABLE hst

\* A parameter is absent, or text of one of the kinds the commands tell
\* apart: a word, a number (perhaps followed by more), a list of texts.
HstNo == [is |-> "none"]
HstWord(w) == [is |-> "word", word |-> w]
HstNumber(n, tail) == [is |-> "number", n |-> n, tail |-> tail]
HstList(l) == [is |-> "list", list |-> l]
HstText(p) == IF p.is = "list" /\ p.list # <<>> THEN p.list[1] ELSE <<>>
\* atoi: what the text starts with, 0 for what is no number; strtol with
\* the whole text required to be one.
HstAtoi(p) == IF p.is = "number" THEN p.n ELSE 0
HstWhole(p) == p.is = "number" /\ ~p.tail

HstBandwidths == {"200FORCED", "500FORCED", "1000FORCED", "2000FORCED",
                  "200MAX", "500MAX", "1000MAX", "2000MAX", "UNDEFINED"}
HstModes == {"ARQ", "FEC", "RXO"}

\* ardop_host_state_name: ten link states are six to a host.
HstStateName(s) ==
    CASE s \in {"ISS_CON_REQ", "ISS_CON_ACK", "ISS"} -> "ISS"
      [] s \in {"IRS_CON_ACK", "IRS_DATA", "IRS_FROM_ISS"} -> "IRS"
      [] s = "IRS_TO_ISS" -> "IRStoISS"
      [] s = "FEC_SEND" -> "FECSEND"
      [] OTHER -> s
HstStates == {"DISC", "ISS_CON_REQ", "ISS", "IRS_DATA", "IDLE", "IRS_TO_ISS", "FEC_SEND"}
\* state_is_connected
HstConnected(s) == HstStateName(s) \notin {"DISC", "FECSEND"}

\* What the commands set, at its start-up value (ardop_link_init,
\* ardop_runtime_init): the link's settings, and three of the runtime's.
HstFlags == {"LISTEN", "AUTOBREAK", "FSKONLY", "USE600MODES", "ENABLEPINGACK"}
HstInit ==
    hst = [flag |-> [f \in HstFlags |-> f = "AUTOBREAK"],
           mycall |-> IdnNobody, grid |-> IdnNowhere,
           aux |-> [i \in 1..HstAux |-> IdnNobody], n_aux |-> 0,
           given |-> <<>>,                      \* the list MYAUX last accepted
           bw |-> "200FORCED", fecType |-> "4PSK.200.100", fecRepeats |-> 0,
           busyDet |-> 5, arqTimeout |-> 120, idleTimeout |-> 90,
           cwid |-> FALSE, onoff |-> FALSE,
           mode |-> "ARQ", state |-> "DISC", queue |-> 0,
           line |-> [kw |-> "none", par |-> HstNo],
           reply |-> [says |-> "nothing"],
           left |-> HstSends]
HstOff == hst = [left |-> 0, reply |-> [says |-> "nothing"]]
HstOn == "state" \in DOMAIN hst

\* The forms a reply has: KW value, KW now value, FAULT ..., KW alone.
HstIs(v) == [says |-> "is", value |-> v]
HstNow(v) == [says |-> "now", value |-> v]
HstFault == [says |-> "fault"]
HstEcho == [says |-> "echo"]
HstSilence == [says |-> "nothing"]

HstCwid(h) == IF ~h.cwid THEN "FALSE" ELSE IF h.onoff THEN "ONOFF" ELSE "TRUE"
HstAuxList(h) == [i \in 1..h.n_aux |-> h.aux[i].str]

\* The answer to a keyword without a parameter.
HstAnswer(h, kw) ==
    CASE kw = "MYCALL" -> h.mycall.str
      [] kw = "GRIDSQUARE" -> h.grid.grid
      [] kw = "MYAUX" -> HstAuxList(h)
      [] kw = "ARQBW" -> h.bw
      [] kw = "PROTOCOLMODE" -> h.mode
      [] kw = "FECMODE" -> h.fecType
      [] kw = "FECREPEATS" -> h.fecRepeats
      [] kw \in {"BUFFER", "DATATOSEND"} -> h.queue
      [] kw \in HstFlags -> h.flag[kw]
      [] kw = "STATE" -> HstStateName(h.state)
      [] kw = "BUSYDET" -> h.busyDet
      [] kw = "ARQTIMEOUT" -> h.arqTimeout
      [] kw = "IDLETIMEOUT" -> h.idleTimeout
      [] kw = "CWID" -> HstCwid(h)
      [] OTHER -> "none"
HstQueries == {"MYCALL", "GRIDSQUARE", "MYAUX", "ARQBW", "PROTOCOLMODE", "FECMODE",
               "FECREPEATS", "BUFFER", "DATATOSEND", "STATE", "BUSYDET",
               "ARQTIMEOUT", "IDLETIMEOUT", "CWID"} \cup HstFlags

\* --- the actions: every outcome is the new settings and the reply --------
HstOut(h, r) == [h |-> h, r |-> r]

\* ABORT and DD: step_host_abort empties the queue and leaves any session.
HstAbort(h) == HstOut([h EXCEPT !.state = "DISC", !.queue = 0], HstEcho)

\* ARQCALL.  The link takes it only from DISC and with a width to ask for
\* (step_host_connect); the reply is the echo either way.
HstCall(h, p) ==
    IF ~IdnValid(IdnFromStr(HstText(p))) \/ ~IdnValid(h.mycall) \/ h.mode # "ARQ"
    THEN HstOut(h, HstFault)
    ELSE HstOut([h EXCEPT !.state =
                    IF h.state = "DISC" /\ h.bw # "UNDEFINED" THEN "ISS_CON_REQ" ELSE @],
                HstEcho)

HstDisconnect(h) == HstOut(h, IF HstConnected(h.state) THEN HstNow("TRUE") ELSE HstEcho)

HstSendId(h) ==
    HstOut(h, IF IdnValid(h.mycall) /\ h.state = "DISC" THEN HstEcho ELSE HstFault)

\* FECSEND: needs TRUE, a call, bytes and a data mode; step_host_fec_send
\* then changes the mode in any state, and starts only from DISC.
HstFecSend(h, p) ==
    IF p = HstNo THEN HstOut(h, HstFault)
    ELSE IF p # HstWord("TRUE") THEN HstOut(h, HstNow(FALSE))
    ELSE IF ~IdnValid(h.mycall) \/ h.queue = 0 \/ h.fecType \notin HstFecTypes
    THEN HstOut(h, HstFault)
    ELSE HstOut([h EXCEPT !.mode = "FEC",
                    !.state = IF h.state = "DISC" THEN "FEC_SEND" ELSE @],
                HstNow(TRUE))

\* --- configuration -------------------------------------------------------
HstMyCall(h, p) ==
    LET id == IdnFromStr(HstText(p)) IN
    IF IdnValid(id) THEN HstOut([h EXCEPT !.mycall = id], HstNow(id.str))
    ELSE HstOut(h, HstFault)
HstGrid(h, p) ==
    LET g == IdnGridFromStr(HstText(p)) IN
    IF IdnGridAccepts(HstText(p)) THEN HstOut([h EXCEPT !.grid = g], HstNow(g.grid))
    ELSE HstOut(h, HstFault)
\* The list is written over the one in use before it is known to be good:
\* when it is not, what is left of either is not to be used.
HstMyAux(h, p) ==
    LET slots == IdnOverwrite(p.list, h.aux) IN
    IF IdnListOk(p.list, HstAux)
    THEN LET n == [h EXCEPT !.aux = slots, !.given = p.list,
                      !.n_aux = IF Len(p.list) < HstAux THEN Len(p.list) ELSE HstAux]
         IN  HstOut(n, HstNow(HstAuxList(n)))
    ELSE HstOut([h EXCEPT !.aux = slots, !.n_aux = 0, !.given = <<>>], HstFault)
HstBandwidth(h, p) ==
    IF p.is = "word" /\ p.word \in HstBandwidths
    THEN HstOut([h EXCEPT !.bw = p.word], HstNow(p.word)) ELSE HstOut(h, HstFault)
\* PROTOCOLMODE: the link changes mode only in DISC (ARDOP_CMD_SET_MODE),
\* and the reply does not ask it.
HstMode(h, p) ==
    IF p.is # "word" \/ p.word \notin HstModes THEN HstOut(h, HstFault)
    ELSE HstOut([h EXCEPT !.mode = IF h.state = "DISC" THEN p.word ELSE @],
                HstNow(p.word))
HstFecMode(h, p) ==
    IF p.is = "word" /\ p.word \in HstFecTypes
    THEN HstOut([h EXCEPT !.fecType = p.word], HstNow(p.word)) ELSE HstOut(h, HstFault)
HstRepeats(h, p) ==
    IF HstAtoi(p) \in 0..5
    THEN HstOut([h EXCEPT !.fecRepeats = HstAtoi(p)], HstNow(HstAtoi(p)))
    ELSE HstOut(h, HstFault)
HstBuffer(h, p) ==
    IF HstAtoi(p) = 0 THEN HstOut([h EXCEPT !.queue = 0], HstNow(0))
    ELSE HstOut(h, HstFault)
HstBool(h, kw, p) ==
    IF p = HstWord("TRUE") THEN HstOut([h EXCEPT !.flag[kw] = TRUE], HstNow(TRUE))
    ELSE IF p = HstWord("FALSE") THEN HstOut([h EXCEPT !.flag[kw] = FALSE], HstNow(FALSE))
    ELSE HstOut(h, HstFault)
HstInRange(p, lo, hi) == HstWhole(p) /\ p.n \in lo..hi
HstBusyDet(h, p) ==
    IF HstInRange(p, 0, 10) THEN HstOut([h EXCEPT !.busyDet = p.n], HstNow(p.n))
    ELSE HstOut(h, HstFault)
HstArqTimeout(h, p) ==
    IF HstInRange(p, 30, 240) THEN HstOut([h EXCEPT !.arqTimeout = p.n], HstNow(p.n))
    ELSE HstOut(h, HstFault)
HstIdleTimeout(h, p) ==
    IF HstInRange(p, 0, 600) THEN HstOut([h EXCEPT !.idleTimeout = p.n], HstNow(p.n))
    ELSE HstOut(h, HstFault)
\* Mutant: TRUE forgets that ONOFF was chosen before.
HstSetCwid_sticky(h, p) ==
    IF p.is # "word" \/ p.word \notin {"TRUE", "FALSE", "ONOFF"} THEN HstOut(h, HstFault)
    ELSE LET n == [h EXCEPT !.cwid = p.word # "FALSE",
                            !.onoff = @ \/ p.word = "ONOFF"]
         IN  HstOut(n, HstNow(p.word))
HstSetCwid(h, p) ==
    IF p.is # "word" \/ p.word \notin {"TRUE", "FALSE", "ONOFF"} THEN HstOut(h, HstFault)
    ELSE LET n == [h EXCEPT !.cwid = p.word # "FALSE",
                            !.onoff = IF p.word = "FALSE" THEN @ ELSE p.word = "ONOFF"]
         IN  HstOut(n, HstNow(HstCwid(n)))

\* The dispatch of ardop_host_command, in its order.
HstCommand(h, kw, p) ==
    CASE kw \in {"ABORT", "DD"} -> HstAbort(h)
      [] kw = "ARQCALL" -> HstCall(h, p)
      [] kw = "DISCONNECT" -> HstDisconnect(h)
      [] kw \in {"BREAK", "RDY"} -> HstOut(h, HstSilence)
      [] kw = "SENDID" -> HstSendId(h)
      [] kw = "FECSEND" -> HstFecSend(h, p)
      [] kw = "PURGEBUFFER" -> HstOut([h EXCEPT !.queue = 0], HstEcho)
      [] kw \in {"VERSION", "INITIALIZE"} -> HstOut(h, HstEcho)
      [] kw \in HstQueries /\ p = HstNo -> HstOut(h, HstIs(HstAnswer(h, kw)))
      [] kw = "MYCALL" -> HstMyCall(h, p)
      [] kw = "GRIDSQUARE" -> HstGrid(h, p)
      [] kw = "MYAUX" -> HstMyAux(h, p)
      [] kw = "ARQBW" -> HstBandwidth(h, p)
      [] kw = "PROTOCOLMODE" -> HstMode(h, p)
      [] kw = "FECMODE" -> HstFecMode(h, p)
      [] kw = "FECREPEATS" -> HstRepeats(h, p)
      [] kw \in {"BUFFER", "DATATOSEND"} -> HstBuffer(h, p)
      [] kw \in HstFlags -> HstBool(h, kw, p)
      [] kw = "BUSYDET" -> HstBusyDet(h, p)
      [] kw = "ARQTIMEOUT" -> HstArqTimeout(h, p)
      [] kw = "IDLETIMEOUT" -> HstIdleTimeout(h, p)
      [] kw = "CWID" -> HstSetCwid(h, p)
      [] OTHER -> HstOut(h, HstFault)

\* One line from a host.
HstSend(l) ==
    /\ hst.left > 0
    /\ LET out == HstCommand(hst, l.kw, l.par)
       IN  hst' = [out.h EXCEPT !.line = l, !.reply = out.r, !.left = @ - 1]

\* Between lines the link moves: a session begins or ends or turns over, a
\* broadcast ends, the host's data arrives on the other socket or goes out.
HstLink ==
    /\ HstOn
    /\ \E s \in HstStates :
          hst' = [hst EXCEPT !.state = s,
                    !.reply = HstSilence, !.line = [kw |-> "none", par |-> HstNo]]
    /\ hst.mode = "FEC" => hst'.state \in {"DISC", "FEC_SEND"}
HstData ==
    /\ HstOn
    /\ \E n \in 0..HstQueue :
          hst' = [hst EXCEPT !.queue = n, !.reply = HstSilence,
                             !.line = [kw |-> "none", par |-> HstNo]]

HstNext == (\E l \in HstLines : HstSend(l)) \/ HstLink \/ HstData

----------------------------------------------------------------------------
\* A command that is refused has changed nothing the host could ask about,
\* but for a list of auxiliary calls that was not good to its end, which
\* takes the old list with it (link->n_aux = 0).
HstFaultKeepsAll ==
    hst'.reply = HstFault =>
        \A kw \in HstQueries :
            \/ HstAnswer(hst', kw) = HstAnswer(hst, kw)
            \/ kw = "MYAUX" /\ hst'.line.kw = "MYAUX" /\ HstAuxList(hst') = <<>>

\* "KW now V" is what a query then answers -- after any history of other
\* commands -- except where the reply does not ask the link: a mode set
\* during a session is announced and not set.
HstNowIsTrue ==
    (hst'.reply.says = "now" /\ hst'.line.kw \in HstQueries)
    => \/ HstAnswer(hst', hst'.line.kw) = hst'.reply.value
       \/ hst'.line.kw = "PROTOCOLMODE" /\ hst.state # "DISC"

\* The auxiliary calls a station answers to are those of the list its host
\* last gave it, in order, up to the slots there are: never a mixture of
\* two lists, although a new one is read straight over the old.
HstAuxIsOneList(h) ==
    /\ h.n_aux <= HstAux
    /\ \A i \in 1..h.n_aux : h.aux[i] = IdnFromStr(h.given[i])
    /\ h.n_aux = 0 \/ h.n_aux = Len(h.given) \/ h.n_aux = HstAux

\* A host that goes by the replies knows the modem's settings.
HstRepliesTrue ==
    [][HstOn => HstFaultKeepsAll /\ HstNowIsTrue /\ HstAuxIsOneList(hst')]_hst
=============================================================================
