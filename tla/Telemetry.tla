------------------------------ MODULE Telemetry -----------------------------
(***************************************************************************)
(* The observation stream: the drop-oldest queue in front of the socket    *)
(* (src/shell/telemetry_tcp.c), the record format (src/shell/telemetry.c)  *)
(* and the display that reads it (src/gui/telemetryclient.cpp).            *)
(*                                                                         *)
(* The stream is a sequence of units.  A record is a header, which holds   *)
(* its length, and payload units; the hello has no header.  What a length  *)
(* field read in the middle of a record says is any number.                *)
(***************************************************************************)
EXTENDS Naturals, Sequences, SequencesExt

CONSTANTS TlmQueue,     \* TLM_QUEUE_BYTES, in units
          TlmSock,      \* what the socket holds
          TlmMaxBuf,    \* kMaxBuffer of the display
          TlmRecords,   \* bound: records emitted
          TlmVisits,    \* bound: connections made
          TlmLens       \* lengths of a record, header included

ASSUME TlmAssumption ==
    /\ TlmLens \subseteq 2..TlmQueue /\ TlmLens # {}
    /\ TlmSock \in Nat \ {0} /\ TlmMaxBuf \in Nat /\ TlmQueue \in Nat

VARIABLES tlm,        \* ardop_telemetry_tcp, and the status the modem has
          tlmSock,    \* what is on the way
          tlmGui      \* TelemetryClient

tlmVars == <<tlm, tlmSock, tlmGui>>

\* ardop_tlm_encode: a status record carries the state of the moment.
TlmRecord(n, len, status) ==
    [i \in 1..len |-> [n |-> n, at |-> i, len |-> len, status |-> status]]
TlmHello == [i \in 1..2 |-> [n |-> 0, at |-> i, len |-> 2, status |-> 0]]

TlmIsHeader(u) == u.n > 0 /\ u.at = 1

-----------------------------------------------------------------------------
(* The queue. *)

\* drop_oldest: the length at the head says how much goes.  [t, ok].
TlmDropOldest(t, noise) ==
    LET total == IF TlmIsHeader(t.q[1]) THEN t.q[1].len ELSE noise
    IN  IF total > Len(t.q) THEN [t EXCEPT !.q = <<>>, !.lost = TRUE]
        ELSE [t EXCEPT !.q = SubSeq(@, total + 1, Len(@)), !.lost = TRUE]

\* queue_bytes: the oldest go until the new one fits.
TlmQueueBytes(t, us, noise) ==
    LET room(x) == TlmQueue - Len(x.q) >= Len(us)
        made == FoldLeft(LAMBDA x, i : IF room(x) THEN x ELSE TlmDropOldest(x, noise),
                         t, [i \in 1..TlmQueue |-> i])
    IN  [made EXCEPT !.q = @ \o us]

\* flush: as much as the socket takes, to the unit.  [t, s].
TlmFlush(t, s) ==
    LET n == IF Len(t.q) < TlmSock - Len(s) THEN Len(t.q) ELSE TlmSock - Len(s)
    IN  [t |-> [t EXCEPT !.q = SubSeq(@, n + 1, Len(@))],
         s |-> s \o SubSeq(t.q, 1, n)]

\* drop_client.
TlmDropClient(t) == [t EXCEPT !.fd = FALSE, !.q = <<>>]

-----------------------------------------------------------------------------
(* The modem's side. *)

\* on_telemetry: a change of state is emitted as a status, other records do
\* not carry one.
TlmEmit(len, isStatus, noise) ==
    LET n == tlm.seq + 1
        t == [tlm EXCEPT !.seq = n, !.status = IF isStatus THEN n ELSE @]
        us == TlmRecord(n, len, IF isStatus THEN n ELSE 0)
        f == TlmFlush(TlmQueueBytes(t, us, noise), tlmSock)
    IN  /\ tlm.seq < TlmRecords
        /\ IF tlm.fd THEN tlm' = f.t /\ tlmSock' = f.s
                     ELSE tlm' = t /\ UNCHANGED tlmSock
        /\ UNCHANGED tlmGui

\* ardop_telemetry_tcp_service: accept and greet, notice a peer that left,
\* push on.
TlmService ==
    LET accepts == ~tlm.fd /\ tlmGui.conn = "dialled"
        status == TlmRecord(tlm.seq, CHOOSE l \in TlmLens : \A k \in TlmLens : l <= k,
                            tlm.status)
        greeted == [tlm EXCEPT !.fd = TRUE, !.lost = FALSE, !.q = TlmHello \o status]
        t == IF accepts THEN greeted ELSE tlm
        f == TlmFlush(t, tlmSock)
    IN  /\ tlm.fd \/ accepts
        /\ IF tlmGui.conn = "gone"
           THEN /\ tlm' = TlmDropClient(tlm) /\ tlmSock' = <<>>
                /\ tlmGui' = [tlmGui EXCEPT !.conn = "off"]
           ELSE /\ tlm' = f.t /\ tlmSock' = f.s
                /\ tlmGui' = [tlmGui EXCEPT !.conn = "on"]

-----------------------------------------------------------------------------
(* The display. *)

\* retry, and onConnected.
TlmDial ==
    /\ tlmGui.conn = "off"
    /\ tlmGui.visits > 0
    /\ tlmGui' = [tlmGui EXCEPT !.conn = "dialled", !.buf = <<>>, !.greeted = FALSE,
                                !.visits = @ - 1, !.last = 0]
    /\ UNCHANGED <<tlm, tlmSock>>

TlmLeave ==
    /\ tlmGui.conn = "on"
    /\ tlmGui' = [tlmGui EXCEPT !.conn = "gone", !.greeted = FALSE, !.buf = <<>>]
    /\ UNCHANGED <<tlm, tlmSock>>

\* ardop_tlm_parse at the head of the buffer: a record takes its length, be
\* it the record's own or not, and is shown when it has the shape of one.
TlmParseOne(g, noise) ==
    LET h == g.buf[1]
        total == IF TlmIsHeader(h) THEN h.len ELSE noise
    IN  IF g.buf = <<>> THEN g
        ELSE IF total > Len(g.buf) THEN g
        ELSE [g EXCEPT !.buf = SubSeq(@, total + 1, Len(@)),
                       !.last = IF TlmIsHeader(h) THEN h.n ELSE @,
                       !.shown = IF TlmIsHeader(h) /\ h.status > 0 THEN h.status ELSE @]

\* ardop_tlm_parse_hello.
TlmParseHello(buf) == SubSeq(buf, 1, 2) = TlmHello

\* consume: the hello first, then every whole record there is.
TlmConsume(g, noise) ==
    IF ~g.greeted /\ Len(g.buf) < 2 THEN g
    ELSE IF ~g.greeted /\ ~TlmParseHello(g.buf)
    THEN [g EXCEPT !.conn = "gone", !.buf = <<>>]
    ELSE LET open == IF g.greeted THEN g
                     ELSE [g EXCEPT !.greeted = TRUE, !.buf = SubSeq(@, 3, Len(@))]
         IN  FoldLeft(LAMBDA x, i : TlmParseOne(x, noise), open,
                      [i \in 1..Len(g.buf) |-> i])

\* onReadyRead: a buffer that grows and yields nothing is given up.
TlmReadyRead(n, noise) ==
    LET g == TlmConsume([tlmGui EXCEPT !.buf = @ \o SubSeq(tlmSock, 1, n)], noise)
    IN  /\ tlmGui.conn = "on"
        /\ n \in 1..Len(tlmSock)
        /\ tlmSock' = SubSeq(tlmSock, n + 1, Len(tlmSock))
        /\ tlmGui' = IF Len(g.buf) > TlmMaxBuf
                     THEN [g EXCEPT !.conn = "gone", !.buf = <<>>, !.greeted = FALSE]
                     ELSE g
        /\ UNCHANGED tlm

-----------------------------------------------------------------------------

TlmInit ==
    /\ tlm = [fd |-> FALSE, q |-> <<>>, seq |-> 1, status |-> 1, lost |-> FALSE]
    /\ tlmSock = <<>>
    /\ tlmGui = [conn |-> "off", greeted |-> FALSE, buf |-> <<>>, shown |-> 0,
                 last |-> 0, visits |-> TlmVisits]

TlmNext ==
    \/ \E len \in TlmLens, isStatus \in BOOLEAN, noise \in 1..TlmQueue :
          TlmEmit(len, isStatus, noise)
    \/ TlmService
    \/ TlmDial
    \/ TlmLeave
    \/ \E n \in 1..TlmSock, noise \in 1..TlmQueue : TlmReadyRead(n, noise)

\* A display that never comes.
TlmOff ==
    /\ tlm = [fd |-> FALSE, q |-> <<>>, seq |-> TlmRecords, status |-> 1, lost |-> FALSE]
    /\ tlmSock = <<>>
    /\ tlmGui = [conn |-> "off", greeted |-> FALSE, buf |-> <<>>, shown |-> 0,
                 last |-> 0, visits |-> 0]

\* The modem's loop services the socket for ever, a display reads what comes.
TlmPush == tlm.fd /\ tlmSock' = TlmFlush(tlm, tlmSock).s
TlmTake == tlmGui.conn = "on" /\ tlmSock' \in {SubSeq(tlmSock, n + 1, Len(tlmSock)) :
                                                  n \in 1..Len(tlmSock)}
TlmFairness == WF_tlmSock(TlmPush) /\ WF_tlmSock(TlmTake)

-----------------------------------------------------------------------------
(* Properties. *)

\* What is on its way to the display, and what was read and not parsed yet.
TlmStream == tlmGui.buf \o tlmSock
TlmFollows(u, v) == IF u.at < u.len THEN v = [u EXCEPT !.at = @ + 1]
                    ELSE v.at = 1 /\ v.n > u.n

\* The stream is the hello and whole records, a newer one after an older
\* (telemetry_tcp.c: "Ring of whole records").  It does not hold: flush sends
\* part of a record, and drop_oldest then takes what is in the middle of it
\* for a header.
TlmStreamWhole == \A i \in 1..(Len(TlmStream) - 1) : TlmFollows(TlmStream[i], TlmStream[i + 1])

\* A display that stays is shown the state the modem is in, however the
\* socket filled up meanwhile, as long as nothing was dropped.
TlmShown ==
    (tlm.fd /\ tlm.seq = TlmRecords) ~>
        (tlmGui.shown = tlm.status \/ tlm.lost \/ tlmGui.conn # "on")
=============================================================================
