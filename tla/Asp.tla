-------------------------------- MODULE Asp --------------------------------
(***************************************************************************)
(* The application protocol (src/app/asp.c), its file and spine side       *)
(* (src/app/asp_app.c) and the object that opens and closes sessions with  *)
(* the link (src/app/ui/aspsession.cpp), at both ends of one ARQ link.     *)
(*                                                                         *)
(* A message travels as two units, a head and a tail, so that it may be    *)
(* cut by a full transmit queue, by the end of a session and between two   *)
(* deliveries.  The queue `wire` of a station is the spine's and the       *)
(* link's transmit queue: it outlives a session.  A file is the sequence   *)
(* of its chunks and a CRC is the sequence it was computed over: two       *)
(* different contents never have the same CRC.  All offers carry the same  *)
(* safe name, so every transfer meets the same .part file.                 *)
(***************************************************************************)
EXTENDS Naturals, Sequences, FiniteSets, FiniteSetsExt, SequencesExt

CONSTANT AspScenarios    \* what may happen and how often, see MCApps

ASSUME AspAssumption ==
    \A sc \in AspScenarios : /\ {"calls", "guests", "contents"} \subseteq DOMAIN sc
                             /\ <<>> \notin sc.contents
                             /\ \A e \in {"A", "B"} : sc.room[e] \in Nat \ {0, 1}

VARIABLES asp,       \* asp[e]: session, file and queue state of end e
          aspUp,     \* the ARQ link is up
          aspLeft    \* what the scenario still allows

aspVars == <<asp, aspUp, aspLeft>>

Ends == {"A", "B"}
Peer(e) == CHOOSE p \in Ends : p # e

-----------------------------------------------------------------------------
(* Messages and their units. *)

Garbage == 0                      \* a chunk that belongs to no file
Msg(type, id, n, body) == [type |-> type, id |-> id, n |-> n, body |-> body]
Units(m) == <<[part |-> "head", m |-> m], [part |-> "tail", m |-> m]>>
RawUnit == [part |-> "raw", m |-> Msg("RAW", 0, 0, <<>>)]

\* What asp_frame_get makes of a head h and the unit u that follows it.
Assemble(h, u) ==
    IF h.part = "raw" THEN Msg("UNKNOWN", 0, 0, <<>>)
    ELSE IF h.m = u.m /\ u.part = "tail" THEN h.m
    ELSE IF h.m.type = "DATA" THEN Msg("DATA", 0, 0, <<Garbage>>)
    ELSE Msg("MALFORMED", 0, 0, <<>>)

-----------------------------------------------------------------------------
(* Outbound: one message buffer in front of the queue. *)

\* app_tx_credit: nothing while a guest owns the link.
Credit(s) == IF s.owned THEN 0 ELSE s.room - Len(s.wire)
CanQueue(s) == s.out = <<>>

Flush(s) ==
    LET n == Min({Len(s.out), Credit(s)})      \* app_tx_submit takes a part
    IN  [s EXCEPT !.wire = @ \o SubSeq(s.out, 1, n),
                  !.out = SubSeq(@, n + 1, Len(@))]

\* A message is lost, and false returned, while another one is pending.
QueueMsg(s, m) ==
    IF CanQueue(s) THEN Flush([s EXCEPT !.out = Units(m)]) ELSE s

Fail(s) == [s EXCEPT !.state = "IDLE", !.asked = FALSE]

-----------------------------------------------------------------------------
(* Life of a session. *)

AspOpen(s) ==
    QueueMsg([s EXCEPT !.open = TRUE, !.state = "HELLO_SENT",
                       !.tx = "NONE", !.txid = 0, !.txoff = 0, !.txfile = <<>>,
                       !.rx = "NONE", !.rxid = 0, !.have = 0, !.run = <<>>,
                       !.rxfile = <<>>, !.out = <<>>, !.in = <<>>,
                       !.next = 1, !.sendfp = <<>>, !.recvfp = FALSE],
             Msg("HELLO", 0, 0, <<>>))

AspClose(s) ==
    [s EXCEPT !.open = FALSE, !.state = "IDLE", !.tx = "NONE", !.rx = "NONE",
              !.in = <<>>, !.out = <<>>, !.sendfp = <<>>, !.recvfp = FALSE,
              !.asked = FALSE]

CanSendFiles(s) == s.open /\ s.state = "ASP" /\ s.tx = "NONE"

-----------------------------------------------------------------------------
(* The file side of asp_app.c: what becomes of the two open files. *)

\* io_done for the outbound transfer.
SendDone(s) == [s EXCEPT !.tx = "NONE", !.sendfp = <<>>]

\* io_done for the inbound one; a whole file loses its .part suffix.
RecvDone(s, ok, renamed) ==
    LET t == [s EXCEPT !.rx = "NONE", !.recvfp = FALSE, !.asked = FALSE]
    IN  IF ~ok THEN t
        ELSE IF renamed
        THEN [t EXCEPT !.final = s.part, !.part = <<>>, !.got = @ \cup {s.part}]
        ELSE [t EXCEPT !.got = @ \cup {s.part}]

\* io_write_file: appended and flushed at once.
WriteFile(s, chunk) == [s EXCEPT !.part = @ \o chunk]

\* Mutant: a restarted transfer keeps what the file had.
TruncateFile_not(s) == s

TruncateFile(s) == IF s.recvfp THEN [s EXCEPT !.part = <<>>] ELSE s

-----------------------------------------------------------------------------
(* Inbound handlers. *)

\* asp_answer_offer; have and prefix_crc are what partial_state finds on disk.
AnswerOffer(s, accept) ==
    IF s.rx # "RECEIVING" THEN s
    ELSE IF ~accept
    THEN QueueMsg([s EXCEPT !.rx = "NONE"], Msg("REJECT", s.rxid, 0, <<>>))
    ELSE IF ~CanQueue(s) THEN s
    ELSE QueueMsg([s EXCEPT !.have = Len(s.part), !.run = s.part],
                  Msg("ACCEPT", s.rxid, Len(s.part), s.part))

\* io_offer opens the .part file; where that fails nobody is asked and the
\* offer stays unanswered.
OnOffer(s, m, disk) ==
    IF s.rx # "NONE" THEN QueueMsg(s, Msg("REJECT", m.id, 0, <<>>))
    ELSE LET t == [s EXCEPT !.rx = "RECEIVING", !.rxid = m.id,
                            !.rxfile = m.body, !.have = 0, !.run = <<>>,
                            !.recvfp = disk # "full"]
         IN  IF ~t.recvfp THEN t
             ELSE IF s.auto THEN AnswerOffer(t, TRUE)
             ELSE [t EXCEPT !.asked = TRUE]

\* The prefix is read again from the file being sent: a file that shrank
\* cannot vouch for it.
PrefixMatches(s, m) ==
    /\ m.n > 0
    /\ m.n <= Len(s.txfile)
    /\ m.n <= Len(s.sendfp)
    /\ SubSeq(s.sendfp, 1, m.n) = m.body

OnAccept(s, m) ==
    IF s.tx # "OFFERED" \/ m.id # s.txid \/ ~CanQueue(s) THEN s
    ELSE LET from == IF PrefixMatches(s, m) THEN m.n ELSE 0
         IN  QueueMsg([s EXCEPT !.txoff = from, !.tx = "RUNNING"],
                      Msg("START", s.txid, from, <<>>))

OnStart(s, m) ==
    IF s.rx # "RECEIVING" \/ m.id # s.rxid THEN s
    ELSE LET again == m.n = 0 /\ s.have > 0
             t == IF again THEN [TruncateFile(s) EXCEPT !.run = <<>>] ELSE s
         IN  [t EXCEPT !.have = m.n]

OnData(s, m, disk) ==
    IF s.rx # "RECEIVING" THEN s
    ELSE IF disk = "full" \/ ~s.recvfp
    THEN QueueMsg([s EXCEPT !.rx = "NONE"],
                  Msg("RESULT", s.rxid, 0, <<"WRITE_FAILED">>))
    ELSE [WriteFile(s, m.body) EXCEPT !.run = @ \o m.body,
                                      !.have = @ + Len(m.body)]

OnDone(s, m, disk) ==
    IF s.rx # "RECEIVING" \/ m.id # s.rxid THEN s
    ELSE LET result == IF s.have # Len(s.rxfile) THEN "SHORT"
                       ELSE IF s.run # s.rxfile THEN "CRC_MISMATCH" ELSE "OK"
         IN  RecvDone(QueueMsg(s, Msg("RESULT", m.id, 0, <<result>>)),
                      result = "OK", disk # "norename")

OnResult(s, m) ==
    IF s.tx = "NONE" \/ m.id # s.txid THEN s
    ELSE SendDone(IF m.body = <<"OK">> THEN [s EXCEPT !.told = @ \cup {s.txfile}]
                                       ELSE s)

\* Mutant: only the outbound transfer can be refused.
OnRefusal_outbound(s, m) ==
    IF s.tx # "NONE" /\ m.id = s.txid THEN SendDone(s) ELSE s

\* REJECT and CANCEL name a transfer by its id alone; the outbound one is
\* looked at first.
OnRefusal(s, m) ==
    CASE s.tx # "NONE" /\ m.id = s.txid -> SendDone(s)
      [] ~(s.tx # "NONE" /\ m.id = s.txid) /\ s.rx # "NONE" /\ m.id = s.rxid ->
            RecvDone(s, FALSE, FALSE)
      [] OTHER -> s

Dispatch(s, m, disk) ==
    CASE m.type = "HELLO"     -> [s EXCEPT !.state = "ASP"]
      [] m.type = "OFFER"     -> OnOffer(s, m, disk)
      [] m.type = "ACCEPT"    -> OnAccept(s, m)
      [] m.type = "START"     -> OnStart(s, m)
      [] m.type = "DATA"      -> OnData(s, m, disk)
      [] m.type = "DONE"      -> OnDone(s, m, disk)
      [] m.type = "RESULT"    -> OnResult(s, m)
      [] m.type \in {"REJECT", "CANCEL"} -> OnRefusal(s, m)
      [] m.type = "MALFORMED" -> Fail(s)
      [] OTHER                -> s       \* TEXT is shown, UNKNOWN skipped

IsHello(u) == u.part = "head" /\ u.m.type = "HELLO"

\* asp_recv of one unit.  What cannot be parsed stays in the buffer.
Recv(s, u, disk) ==
    IF s.state = "RAW" \/ (s.state = "HELLO_SENT" /\ s.in = <<>> /\ ~IsHello(u))
    THEN [s EXCEPT !.state = "RAW"]
    ELSE IF s.in = <<>>
    THEN IF u.part = "tail" THEN Fail([s EXCEPT !.in = <<u>>])
                            ELSE [s EXCEPT !.in = <<u>>]
    ELSE IF s.in[1].part = "tail" THEN Fail(s)
    ELSE LET m == Assemble(s.in[1], u)
         IN  Dispatch([s EXCEPT !.in = IF m.type = "MALFORMED" THEN <<u>>
                                                               ELSE <<>>],
                      m, disk)

-----------------------------------------------------------------------------
(* Outbound transfer. *)

\* asp_app_send_file and asp_offer_file; the id is spent in any case.
OfferFile(s, f) ==
    IF ~CanQueue(s) THEN [s EXCEPT !.next = @ + 1]
    ELSE QueueMsg([s EXCEPT !.sendfp = f, !.tx = "OFFERED", !.txid = s.next,
                            !.next = @ + 1, !.txfile = f, !.txoff = 0,
                            !.offered = @ \cup {f}],
                  Msg("OFFER", s.next, Len(f), f))

\* Mutant: a file that became shorter is not given up.
PumpTx_patient(s) ==
    IF s.tx # "RUNNING" \/ ~CanQueue(s) \/ Credit(s) < 2 THEN s
    ELSE IF s.txoff >= Len(s.txfile)
    THEN QueueMsg([s EXCEPT !.tx = "AWAIT_RESULT"],
                  Msg("DONE", s.txid, 0, <<>>))
    ELSE IF s.txoff >= Len(s.sendfp) THEN s
    ELSE QueueMsg([s EXCEPT !.txoff = @ + 1],
                  Msg("DATA", 0, 0, <<s.sendfp[s.txoff + 1]>>))

PumpTx(s) ==
    IF s.tx # "RUNNING" \/ ~CanQueue(s) \/ Credit(s) < 2 THEN s
    ELSE IF s.txoff >= Len(s.txfile)
    THEN QueueMsg([s EXCEPT !.tx = "AWAIT_RESULT"],
                  Msg("DONE", s.txid, 0, <<>>))
    ELSE IF s.txoff >= Len(s.sendfp)
    THEN SendDone(QueueMsg(s, Msg("CANCEL", s.txid, 0, <<>>)))
    ELSE QueueMsg([s EXCEPT !.txoff = @ + 1],
                  Msg("DATA", 0, 0, <<s.sendfp[s.txoff + 1]>>))

\* asp_cancel; nothing closes send_fp or recv_fp here.
AspCancel(s, inbound) ==
    IF inbound
    THEN QueueMsg([s EXCEPT !.rx = "NONE"], Msg("CANCEL", s.rxid, 0, <<>>))
    ELSE QueueMsg([s EXCEPT !.tx = "NONE"], Msg("CANCEL", s.txid, 0, <<>>))

-----------------------------------------------------------------------------
(* The steps. *)

AspStart ==
    [state |-> "IDLE", tx |-> "NONE", txid |-> 0, txoff |-> 0, txfile |-> <<>>,
     rx |-> "NONE", rxid |-> 0, rxfile |-> <<>>, have |-> 0, run |-> <<>>,
     out |-> <<>>, in |-> <<>>, next |-> 1, open |-> FALSE, owned |-> FALSE,
     sendfp |-> <<>>, recvfp |-> FALSE, part |-> <<>>, final |-> <<>>,
     wire |-> <<>>, auto |-> TRUE, asked |-> FALSE, room |-> 2,
     offered |-> {}, told |-> {}, got |-> {}]

AspInit ==
    /\ aspLeft \in AspScenarios
    /\ aspUp = FALSE
    /\ \E auto \in BOOLEAN : 
         asp = [e \in Ends |-> [AspStart EXCEPT !.auto = auto,
                                                !.room = aspLeft.room[e]]]

Spend(what) == /\ aspLeft[what] > 0
               /\ aspLeft' = [aspLeft EXCEPT ![what] = @ - 1]

Set(e, s) == asp' = [asp EXCEPT ![e] = s]

\* The link connects.  Both screens have closed the last session: a
\* connection takes seconds and the interface polls many times a second.
LinkUp ==
    /\ ~aspUp
    /\ \A e \in Ends : ~asp[e].open /\ ~asp[e].owned
    /\ Spend("calls")
    /\ aspUp' = TRUE
    /\ UNCHANGED asp

LinkDown == aspUp /\ aspUp' = FALSE /\ UNCHANGED <<asp, aspLeft>>

\* A TNC client takes the station, and leaves it.
GuestTakes(e) ==
    /\ ~asp[e].owned
    /\ Spend("guests")
    /\ Set(e, [asp[e] EXCEPT !.owned = TRUE])
    /\ UNCHANGED aspUp

GuestLeaves(e) ==
    /\ asp[e].owned
    /\ Set(e, [asp[e] EXCEPT !.owned = FALSE])
    /\ UNCHANGED <<aspUp, aspLeft>>

\* AspSession::reconsider, on a link or an owner event.
Reconsider(e) ==
    LET s == asp[e]
        want == aspUp /\ ~s.owned
    IN  /\ want # s.open
        /\ Set(e, IF want THEN AspOpen(s) ELSE AspClose(s))
        /\ UNCHANGED <<aspUp, aspLeft>>

\* One unit reaches end e.  While the link is down but the screen has not
\* noticed, what was received before is still handed over.
Deliver(e, disk) ==
    LET p == Peer(e)
    IN  /\ asp[e].open
        /\ asp[p].wire # <<>>
        /\ IF disk = "ok" THEN UNCHANGED aspLeft ELSE Spend("faults")
        /\ asp' = [asp EXCEPT ![p].wire = Tail(@),
                              ![e] = Recv(asp[e], Head(asp[p].wire), disk)]
        /\ UNCHANGED aspUp

\* The link sends on behalf of another owner, or nobody listens: the bytes
\* reach the peer's modem and no session.
Unheard(e) ==
    LET p == Peer(e)
    IN  /\ aspUp
        /\ asp[e].owned /\ ~asp[e].open
        /\ asp[p].wire # <<>>
        /\ asp' = [asp EXCEPT ![p].wire = Tail(@)]
        /\ UNCHANGED <<aspUp, aspLeft>>

\* asp_service, on every poll of the spine.
Service(e) ==
    /\ asp[e].open
    /\ PumpTx(Flush(asp[e])) # asp[e]
    /\ Set(e, PumpTx(Flush(asp[e])))
    /\ UNCHANGED <<aspUp, aspLeft>>

SendText(e) ==
    LET s == asp[e]
    IN  /\ s.open
        /\ s.state # "IDLE"
        /\ CanQueue(s)
        /\ Spend("texts")
        /\ Set(e, IF s.state = "RAW" THEN Flush([s EXCEPT !.out = <<RawUnit>>])
                  ELSE QueueMsg(s, Msg("TEXT", 0, 0, <<>>)))
        /\ UNCHANGED aspUp

SendFile(e, f) ==
    /\ e \in aspLeft.senders
    /\ CanSendFiles(asp[e])
    /\ asp[e].sendfp = <<>>
    /\ Spend("files")
    /\ Set(e, OfferFile(asp[e], f))
    /\ UNCHANGED aspUp

\* The operator answers an offer: FilesPage asks once, and takes the answer
\* as given whether or not it could be sent.
Answer(e, accept) ==
    /\ asp[e].open
    /\ asp[e].asked
    /\ Set(e, AnswerOffer([asp[e] EXCEPT !.asked = FALSE], accept))
    /\ UNCHANGED <<aspUp, aspLeft>>

Cancel(e, inbound) ==
    /\ asp[e].open
    /\ (IF inbound THEN asp[e].rx ELSE asp[e].tx) # "NONE"
    /\ CanQueue(asp[e])
    /\ Spend("cancels")
    /\ Set(e, AspCancel(asp[e], inbound))
    /\ UNCHANGED aspUp

\* The file being sent loses its last chunk.
Shrink(e) ==
    /\ asp[e].sendfp # <<>>
    /\ Spend("shrinks")
    /\ Set(e, [asp[e] EXCEPT !.sendfp = Front(@)])
    /\ UNCHANGED aspUp

AspNext ==
    \/ LinkUp
    \/ LinkDown
    \/ \E e \in Ends :
        \/ GuestTakes(e)
        \/ GuestLeaves(e)
        \/ Reconsider(e)
        \/ \E disk \in {"ok", "full", "norename"} : Deliver(e, disk)
        \/ Unheard(e)
        \/ Service(e)
        \/ SendText(e)
        \/ \E f \in aspLeft.contents : SendFile(e, f)
        \/ \E accept \in BOOLEAN : Answer(e, accept)
        \/ \E inbound \in BOOLEAN : Cancel(e, inbound)
        \/ Shrink(e)

\* The interface thread polls the spine and the link delivers what is queued;
\* an operator who is asked accepts.
AspFairness ==
    \A e \in Ends : /\ WF_aspVars(Reconsider(e))
                    /\ WF_aspVars(Deliver(e, "ok"))
                    /\ WF_aspVars(Service(e))
                    /\ WF_aspVars(Answer(e, TRUE))

-----------------------------------------------------------------------------
(* Properties. *)

\* A file that appears under its real name is, whole, one the peer offered:
\* over interrupted, resumed, restarted and failed transfers, with a partial
\* of another file of that name on disk (io_done renames only what passed the
\* size and CRC checks of on_done, and the disk holds what was checked).
AspOnlyWholeFiles ==
    \A e \in Ends : asp[e].final # <<>> => asp[e].final \in asp[Peer(e)].offered

\* A sender that is told OK by a RESULT has a peer that holds this very file
\* whole, whatever was cancelled, refused or left over from an earlier
\* session with the same ids (on_result goes by the id alone).
AspOkMeansWhole ==
    \A e \in Ends : asp[e].told \subseteq asp[Peer(e)].got

\* In the first session after the stations start, with no guest, the stream
\* never loses its framing: neither side falls back to raw text nor meets a
\* malformed message, however the queue cuts the messages.
AspFramingHolds ==
    (aspLeft.first /\ aspLeft.guests = 0) =>
        \A e \in Ends : asp[e].open => asp[e].state \in {"HELLO_SENT", "ASP"}

Quiet == \A e \in Ends : asp[e].wire = <<>> /\ asp[e].out = <<>> /\ asp[e].in = <<>>

\* With one sender and no chat in the way, once everything sent has arrived
\* the two ends agree whether a transfer is on: no cancel, refusal, write
\* error or shrunk file leaves one end waiting for the other.
AspEndsAgree ==
    (aspLeft.single /\ Quiet /\ \A e \in Ends : asp[e].open) =>
        (asp["A"].tx # "NONE" <=> asp["B"].rx # "NONE")

\* An offer comes to an end: accepted and sent, refused, or ended with the
\* session (one sender, no chat, no failing disk).
AspOfferSettled ==
    (aspLeft.live /\ asp["A"].tx = "OFFERED") ~> asp["A"].tx = "NONE"

\* What is received is what was offered: no other file appears under a real
\* name, and OK is told of no other.  It holds of one session, and of two in
\* the scenarios of MCApps; an ACCEPT that outlives its session can break it.
AspFilesWhole == AspOnlyWholeFiles /\ AspOkMeansWhole

\* Both ends read the same messages and agree on what is going on.
AspInStep == AspFramingHolds /\ AspEndsAgree
=============================================================================
