-------------------------------- MODULE Spine -------------------------------
(***************************************************************************)
(* The application spine, app/spine.c: what joins the modem thread, the    *)
(* application's thread (the submitter) and a TNC client (the guest).      *)
(*                                                                         *)
(* As in Link, the functions that edit the app_spine struct are operators  *)
(* from a spine record to a spine record and keep their C names; Station   *)
(* calls them from the threads.  The runtime below the spine is reduced to *)
(* what the spine looks at: the link's state (disconnected, calling, in    *)
(* session), the length of its transmit queue and whether a frame is being *)
(* sent.  Bytes are units, and a ring holds records, all of one size; the  *)
(* observations of one call count as one event record.  The lossy display  *)
(* ring carries no decision and is left out.                               *)
(***************************************************************************)
EXTENDS Integers, Sequences

CONSTANTS
    TxCap,     \* tx_cap of the link's transmit queue
    Chunk,     \* APP_TX_CHUNK: most that one data record carries
    CmdCap,    \* records the command ring holds
    EventCap   \* records the event ring holds, one of them its reserve

ASSUME SizesAssumption ==
    /\ TxCap \in Nat /\ Chunk \in Nat \ {0}
    /\ CmdCap \in Nat \ {0} /\ EventCap \in Nat \ {0}

LinkStates == {"DISC", "CALLING", "SESSION"}
Least(a, b) == IF a < b THEN a ELSE b

(***************************************************************************)
(* The fields: link, tx_len and tx_active are the runtime's; caller is     *)
(* "GUEST" for a session the guest asked for; ptt is the keying line; plat *)
(* says that a device is bound; tnc that a TNC transport is; owned is      *)
(* tnc_attached_local.  lost (event_lost > 0) and told (the application    *)
(* has read the overflow report) are looked at by properties only.         *)
(***************************************************************************)
Spines ==
    [link : LinkStates, caller : {"OTHER", "GUEST"}, tx_len : 0..TxCap,
     tx_active : BOOLEAN, ptt : BOOLEAN, plat : BOOLEAN,
     run : {"OK", "FAULTED", "CLOSING"}, tnc : BOOLEAN, owned : BOOLEAN,
     events : Seq({"EVENT", "OVERFLOW"}), events_congested : BOOLEAN,
     overflow_reported : BOOLEAN, lost : BOOLEAN, told : BOOLEAN,
     tx_applied : Nat, tx_limit : Nat]

room(s) == TxCap - s.tx_len

\* Nothing is admitted while any of these holds; the last that holds is the
\* reason tx_reason publishes.
Withheld(s) ==
    \/ ~s.plat
    \/ s.events_congested
    \/ s.owned
    \/ s.run # "OK"

publish_credit(s) ==
    [s EXCEPT !.tx_limit =
        s.tx_applied + IF Withheld(s) THEN 0 ELSE room(s)]

\* app_open: no device, no transport, an empty link.
NewSpine ==
    [link |-> "DISC", caller |-> "OTHER", tx_len |-> 0, tx_active |-> FALSE,
     ptt |-> FALSE, plat |-> FALSE, run |-> "OK", tnc |-> FALSE,
     owned |-> FALSE, events |-> <<>>, events_congested |-> FALSE,
     overflow_reported |-> FALSE, lost |-> FALSE, told |-> FALSE,
     tx_applied |-> 0, tx_limit |-> 0]

-----------------------------------------------------------------------------
(* Emitting upward *)

\* app_ring_write: a record is written whole, and only if the reserve stays free.
Fits(s, reserve) == Len(s.events) + reserve < EventCap

queue_event(s, kind, reserve) ==
    IF Fits(s, reserve) THEN [s EXCEPT !.events = Append(@, kind)] ELSE s

overflow(s) ==
    IF s.overflow_reported
    THEN [s EXCEPT !.lost = TRUE]
    ELSE queue_event([s EXCEPT !.lost = TRUE, !.overflow_reported = TRUE],
                     "OVERFLOW", 0)

\* Ordinary records written without a reserve.
emit_no_reserve(s) ==
    IF Fits(s, 0) THEN queue_event(s, "EVENT", 0) ELSE overflow(s)

\* An ordinary record may not use the reserve: the report of a loss needs it.
emit(s) == IF Fits(s, 1) THEN queue_event(s, "EVENT", 1) ELSE overflow(s)

\* app_step's last act: half full cuts the credit, a quarter full restores it.
Congestion(s) ==
    [s EXCEPT !.events_congested =
        IF Len(s.events) > EventCap \div 2 THEN TRUE
        ELSE IF Len(s.events) < EventCap \div 4 THEN FALSE
        ELSE @]

-----------------------------------------------------------------------------
(* The runtime below, as far as the spine sees it *)

\* start_tx, and observe() of the PTT edge: keyed through the bound device only.
start_tx(s) ==
    [s EXCEPT !.tx_active = TRUE,
              !.ptt = @ \/ (s.plat /\ ~s.tx_active)]

\* pull_tx at the end of the samples: unkeyed through the bound device.
end_tx(s) == [s EXCEPT !.tx_active = FALSE, !.ptt = FALSE]

reset_to_disc(s) == [s EXCEPT !.link = "DISC", !.caller = "OTHER"]

\* ardop_runtime_host: the link's handlers of the host commands.
Connect(s, who) ==
    IF s.link = "DISC"
    THEN start_tx(emit([s EXCEPT !.link = "CALLING", !.caller = who]))
    ELSE s
Disconnect(s) ==
    IF s.link = "DISC" THEN emit(s) ELSE start_tx(emit(s))
Abort(s) == emit(reset_to_disc([s EXCEPT !.tx_len = 0]))
SendId(s) == IF s.link = "DISC" THEN start_tx(s) ELSE s
SendData(s, n) == emit([s EXCEPT !.tx_len = @ + Least(n, room(s))])

ardop_runtime_host(s, op, who) ==
    CASE op = "CONNECT" -> Connect(s, who)
      [] op = "DISCONNECT" -> Disconnect(s)
      [] op = "ABORT" -> Abort(s)
      [] op = "SEND_ID" -> SendId(s)
      [] OTHER -> s

-----------------------------------------------------------------------------
(* Called by the modem thread's other parts *)

unkey(s) == [s EXCEPT !.ptt = @ /\ ~s.plat]

\* A device swap is refused while a frame is being sent.
app_set_platform(s, bound) ==
    IF s.tx_active
    THEN s
    ELSE publish_credit([unkey(s) EXCEPT !.plat = bound])

app_clear_fault(s) ==
    IF s.run = "FAULTED"
    THEN publish_credit([s EXCEPT !.run = "OK", !.overflow_reported = FALSE])
    ELSE s

\* The first fault wins; a session is told to disconnect, the line is forced
\* down and transmit data is refused from here on.
app_report_fault(s) ==
    IF s.run # "OK"
    THEN s
    ELSE LET hungUp == IF s.link # "DISC" THEN Disconnect(s) ELSE s
         IN  publish_credit([emit(unkey(hungUp)) EXCEPT !.run = "FAULTED"])

\* The spine closed without letting go of the line.
app_close_keyed(s) == [s EXCEPT !.run = "CLOSING"]

app_close(s) == [unkey(s) EXCEPT !.run = "CLOSING"]

-----------------------------------------------------------------------------
(* Applying downward records *)

\* Data carries the offset of its first byte in the stream offered.
DataRecord(n, start) ==
    [kind |-> "DATA", op |-> "NONE", n |-> n, start |-> start]
HostRecord(kind, op) == [kind |-> kind, op |-> op, n |-> 0, start |-> 0]

HostOps == {"CONNECT", "DISCONNECT", "ABORT", "SEND_ID"}
Records ==
    [kind : {"DATA", "HOST_CMD", "HOST_LINE", "CONFIG"},
     op : HostOps \cup {"NONE"}, n : Nat, start : Nat]

\* cmd_is_session, line_is_session: ABORT is the application's at any time.
is_session(op) == op \in {"CONNECT", "DISCONNECT", "SEND_ID"}

\* A command is refused, with a reply, while a guest owns the link, dropped
\* silently after a fault, and run otherwise; a line or a setting is replied to.
apply_host(s, r) ==
    IF s.owned /\ r.kind # "CONFIG" /\ is_session(r.op) THEN emit(s)
    ELSE IF s.run # "OK" THEN s
    ELSE LET done == ardop_runtime_host(s, r.op, "OTHER")
         IN  IF r.kind = "HOST_CMD" THEN done ELSE emit(done)

\* Data applied without a look at who owns the link.
apply_data_unowned(s, r) ==
    IF s.run # "OK"
    THEN s
    ELSE [SendData(s, r.n) EXCEPT !.tx_applied = @ + r.n]

\* What the link did not take is reported, and counted as applied all the same.
apply_data(s, r) ==
    IF s.owned \/ s.run # "OK"
    THEN s
    ELSE LET done == SendData(s, r.n)
             said == IF done.tx_len - s.tx_len # r.n THEN emit(done) ELSE done
         IN  [said EXCEPT !.tx_applied = @ + r.n]

apply(s, r) == IF r.kind = "DATA" THEN apply_data(s, r) ELSE apply_host(s, r)

\* The edge without the abort.
owner_edge_no_abort(s, now) ==
    IF now = s.owned THEN s ELSE emit([s EXCEPT !.owned = now])

\* The edge detector of app_step: a guest that leaves a call nobody has
\* answered takes the call with it.
owner_edge(s, now) ==
    IF now = s.owned
    THEN s
    ELSE LET left == ~now /\ s.link = "CALLING"
             t == [s EXCEPT !.owned = now]
         IN  emit(IF left THEN Abort(t) ELSE t)

-----------------------------------------------------------------------------
(* The submitter's side *)

\* A credit that forgets what is still in the command ring.
app_tx_credit_applied(s, offered) == Least(s.tx_limit - s.tx_applied, Chunk)

app_tx_credit(s, offered) ==
    IF s.tx_limit <= offered THEN 0 ELSE Least(s.tx_limit - offered, Chunk)

app_events_pop(s) ==
    [s EXCEPT !.events = Tail(@),
              !.told = @ \/ Head(s.events) = "OVERFLOW"]
=============================================================================
