------------------------------ MODULE HostTcp ------------------------------
(***************************************************************************)
(* The two-channel TCP server a host program attaches to                   *)
(* (src/shell/host_tcp.c) and the clients at the other end of its sockets. *)
(*                                                                         *)
(* What travels on a channel is cut into units: a command line is two      *)
(* units, the second ends with the CR; a data frame is a length and then   *)
(* its payload, m.len units altogether.  A socket holds what one side has  *)
(* written and the other has not read, `up` towards the server and `down`  *)
(* towards the client, which takes at most TcpSock units.  Clients act     *)
(* between the two halves of ardop_host_tcp_service as well as between two *)
(* calls of it.                                                            *)
(***************************************************************************)
EXTENDS Naturals, Sequences, FiniteSets, FiniteSetsExt, SequencesExt

CONSTANTS
    TcpScenarios,   \* records: which channels are used, how often, see MCApps
    TcpSock,        \* units a socket towards a client holds
    TcpOut,         \* CMD_OUT_MAX and DATA_OUT_MAX
    TcpBuf          \* DATA_BUF_MAX and LINE_MAX

ASSUME TcpAssumption == /\ TcpSock \in Nat \ {0}
                        /\ TcpOut \in Nat \ {0, 1}
                        /\ TcpBuf \in Nat \ {0, 1}
                        /\ \A s \in TcpScenarios :
                              s \in [channels : SUBSET {"cmd", "data"},
                                    clients : SUBSET {"c1", "c2"}, told : Nat,
                                    writes : Nat, leaves : Nat, len : Nat \ {0}]

VARIABLES tcp,        \* tcp[ch]: one channel and its clients
          tcpTurn,    \* the half of the service call that comes next
          tcpOwed,    \* data messages in the socket when the call began
          tcpLeft     \* what the scenario still allows

tcpVars == <<tcp, tcpTurn, tcpOwed, tcpLeft>>

TcpChannels == {"cmd", "data"}
TcpClients == {"c1", "c2"}

TcpMsg(from, n, len) == [from |-> from, n |-> n, len |-> len]
TcpUnits(m) == [i \in 1..m.len |-> [m |-> m, i |-> i]]
TcpWhole(us) == us # <<>> /\ us = TcpUnits(us[1].m)

-----------------------------------------------------------------------------
(* Outbound: a queue in front of the socket. *)

\* ardop_net_send: what the socket towards the client takes.
TcpFlush(k) ==
    LET s == k.cli[k.fd]
        n == Min({Len(k.out), TcpSock - Len(s.down)})
    IN  [k EXCEPT !.out = SubSeq(@, n + 1, Len(@)),
                  !.cli[k.fd].down = @ \o SubSeq(k.out, 1, n)]

TcpDrop(k) ==
    IF k.fd = "none" THEN k
    ELSE [k EXCEPT !.fd = "none", !.cli[k.fd].st = "dropped"]

\* A client dropped by a full queue or a failed send: an unfinished line or
\* frame of its own stays behind, and the rest of what was read of it follows.
TcpDropUnsent(k) == [TcpDrop(k) EXCEPT !.out = <<>>, !.stale = TRUE]

\* emit_cmd, and the tail of ardop_host_tcp_send_data.
TcpEmit(k, m, fails) ==
    IF k.fd = "none" THEN k
    ELSE LET t == [k EXCEPT !.cli[k.fd].owed = @ \o TcpUnits(m)]
         IN  IF m.len > TcpOut - Len(k.out) THEN TcpDropUnsent(t)
             ELSE LET q == [t EXCEPT !.out = @ \o TcpUnits(m)]
                  IN  IF fails THEN TcpDropUnsent(q) ELSE TcpFlush(q)

-----------------------------------------------------------------------------
(* Accepting. *)

TcpPending(k) == {c \in TcpClients : k.cli[c].st = "pending"}

\* One client a call: the second to come is refused.
TcpAccept(k, c) ==
    IF k.fd = "none" THEN [k EXCEPT !.fd = c, !.cli[c].st = "open"]
                     ELSE [k EXCEPT !.cli[c].st = "refused"]

TcpAccepts(k) ==
    IF TcpPending(k) = {} THEN {k} ELSE {TcpAccept(k, c) : c \in TcpPending(k)}

\* ardop_net_recv reports the end of the stream once everything was read.
TcpEnded(k) == k.cli[k.fd].up = <<>> /\ k.cli[k.fd].closed

\* A send to a client that has gone may fail.
TcpMayFail(k) == IF k.fd # "none" /\ k.cli[k.fd].closed THEN BOOLEAN ELSE {FALSE}

\* Mutant: what a client left unfinished awaits the next.
TcpHangUp_keeps_in(k) == [TcpDrop(k) EXCEPT !.out = <<>>]

TcpHangUp(k) == [TcpDrop(k) EXCEPT !.in = <<>>, !.out = <<>>]

-----------------------------------------------------------------------------
(* The command channel. *)

\* process_line: the line is run and answered; the answer is one message.
TcpProcessLine(k, fails) ==
    TcpEmit([k EXCEPT !.did = Append(@, k.in), !.in = <<>>],
            TcpMsg("tnc", Len(k.did) + 1, 2), fails)

\* One character of what was read; the rest of a line that is too long is
\* left out.  The loop goes on when the client was dropped half way.
TcpChar(k, u, fails) ==
    LET t == IF Len(k.in) < TcpBuf THEN [k EXCEPT !.in = Append(@, u)] ELSE k
    IN  IF u.i = u.m.len THEN TcpProcessLine(t, fails) ELSE t

TcpServiceCmd(k, fails) ==
    IF k.fd = "none" THEN k
    ELSE IF TcpEnded(k) THEN TcpHangUp(k)
    ELSE LET got == k.cli[k.fd].up
             after[i \in 0..Len(got)] ==
                IF i = 0 THEN [k EXCEPT !.cli[k.fd].up = <<>>]
                         ELSE TcpChar(after[i - 1], got[i], fails)
             t == after[Len(got)]
         IN  IF t.fd = "none" THEN t
             ELSE IF fails THEN TcpDropUnsent(t) ELSE TcpFlush(t)

-----------------------------------------------------------------------------
(* The data channel. *)

\* A unit that does not start a frame is read as a length all the same.
TcpFrameLen(u) == IF u.i = 1 THEN u.m.len ELSE 2

\* ardop_host_data_parse, and SEND_DATA for the first frame that is whole.
TcpParseOne(k) ==
    IF k.in = <<>> \/ Len(k.in) < TcpFrameLen(k.in[1]) THEN k
    ELSE LET n == TcpFrameLen(k.in[1])
         IN  [k EXCEPT !.did = Append(@, SubSeq(k.in, 1, n)),
                       !.in = SubSeq(@, n + 1, Len(@))]

\* A frame larger than the buffer can never complete: the buffer is emptied.
TcpResync(k) == IF Len(k.in) >= TcpBuf THEN [k EXCEPT !.in = <<>>] ELSE k

TcpServiceData(k, fails) ==
    IF k.fd = "none" THEN k
    ELSE IF Len(k.in) < TcpBuf /\ TcpEnded(k) THEN TcpHangUp(k)
    ELSE LET up == k.cli[k.fd].up
             n == Min({Len(up), TcpBuf - Len(k.in)})
             read == [k EXCEPT !.in = @ \o SubSeq(up, 1, n),
                               !.cli[k.fd].up = SubSeq(@, n + 1, Len(@))]
             parsed[i \in 0..TcpBuf] == IF i = 0 THEN read
                                        ELSE TcpParseOne(parsed[i - 1])
             t == TcpResync(parsed[TcpBuf])
         IN  IF fails THEN TcpDropUnsent(t) ELSE TcpFlush(t)

-----------------------------------------------------------------------------
(* The steps. *)

TcpClient == [st |-> "away", up |-> <<>>, down |-> <<>>, saw |-> <<>>,
              owed |-> <<>>, wrote |-> 0, half |-> 0, closed |-> FALSE]

\* ardop_host_tcp_open: two listeners and nobody attached.
TcpChannel == [fd |-> "none", in |-> <<>>, out |-> <<>>, did |-> <<>>,
               stale |-> FALSE, cli |-> [c \in TcpClients |-> TcpClient]]

TcpInit ==
    /\ tcpLeft \in TcpScenarios
    /\ tcp = [ch \in TcpChannels |-> TcpChannel]
    /\ tcpTurn = "data"
    /\ tcpOwed = {}

TcpSpend(what) == /\ tcpLeft[what] > 0
                  /\ tcpLeft' = [tcpLeft EXCEPT ![what] = @ - 1]

\* What the client has written whole and nobody has read yet, as far as one
\* read of the buffer reaches.
TcpWaiting(k) ==
    IF k.fd = "none" THEN {}
    ELSE LET all == k.in \o k.cli[k.fd].up
             us == SubSeq(all, 1, Min({Len(all), TcpBuf}))
         IN  {us[i].m : i \in {j \in DOMAIN us : us[j].i = us[j].m.len}}

\* Mutant: commands before data.
TcpOrder_commands_first == [first |-> "cmd", last |-> "data"]

\* ardop_host_tcp_service: data before commands.
TcpOrder == [first |-> "data", last |-> "cmd"]

TcpAfter(ch) == IF ch = TcpOrder.first THEN TcpOrder.last ELSE TcpOrder.first

TcpService(ch) ==
    /\ tcpTurn = ch
    /\ \E k \in TcpAccepts(tcp[ch]) : \E fails \in TcpMayFail(k) :
         tcp' = [tcp EXCEPT ![ch] = IF ch = "data" THEN TcpServiceData(k, fails)
                                                   ELSE TcpServiceCmd(k, fails)]
    /\ tcpTurn' = TcpAfter(ch)
    /\ tcpOwed' = IF ch = TcpOrder.first THEN TcpWaiting(tcp["data"]) ELSE {}
    /\ UNCHANGED tcpLeft

\* The modem tells the host something, or hands over what it received.  Not
\* while a service call is running.
TcpTell(ch) ==
    /\ tcpTurn = TcpOrder.first
    /\ tcp[ch].fd # "none"
    /\ TcpSpend("told")
    /\ \E fails \in TcpMayFail(tcp[ch]) :
         tcp' = [tcp EXCEPT ![ch] =
                    TcpEmit(@, TcpMsg("modem", tcpLeft.told, 2), fails)]
    /\ UNCHANGED <<tcpTurn, tcpOwed>>

TcpDial(c, ch) ==
    /\ ch \in tcpLeft.channels
    /\ c \in tcpLeft.clients
    /\ tcp[ch].cli[c].st = "away"
    /\ tcp' = [tcp EXCEPT ![ch].cli[c].st = "pending"]
    /\ UNCHANGED <<tcpTurn, tcpOwed, tcpLeft>>

TcpAlive(s) == s.st \in {"pending", "open"} /\ ~s.closed

\* hc_cmd and hc_send_data: one unit; a write may be cut anywhere.
TcpWrite(c, ch) ==
    LET s == tcp[ch].cli[c]
        len == IF ch = "data" /\ s.wrote = 0 THEN tcpLeft.len ELSE 2
        m == TcpMsg(c, s.wrote + 1, len)
        last == s.half + 1 = len
    IN  /\ TcpAlive(s)
        /\ s.half > 0 \/ tcpLeft.writes > 0
        /\ IF s.half = 0 THEN TcpSpend("writes") ELSE UNCHANGED tcpLeft
        /\ tcp' = [tcp EXCEPT ![ch].cli[c] =
                     [s EXCEPT !.up = Append(@, TcpUnits(m)[s.half + 1]),
                               !.half = IF last THEN 0 ELSE @ + 1,
                               !.wrote = IF last THEN @ + 1 ELSE @]]
        /\ UNCHANGED <<tcpTurn, tcpOwed>>

TcpRead(c, ch) ==
    LET s == tcp[ch].cli[c]
    IN  /\ s.down # <<>>
        /\ ~s.closed
        /\ tcp' = [tcp EXCEPT ![ch].cli[c] =
                     [s EXCEPT !.saw = @ \o s.down, !.down = <<>>]]
        /\ UNCHANGED <<tcpTurn, tcpOwed, tcpLeft>>

\* The client goes: in order, or reset with what it wrote undelivered.
TcpLeave(c, ch, reset) ==
    LET s == tcp[ch].cli[c]
    IN  /\ TcpAlive(s)
        /\ TcpSpend("leaves")
        /\ tcp' = [tcp EXCEPT ![ch].cli[c] =
                     [s EXCEPT !.closed = TRUE, !.up = IF reset THEN <<>> ELSE @]]
        /\ UNCHANGED <<tcpTurn, tcpOwed>>

TcpNext ==
    \E ch \in TcpChannels :
        \/ TcpService(ch)
        \/ TcpTell(ch)
        \/ \E c \in TcpClients : 
            \/ TcpDial(c, ch)
            \/ TcpWrite(c, ch)
            \/ TcpRead(c, ch)
            \/ \E reset \in BOOLEAN : TcpLeave(c, ch, reset)

\* The main loop and the modem thread call the service on every turn, and it
\* can always run: only TcpService passes the turn.
TcpFairness ==
    WF_tcpTurn(tcpTurn \in TcpChannels /\ tcpTurn' = TcpAfter(tcpTurn))

-----------------------------------------------------------------------------
(* Properties. *)

\* What a client reads is what was meant for it and nothing else: from the
\* first unit after it was accepted, without a gap, and nothing queued for a
\* client that went.  While it stays attached the rest is in the queue.
TcpStreamsWhole ==
    \A ch \in TcpChannels : \A c \in TcpClients :
        LET s == tcp[ch].cli[c]
            seen == s.saw \o s.down
        IN  IF tcp[ch].fd = c THEN seen \o tcp[ch].out = s.owed
                              ELSE IsPrefix(seen, s.owed)

\* A line that is run and a frame that is queued for transmission was written
\* by one client, whole: nothing one client left unfinished is joined to what
\* the next one writes.  Two cases are known not to keep this and are left
\* out: a client dropped by a failed send (its unfinished line or frame stays),
\* and a frame that does not fit the buffer.
TcpRunsWhole ==
    \A ch \in TcpChannels :
        (~tcp[ch].stale /\ (ch = "data" => tcpLeft.len <= TcpBuf)) =>
            \A i \in DOMAIN tcp[ch].did : TcpWhole(tcp[ch].did[i])

\* Each client has the channel to itself, in both directions.
TcpChannelsWhole == TcpStreamsWhole /\ TcpRunsWhole

TcpOwedNow == IF tcpTurn = TcpOrder.first THEN TcpWaiting(tcp["data"]) ELSE tcpOwed

\* A command that is run finds, queued for transmission, all the data its host
\* had written when the service call began, up to what the buffer holds.
TcpDataFirst ==
    [][(tcp'["cmd"].did # tcp["cmd"].did /\ tcpLeft.len <= TcpBuf /\ ~tcp["data"].stale) =>
         \A m \in TcpOwedNow : \E i \in DOMAIN tcp'["data"].did :
            tcp'["data"].did[i] = TcpUnits(m)]_tcpVars

\* No channel wedges: what an attached client writes is read, even behind a
\* frame too large for the buffer, and a client that has gone is let go.
TcpDrains ==
    \A ch \in TcpChannels :
        (\E c \in TcpClients :
            /\ tcp[ch].fd = c
            /\ tcp[ch].cli[c].up # <<>> \/ tcp[ch].cli[c].closed)
        ~> (tcp[ch].fd = "none" \/ tcp[ch].cli[tcp[ch].fd].up = <<>>)
=============================================================================
