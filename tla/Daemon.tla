------------------------------- MODULE Daemon -------------------------------
(***************************************************************************)
(* The ardopb daemon: main's loop (src/shell/main.c) around the driver     *)
(* loop (src/shell/loop.c) and the runtime (src/shell/runtime.c), with the *)
(* host's client, the display's mirror of the state, the transmitter, and  *)
(* what ends the program: a signal or a device that fails.                 *)
(*                                                                         *)
(* The link is reduced to what the runtime reads of it: disconnected,      *)
(* calling, in session or broadcasting, its mode, its bandwidth, its queue *)
(* and whether a repeat is armed; Link.tla has the rest.  A block of       *)
(* samples is a unit.                                                      *)
(***************************************************************************)
EXTENDS Naturals, Sequences

CONSTANTS DmnQueue,      \* tx_cap
          DmnBlocks,     \* blocks in a frame
          DmnRepeats,    \* fec_repeats
          DmnCommands,   \* bound: lines of the host's client
          DmnVisits,     \* bound: clients
          DmnSignal      \* dB and quality figures

ASSUME DmnAssumption ==
    /\ DmnQueue \in Nat \ {0} /\ DmnBlocks \in Nat \ {0} /\ DmnRepeats \in Nat
    /\ DmnCommands \in Nat /\ DmnVisits \in Nat

VARIABLES dmn,      \* the runtime, and the observers' side of it
          dmnPc,    \* where main's loop is
          dmnEnv    \* the signal, the faults, what the world may still do

dmnVars == <<dmn, dmnPc, dmnEnv>>

DmnStates == {"DISC", "CALL", "UP", "FEC"}
DmnModes == {"ARQ", "FEC", "RXO"}
DmnLine == {"ARQCALL", "DISCONNECT", "ABORT", "SENDID", "FECSEND", "MODE", "DATA", "BUFFER0"}

-----------------------------------------------------------------------------
(* The link, as the runtime sees it: each input has a set of outcomes      *)
(* [l |-> the link afterwards, sends |-> whether a frame is to be sent].   *)

DmnSame(l) == {[l |-> l, sends |-> FALSE]}
DmnSends(l) == {[l |-> l, sends |-> TRUE]}

\* reset_to_disc; the bandwidth of the session is left as it was.
DmnReset(l) == [l EXCEPT !.st = "DISC", !.armed = FALSE, !.reps = 0]

\* fec_send_next: the queue empties a frame at a time.
DmnFecNext(l) ==
    IF l.tx = 0 THEN DmnSame(DmnReset(l))
    ELSE DmnSends([l EXCEPT !.tx = @ - 1, !.reps = 0])

\* step_host.
DmnHost(l, c, mode) ==
    CASE c = "ARQCALL" ->
            IF l.st # "DISC" THEN DmnSame(l)
            ELSE DmnSends([l EXCEPT !.st = "CALL", !.armed = TRUE])
      [] c = "DISCONNECT" ->
            IF l.st = "DISC" THEN DmnSame(l) ELSE DmnSends([l EXCEPT !.armed = TRUE])
      [] c = "ABORT" -> DmnSame([DmnReset(l) EXCEPT !.tx = 0])
      [] c = "SENDID" -> IF l.st = "DISC" THEN DmnSends(l) ELSE DmnSame(l)
      [] c = "FECSEND" ->
            LET m == [l EXCEPT !.mode = "FEC"]
            IN  IF l.st = "DISC" THEN DmnFecNext([m EXCEPT !.st = "FEC"]) ELSE DmnSame(m)
      [] c = "MODE" -> DmnSame(IF l.st = "DISC" THEN [l EXCEPT !.mode = mode] ELSE l)
      [] c = "DATA" -> DmnSame(IF l.tx < DmnQueue THEN [l EXCEPT !.tx = @ + 1] ELSE l)

DmnMeets(l, b, r) == [l EXCEPT !.st = "UP", !.bw = b, !.armed = r]
DmnGoesOn(l, r, q) == [l EXCEPT !.armed = r, !.tx = q]

\* ARDOP_IN_RX: a session may begin, go on with an answer, or end.
DmnHears(l) ==
    DmnSame(l) \cup
    IF l.mode # "ARQ" \/ l.st = "FEC" THEN {}
    ELSE IF l.st \in {"DISC", "CALL"}
    THEN {[l |-> DmnMeets(l, b, r), sends |-> TRUE] : b \in {1, 2}, r \in BOOLEAN}
         \cup {[l |-> DmnReset(l), sends |-> FALSE]}
    ELSE {[l |-> DmnGoesOn(l, r, q), sends |-> s] :
             r \in BOOLEAN, q \in {x \in 0..l.tx : l.tx - x <= 1}, s \in BOOLEAN}
         \cup {[l |-> DmnReset(l), sends |-> s] : s \in BOOLEAN}

\* step_timer: a deadline ends the session, or a frame is repeated; the
\* closing ID is sent from DISC.
DmnTimer(l) ==
    DmnSame(l) \cup
    (IF l.armed THEN DmnSends(l) ELSE {}) \cup
    (IF l.st \in {"CALL", "UP"} THEN DmnSame(DmnReset(l)) ELSE {}) \cup
    (IF l.st = "UP" THEN DmnSends([l EXCEPT !.armed = TRUE]) ELSE {}) \cup
    (IF l.st = "DISC" /\ l.bw > 0 THEN DmnSends(l) ELSE {})

\* ARDOP_IN_TX_DONE, step_fec_tx_done.
DmnTxDone(l) ==
    IF l.st # "FEC" THEN DmnSame(l)
    ELSE IF l.reps < DmnRepeats THEN DmnSends([l EXCEPT !.reps = @ + 1])
    ELSE DmnFecNext(l)

-----------------------------------------------------------------------------
(* The runtime. *)

\* ardop_runtime_telemetry_status.
DmnTruth(d) ==
    [st |-> d.l.st, mode |-> d.l.mode, bw |-> d.l.bw, buffer |-> d.l.tx,
     busy |-> d.busy, ptt |-> d.ptt, sn |-> d.sn, quality |-> d.quality]

\* emit: the observers are told, and the mirror is refreshed.
DmnEmit(d) == [d EXCEPT !.mirror = DmnTruth(d)]

\* The line: a driver that refuses leaves it as it was, and latches a fault.
DmnSetPtt(d, key, ok) == [d EXCEPT !.line = IF ok THEN key ELSE @, !.refused = @ \/ ~ok]

DmnObservable(l) == <<l.st, l.mode, l.bw, l.tx>>

\* Mutant: the diffs without the queue's.
DmnDiffs_no_buffer(d) ==
    IF SubSeq(d.base, 1, 3) = SubSeq(DmnObservable(d.l), 1, 3) THEN d
    ELSE DmnEmit([d EXCEPT !.base = DmnObservable(d.l)])

\* emit_state_diffs: a change surfaces once, whatever caused it.
DmnDiffs(d) ==
    IF d.base = DmnObservable(d.l) THEN d
    ELSE DmnEmit([d EXCEPT !.base = DmnObservable(d.l)])

\* start_tx: whatever was being sent is replaced; the line is keyed once.
DmnStartTx(d, ok) ==
    LET sent == DmnEmit([d EXCEPT !.active = TRUE, !.left = DmnBlocks])
    IN  IF d.ptt THEN sent
        ELSE DmnEmit(DmnSetPtt([sent EXCEPT !.ptt = TRUE], TRUE, ok))

\* step_and_perform.
DmnPerform(d, o, ok) ==
    LET stepped == [d EXCEPT !.l = o.l]
    IN  DmnDiffs(IF o.sends THEN DmnStartTx(stepped, ok) ELSE stepped)

DmnSteps(d, outcomes, ok) == {DmnPerform(d, o, ok) : o \in outcomes}

\* feed_busy: the detector listens while the link is disconnected.
DmnFeedBusy(d, busy) ==
    IF d.l.st # "DISC" \/ busy = d.busy THEN d ELSE DmnEmit([d EXCEPT !.busy = busy])

\* ardop_runtime_rx: a leader is reported and is no input of the link; a frame
\* is, good or bad.
DmnRx(d, busy, ev, x, ok) ==
    LET fed == DmnFeedBusy(d, busy)
    IN  CASE ev = "silence" -> {fed}
          [] ev = "leader" -> {DmnEmit([fed EXCEPT !.sn = x])}
          [] ev = "good" ->
                LET told == DmnEmit([fed EXCEPT !.quality = x])
                IN  DmnSteps(told, DmnHears(told.l), ok)
          [] ev = "bad" ->
                LET told == DmnEmit(fed) IN DmnSteps(told, DmnHears(told.l), ok)

\* Mutant: the line is dropped at the end of every frame.
DmnPullTx_always_unkeys(d, ok) ==
    IF d.left > 0 THEN {[d EXCEPT !.left = @ - 1]}
    ELSE {DmnEmit(DmnSetPtt([e EXCEPT !.ptt = FALSE], FALSE, ok)) :
            e \in DmnSteps([d EXCEPT !.active = FALSE], DmnTxDone(d.l), ok)}

\* ardop_runtime_pull_tx: at the end of a frame the link may start the next
\* one, whose first block follows at once; the line is dropped if it does not.
DmnPullTx(d, ok) ==
    IF d.left > 0 THEN {[d EXCEPT !.left = @ - 1]}
    ELSE {IF e.active THEN [e EXCEPT !.left = @ - 1]
          ELSE DmnEmit(DmnSetPtt([e EXCEPT !.ptt = FALSE], FALSE, ok)) :
            e \in DmnSteps([d EXCEPT !.active = FALSE], DmnTxDone(d.l), ok)}

-----------------------------------------------------------------------------
(* main. *)

\* ardop_host_command on one line: BUFFER 0 empties the queue without a step.
DmnCommand(d, c, mode, ok) ==
    IF c = "BUFFER0" THEN {[d EXCEPT !.l.tx = 0]}
    ELSE {[e EXCEPT !.caller = IF c = "ARQCALL" /\ d.l.st = "DISC" THEN "unseen" ELSE @] :
            e \in DmnSteps(d, DmnHost(d.l, c, mode), ok)}

\* A client that leaves a call nobody has answered takes it with it.
DmnEdge(d, connected, ok) ==
    {[e EXCEPT !.was = connected,
               !.caller = IF connected /\ @ = "unseen" THEN "seen" ELSE @] :
        e \in IF d.was /\ ~connected /\ d.l.st = "CALL"
              THEN DmnSteps(d, DmnHost(d.l, "ABORT", "ARQ"), ok) ELSE {d}}

\* ardop_host_tcp_service and what main does after it.
DmnService(arrives, leaves, c, mode, ok) ==
    LET here == dmnEnv.client \/ arrives
        connected == here /\ ~leaves
    IN  /\ dmnPc = "poll" /\ ~dmnEnv.stop
        /\ arrives => ~dmnEnv.client /\ dmnEnv.visits > 0
        /\ leaves => here
        /\ c # "none" => here /\ dmnEnv.lines > 0
        /\ \E d \in IF c = "none" THEN {dmn} ELSE DmnCommand(dmn, c, mode, ok) :
              dmn' \in DmnEdge(d, connected, ok)
        /\ dmnEnv' = [dmnEnv EXCEPT !.client = connected,
                                    !.visits = IF arrives THEN @ - 1 ELSE @,
                                    !.lines = IF c # "none" THEN @ - 1 ELSE @]
        /\ dmnPc' = "block"

\* serve_tx.
DmnServeTx(ok) ==
    /\ dmnPc = "block" /\ dmn.active
    /\ \E d \in DmnPullTx(dmn, ok) : dmn' = [d EXCEPT !.heard = FALSE]
    /\ dmnPc' = "fault"
    /\ UNCHANGED dmnEnv

\* serve_rx: the block, if the device had one, then the timers.
DmnServeRx(n, busy, ev, x, ok) ==
    /\ dmnPc = "block" /\ ~dmn.active
    /\ \E d \in IF n = 0 THEN {dmn} ELSE DmnRx(dmn, busy, ev, x, ok) :
          \E e \in DmnSteps(d, DmnTimer(d.l), ok) : dmn' = [e EXCEPT !.heard = TRUE]
    /\ dmnPc' = "fault"
    /\ UNCHANGED dmnEnv

\* The faults are polled after every block: the session is hung up, the line
\* dropped, the host told, the loop left.
DmnFaultCheck(ok) ==
    /\ dmnPc = "fault"
    /\ IF dmnEnv.fault \/ dmn.refused
       THEN /\ \E d \in DmnSteps(dmn, DmnHost(dmn.l, "DISCONNECT", "ARQ"), ok) :
                  dmn' = DmnSetPtt(d, FALSE, ok)
            /\ dmnPc' = "closing"
       ELSE dmnPc' = "poll" /\ UNCHANGED dmn
    /\ UNCHANGED dmnEnv

\* The loop's condition.
DmnStopped ==
    /\ dmnPc = "poll" /\ dmnEnv.stop
    /\ dmnPc' = "closing"
    /\ UNCHANGED <<dmn, dmnEnv>>

\* The end of main: servers, files, the backend unless it failed, and the
\* line last.  A line whose driver refused is not tried again.
DmnClose(ok) ==
    /\ dmnPc = "closing"
    /\ dmn' = IF dmn.line /\ ~dmn.refused THEN DmnSetPtt(dmn, FALSE, ok) ELSE dmn
    /\ dmnPc' = "over"
    /\ dmnEnv' = [dmnEnv EXCEPT !.client = FALSE]

\* ardop_request_stop, at any time.
DmnSignals ==
    /\ dmnPc # "over" /\ ~dmnEnv.stop
    /\ dmnEnv' = [dmnEnv EXCEPT !.stop = TRUE]
    /\ UNCHANGED <<dmn, dmnPc>>

\* The device stops answering, or is gone.
DmnDeviceFails ==
    /\ dmnPc # "over" /\ ~dmnEnv.fault
    /\ dmnEnv' = [dmnEnv EXCEPT !.fault = TRUE]
    /\ UNCHANGED <<dmn, dmnPc>>

-----------------------------------------------------------------------------

\* ardop_runtime_init and main's set-up.
DmnStart ==
    LET l == [st |-> "DISC", mode |-> "ARQ", bw |-> 0, tx |-> 0, armed |-> FALSE, reps |-> 0]
        d == [l |-> l, base |-> DmnObservable(l), active |-> FALSE, left |-> 0, ptt |-> FALSE,
              line |-> FALSE, refused |-> FALSE, busy |-> FALSE, sn |-> 0, quality |-> 0,
              heard |-> FALSE, was |-> FALSE, caller |-> "none",
              mirror |-> [st |-> "DISC", mode |-> "ARQ", bw |-> 0, buffer |-> 0,
                          busy |-> FALSE, ptt |-> FALSE, sn |-> 0, quality |-> 0]]
    IN  d

DmnInit ==
    /\ \E id \in BOOLEAN :     \* --id
          dmn \in IF id THEN DmnSteps(DmnStart, DmnHost(DmnStart.l, "SENDID", "ARQ"), TRUE)
                  ELSE {DmnStart}
    /\ dmnPc = "poll"
    /\ dmnEnv = [stop |-> FALSE, fault |-> FALSE, client |-> FALSE, visits |-> DmnVisits,
                 lines |-> DmnCommands]

\* A daemon that is not there.
DmnOff ==
    /\ dmn = DmnStart
    /\ dmnPc = "over"
    /\ dmnEnv = [stop |-> FALSE, fault |-> FALSE, client |-> FALSE, visits |-> 0, lines |-> 0]

DmnNext ==
    \/ \E arrives, leaves, ok \in BOOLEAN, c \in DmnLine \cup {"none"}, mode \in DmnModes :
          DmnService(arrives, leaves, c, mode, ok)
    \/ \E ok \in BOOLEAN : DmnServeTx(ok)
    \/ \E n \in {0, 1}, busy, ok \in BOOLEAN, ev \in {"silence", "leader", "good", "bad"},
          x \in DmnSignal : DmnServeRx(n, busy, ev, x, ok)
    \/ \E ok \in BOOLEAN : DmnFaultCheck(ok)
    \/ DmnStopped
    \/ \E ok \in BOOLEAN : DmnClose(ok)
    \/ DmnSignals
    \/ DmnDeviceFails

\* The loop turns until the program ends: every place in it has a way on.
DmnFairness ==
    WF_dmnPc(dmnPc # "over" /\ dmnPc' \in {"poll", "block", "fault", "closing", "over"})

-----------------------------------------------------------------------------
(* Properties. *)

\* Between two blocks the transmitter is on the air exactly while a frame is
\* being sent, through frames that follow each other, frames that replace one
\* another and aborted sessions, unless the line's driver refused.
DmnCarrier == (dmnPc = "poll" /\ ~dmn.refused) => dmn.line = dmn.active

\* The program never ends with the transmitter on, whatever ended it and in
\* whichever state: the one exception is a driver that would not obey.
DmnSilentAtEnd == (dmnPc = "over" /\ ~dmn.refused) => ~dmn.line

\* After every block that was listened to the display shows what the modem is,
\* also when a command changed it without a step of the link.
DmnMirrorTrue == (dmnPc = "fault" /\ dmn.heard) => dmn.mirror = DmnTruth(dmn)

\* A call does not outlive the client that placed it, once the loop had seen
\* that client (main.c: "dropping the TNC connection is the only cancellation").
DmnNoOrphanCall ==
    (dmnPc = "block" /\ ~dmnEnv.client /\ dmn.l.st = "CALL") => dmn.caller # "seen"

\* A broadcast comes to an end, whatever the hosts ask for meanwhile.
DmnBroadcastEnds == dmn.l.st = "FEC" ~> (dmn.l.st # "FEC" \/ dmnPc = "over")

\* The carrier is on while a frame is sent and never else, also at the end.
DmnKeysRight == DmnCarrier /\ DmnSilentAtEnd

\* Nothing a client does leaves the rest of the program with an old picture:
\* neither the display, when a command bypassed the link, nor the link, when
\* the client that placed a call is gone.
DmnSeesClients == DmnMirrorTrue /\ DmnNoOrphanCall
=============================================================================
