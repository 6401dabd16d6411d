------------------------------- MODULE Station ------------------------------
(***************************************************************************)
(* A station: the modem thread (app/ui/modemthread.cpp) with its spine,    *)
(* its device manager (app/devices.c) and its TNC server, and the threads  *)
(* that feed it.                                                           *)
(*                                                                         *)
(* The modem thread goes round: serviceHost, app_devices_service (draining *)
(* the requests, then applying what they ask for), app_step (draining the  *)
(* commands one by one, serving the guest, one loop step, publishing the   *)
(* credit).  Between any two of these steps the application may submit,    *)
(* read events and ask for devices.  Its app_tx_submit is two steps: the   *)
(* limit is read, and the record is written later.                         *)
(***************************************************************************)
EXTENDS Spine

CONSTANTS
    MaxOffered,  \* bound: units the application offers in all
    Lengths,     \* units of one app_tx_submit, or of one guest message
    AppOps,      \* host commands the application submits
    GuestOps,    \* host commands a guest sends
    Server,      \* what serviceHost may be asked for: {"START", "STOP"}
    Requests,    \* device requests: {"OPEN", "CLOSE", "PTT_TEST"}
    ReqCap,      \* records the request ring holds
    Faults       \* a device may fail

ASSUME StationAssumption ==
    /\ MaxOffered \in Nat /\ Lengths \subseteq Nat \ {0}
    /\ AppOps \subseteq HostOps /\ GuestOps \subseteq HostOps
    /\ Requests \subseteq {"OPEN", "CLOSE", "PTT_TEST"}
    /\ ReqCap \in Nat \ {0} /\ Faults \in BOOLEAN

VARIABLES
    at,       \* where the modem thread is in its round
    sp,       \* the app_spine struct
    guest,    \* a client is connected (ardop_host_tcp_client_connected)
    dev,      \* state of the device manager
    reqq,     \* ring of device requests
    want,     \* what app_devices_service read from it: [op, test]
    cmdq,     \* ring of commands
    offered,  \* tx_offered
    take      \* what app_tx_submit will take, between its two steps; or 0

threads == <<cmdq, offered, take>>
devices == <<dev, reqq, want>>
vars == <<at, sp, guest, dev, reqq, want, cmdq, offered, take>>

NoWant == [op |-> "NONE", test |-> FALSE]

Init ==
    /\ at = "HOST"
    /\ sp = NewSpine
    /\ guest = FALSE
    /\ dev = "CLOSED"
    /\ reqq = <<>> /\ want = NoWant
    /\ cmdq = <<>> /\ offered = 0 /\ take = 0

\* A notification that cannot be sent drops the guest (emit_cmd).
GuestMayDrop == guest' \in {guest, FALSE}

-----------------------------------------------------------------------------
(* The application's thread *)

\* app_tx_submit, up to the admission.
ReadCredit(len) ==
    /\ at # "CLOSED" /\ take = 0
    /\ take' = Least(app_tx_credit(sp, offered), len)
    /\ offered + take' <= MaxOffered
    /\ UNCHANGED <<at, sp, guest, devices, cmdq, offered>>

\* The rest of it: the bytes count as offered only if the ring took them.
Submit ==
    /\ at # "CLOSED" /\ take > 0
    /\ \/ /\ Len(cmdq) < CmdCap
          /\ cmdq' = Append(cmdq, DataRecord(take, offered))
          /\ offered' = offered + take
       \/ Len(cmdq) >= CmdCap /\ UNCHANGED <<cmdq, offered>>
    /\ take' = 0
    /\ UNCHANGED <<at, sp, guest, devices>>

\* app_submit_cmd, app_submit_line, app_submit_config.
SubmitRecord(r) ==
    /\ at # "CLOSED"
    /\ Len(cmdq) < CmdCap
    /\ cmdq' = Append(cmdq, r)
    /\ UNCHANGED <<at, sp, guest, devices, offered, take>>

PopEvent ==
    /\ at # "CLOSED" /\ sp.events # <<>>
    /\ sp' = app_events_pop(sp)
    /\ UNCHANGED <<at, guest, devices, threads>>

\* app_devices_request, _request_close, _request_ptt_test.
Request(op) ==
    /\ at # "CLOSED"
    /\ Len(reqq) < ReqCap
    /\ reqq' = Append(reqq, op)
    /\ UNCHANGED <<at, sp, guest, dev, want, threads>>

-----------------------------------------------------------------------------
(* The modem thread *)

\* serviceHost: the transport is bound or cannot listen; it is unbound with its
\* client dropped; or both, when the port changes.
HostStarted(s) == {[s EXCEPT !.tnc = TRUE], emit(s)}
HostStopped(s) == IF s.tnc THEN emit([s EXCEPT !.tnc = FALSE]) ELSE s

ServeHost ==
    /\ at = "HOST"
    /\ at' = "DEVICES"
    /\ \/ UNCHANGED <<sp, guest>>
       \/ /\ "START" \in Server /\ ~sp.tnc
          /\ sp' \in HostStarted(sp)
          /\ UNCHANGED guest
       \/ /\ "STOP" \in Server /\ sp.tnc
          /\ sp' = HostStopped(sp)
          /\ guest' = FALSE
       \/ /\ {"START", "STOP"} \subseteq Server /\ sp.tnc
          /\ sp' \in HostStarted(HostStopped(sp))
          /\ guest' = FALSE
    /\ UNCHANGED <<devices, threads>>

\* The last of OPEN and CLOSE wins; a PTT test is remembered beside them.
IsLast(q, op) ==
    \/ op = "NONE" /\ \A i \in 1..Len(q) : q[i] = "PTT_TEST"
    \/ \E i \in 1..Len(q) :
            /\ op = q[i] /\ op # "PTT_TEST"
            /\ \A j \in (i + 1)..Len(q) : q[j] = "PTT_TEST"

DrainRequests ==
    /\ at = "DEVICES"
    /\ at' = "APPLY"
    /\ \E op \in {"NONE", "OPEN", "CLOSE"} :
          /\ IsLast(reqq, op)
          /\ want' = [op |-> op,
                      test |-> \E i \in 1..Len(reqq) : reqq[i] = "PTT_TEST"]
    /\ reqq' = <<>>
    /\ UNCHANGED <<sp, guest, dev, threads>>

\* While a frame is being sent the request goes back, behind any newer one.
HoldRequest ==
    /\ want.op # "NONE" /\ sp.tx_active
    /\ reqq' = IF Len(reqq) < ReqCap THEN Append(reqq, want.op) ELSE reqq
    /\ UNCHANGED <<sp, dev>>

teardown(s) == app_set_platform(s, FALSE)

CloseDevices ==
    /\ want.op = "CLOSE" /\ ~sp.tx_active
    /\ sp' = emit(teardown(sp))
    /\ dev' = "CLOSED"
    /\ UNCHANGED reqq

\* apply_open: opening the new device may fail, after the old one is closed.
OpenDevices ==
    /\ want.op = "OPEN" /\ ~sp.tx_active
    /\ \/ /\ sp' = emit(teardown(sp))
          /\ dev' = "FAILED"
       \/ /\ sp' = emit(app_clear_fault(app_set_platform(teardown(sp), TRUE)))
          /\ dev' = "RUNNING"
    /\ UNCHANGED reqq

ApplyRequest ==
    /\ at = "APPLY"
    /\ at' = "TEST"
    /\ \/ want.op = "NONE" /\ UNCHANGED <<sp, dev, reqq>>
       \/ HoldRequest
       \/ CloseDevices
       \/ OpenDevices
    /\ want' = [want EXCEPT !.op = "NONE"]
    /\ UNCHANGED <<guest, threads>>

\* Refused without a device and during a session; else keyed, and unkeyed.
PttTest ==
    /\ at = "TEST"
    /\ at' = "FAULTS"
    /\ sp' = IF ~want.test THEN sp
             ELSE IF dev # "RUNNING" \/ sp.link # "DISC" THEN emit(sp)
             ELSE emit([sp EXCEPT !.ptt = FALSE])
    /\ want' = NoWant
    /\ UNCHANGED <<guest, dev, reqq, threads>>

\* Both fault latches are polled while the devices run.
PollFaults ==
    /\ at = "FAULTS"
    /\ at' = "DRAIN"
    /\ \/ UNCHANGED <<sp, guest, dev>>
       \/ /\ Faults /\ dev = "RUNNING"
          /\ dev' = "FAULTED"
          /\ sp' = app_report_fault(sp)
          /\ GuestMayDrop
    /\ UNCHANGED <<reqq, want, threads>>

\* app_step: every command in the ring, one by one.
ApplyCommand ==
    /\ at = "DRAIN" /\ cmdq # <<>>
    /\ sp' = apply(sp, Head(cmdq))
    /\ cmdq' = Tail(cmdq)
    /\ GuestMayDrop
    /\ UNCHANGED <<at, devices, offered, take>>

Drained ==
    /\ at = "DRAIN" /\ cmdq = <<>>
    /\ at' = IF sp.tnc THEN "TNC" ELSE "LOOP"
    /\ UNCHANGED <<sp, guest, devices, threads>>

(***************************************************************************)
(* tnc->service and the edge detector.  A client may be accepted; what it  *)
(* sends goes to the runtime, data before commands; a client that was      *)
(* there before may be found closed, or fail to take a reply.  (One that   *)
(* was accepted in this call could only fail if its connection were reset  *)
(* between the call's own recv and send; that is left out.)                *)
(***************************************************************************)
GuestSends(s) ==
    {s} \cup {emit(SendData(s, n)) : n \in Lengths}
        \cup {emit(ardop_runtime_host(s, op, "GUEST")) : op \in GuestOps}

ServeGuest ==
    /\ at = "TNC"
    /\ at' = "LOOP"
    /\ \/ /\ ~guest /\ guest' = FALSE
          /\ sp' = owner_edge(sp, FALSE)
       \/ /\ guest' = TRUE
          /\ \E s \in GuestSends(IF guest THEN sp ELSE emit(sp)) :
                sp' = owner_edge(s, TRUE)
       \/ /\ guest /\ guest' = FALSE
          /\ \E s \in GuestSends(sp) : sp' = owner_edge(emit(s), FALSE)
    /\ UNCHANGED <<devices, threads>>

\* serve_tx: more samples, or the end of the frame.
FrameGoesOn ==
    /\ at = "LOOP" /\ sp.plat /\ sp.tx_active
    /\ at' = "PUBLISH"
    /\ UNCHANGED <<sp, guest, devices, threads>>

FrameEnds ==
    /\ at = "LOOP" /\ sp.plat /\ sp.tx_active
    /\ at' = "PUBLISH"
    /\ sp' = end_tx(sp)
    /\ UNCHANGED <<guest, devices, threads>>

\* serve_rx: what a block of samples and the timers may make the link do.
LinkMoves(s) ==
    {s} \cup
    (IF s.link = "DISC"
     THEN {start_tx(s),                                    \* closing ID, PingAck
           start_tx(emit([s EXCEPT !.link = "SESSION"]))}  \* called
     ELSE {start_tx(s),                                    \* frame or repeat
           emit(reset_to_disc(s)),                         \* timeout, END
           start_tx(emit(reset_to_disc(s)))}) \cup         \* DISC answered
    (IF s.link = "CALLING"
     THEN {start_tx(emit([s EXCEPT !.link = "SESSION"]))}  \* ConAck
     ELSE {}) \cup
    (IF s.link = "SESSION"
     THEN {start_tx(emit(s))} \cup                         \* data received
          {start_tx(emit([s EXCEPT !.tx_len = n])) : n \in 0..(s.tx_len - 1)}
     ELSE {})

Receive ==
    /\ at = "LOOP" /\ sp.plat /\ ~sp.tx_active
    /\ at' = "PUBLISH"
    /\ sp' \in LinkMoves(sp)
    /\ GuestMayDrop
    /\ UNCHANGED <<devices, threads>>

\* Without a device the loop does not run.
NoDevice ==
    /\ at = "LOOP" /\ ~sp.plat
    /\ at' = "PUBLISH"
    /\ UNCHANGED <<sp, guest, devices, threads>>

Publish ==
    /\ at = "PUBLISH"
    /\ at' = "HOST"
    /\ sp' = publish_credit(Congestion(sp))
    /\ UNCHANGED <<guest, devices, threads>>

\* m_stop: the transport is closed, then the spine, then the devices.
Quit ==
    /\ at = "HOST"
    /\ at' = "CLOSED"
    /\ sp' = app_close(HostStopped(sp))
    /\ guest' = FALSE
    /\ dev' = "CLOSED"
    /\ UNCHANGED <<reqq, want, threads>>

-----------------------------------------------------------------------------
Application ==
    \/ \E len \in Lengths : ReadCredit(len)
    \/ Submit
    \/ \E op \in AppOps, kind \in {"HOST_CMD", "HOST_LINE"} :
            SubmitRecord(HostRecord(kind, op))
    \/ SubmitRecord(HostRecord("CONFIG", "NONE"))
    \/ PopEvent
    \/ \E op \in Requests : Request(op)

ModemThread ==
    \/ ServeHost \/ DrainRequests \/ ApplyRequest \/ PttTest \/ PollFaults
    \/ ApplyCommand \/ Drained \/ ServeGuest
    \/ FrameGoesOn \/ FrameEnds \/ Receive \/ NoDevice
    \/ Publish

Next == Application \/ ModemThread \/ Quit

Spec == Init /\ [][Next]_vars

\* The modem thread keeps running, a frame has finitely many samples, and the
\* application does not refill the command ring for ever while it is drained.
FairSpec ==
    Spec /\ WF_vars(ModemThread) /\ SF_vars(FrameEnds) /\ SF_vars(Drained)

-----------------------------------------------------------------------------
(* Properties *)

Phases == {"HOST", "DEVICES", "APPLY", "TEST", "FAULTS", "DRAIN", "TNC",
           "LOOP", "PUBLISH", "CLOSED"}

TypeOK ==
    /\ at \in Phases
    /\ sp \in Spines /\ Len(sp.events) <= EventCap
    /\ guest \in BOOLEAN
    /\ dev \in {"CLOSED", "FAILED", "RUNNING", "FAULTED"}
    /\ reqq \in Seq(Requests)
    /\ want \in [op : (Requests \ {"PTT_TEST"}) \cup {"NONE"}, test : BOOLEAN]
    /\ cmdq \in Seq(Records)
    /\ offered \in Nat /\ take \in Nat

\* "The credit makes that unreachable" (apply, CMD_SEND_DATA): data about to be
\* applied always fits in the link's queue, whatever was submitted since the
\* credit was published and however long app_tx_submit took.
NoTruncation ==
    (at = "DRAIN" /\ cmdq # <<>> /\ Head(cmdq).kind = "DATA" /\ sp.run = "OK")
        => Head(cmdq).n <= room(sp)

\* "What is never done is losing a record silently" (emit): once the event ring
\* has refused a record, the report of it is in the ring or has been read.
LossIsReported ==
    sp.lost => sp.told \/ \E i \in 1..Len(sp.events) : sp.events[i] = "OVERFLOW"

\* The radio is keyed only while a frame is being sent on a bound device, whose
\* end unkeys it: no device change, fault, test or shutdown leaves it keyed
\* "with nothing able to unkey it" (app_set_platform).
NeverLeftKeyed == sp.ptt => sp.tx_active /\ sp.plat /\ at # "CLOSED"

\* What keeps "two byte streams from interleaving" (apply): no byte of the
\* application's reaches the link while a guest is connected, nor after a fault.
NoMixing ==
    [][sp'.tx_applied # sp.tx_applied => ~guest /\ sp.run = "OK"]_vars

\* "Presence rather than a claim protocol means there is no state to get stuck
\* in" (app_tnc_ops.attached): while a server is bound, the spine's idea of
\* ownership is right whenever the loop runs, however the guest came and went
\* and the server was stopped and started since the last step.
OwnedByPresence == (at = "LOOP" /\ sp.tnc) => sp.owned = guest

\* A call placed by a guest that left before anyone answered is given up: the
\* "ConReq retries ... stop once the client that started them is gone"
\* (app_step).
GuestCallsEnd ==
    (at = "LOOP" /\ sp.tnc /\ sp.link = "CALLING" /\ sp.caller = "GUEST")
        => guest

\* Who is there owns the link, and what a guest began ends with it.
GuestRules == OwnedByPresence /\ GuestCallsEnd

\* "Hold the request rather than dropping it -- a transmission ends in seconds"
\* (app_devices_service): a request for a device is acted on.
RequestsAreServed ==
    (\E i \in 1..Len(reqq) : reqq[i] = "OPEN")
        ~> (dev \in {"RUNNING", "FAILED"} \/ at = "CLOSED")
=============================================================================
