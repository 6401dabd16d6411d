------------------------------- MODULE MCApps -------------------------------
(***************************************************************************)
(* The application protocol, the scripted driver, the host server and the  *)
(* programs ardop-cat and chat, side by side for TLC: a behaviour runs one *)
(* of them, and the others are as they are before anything is asked of     *)
(* them.                                                                   *)
(***************************************************************************)
EXTENDS Asp, Script, HostTcp, Cat, FecChat

-----------------------------------------------------------------------------
(* Asp: one call in which nothing goes wrong, and what may be added. *)

Plain == [room |-> [A |-> 2, B |-> 6], contents |-> {<<1, 2>>},
          senders |-> {"A"}, calls |-> 1, guests |-> 0, faults |-> 0,
          shrinks |-> 0, texts |-> 0, files |-> 1, cancels |-> 0,
          first |-> FALSE, single |-> FALSE, live |-> FALSE]

\* One sender; its second offer finds what the first left.
OneSends == [Plain EXCEPT !.files = 2, !.cancels = 1, !.faults = 1,
                          !.first = TRUE, !.single = TRUE]
\* Both send at once over short queues.
BothSend == [Plain EXCEPT !.room = [A |-> 2, B |-> 3], !.senders = Ends,
                          !.files = 2, !.first = TRUE]
\* A second call; the file may have become another one of the same name.
Resume == [Plain EXCEPT !.contents = {<<1, 2>>, <<3, 2>>}, !.calls = 2,
                        !.files = 2]
\* A TNC client takes one of the stations for a while.
Guest == [Plain EXCEPT !.guests = 1, !.texts = 1]
\* One sender whose file may shrink.
Shrinking == [Plain EXCEPT !.files = 2, !.shrinks = 1, !.cancels = 1,
                           !.single = TRUE, !.live = TRUE]
\* Nobody calls.
NoCall == [Plain EXCEPT !.calls = 0, !.files = 0]

MCAspScenarios == {OneSends, BothSend, Resume, Guest, Shrinking, NoCall}
AspIdle == AspInit /\ aspLeft = NoCall
AspRuns == AspInit /\ aspLeft # NoCall

-----------------------------------------------------------------------------
(* Script: what the scripts of tests/ are made of. *)

D(op) == [op |-> op, n |-> 0, secs |-> 0, text |-> "none"]

MCScrPrograms ==
    {<<D("line"), [D("waithost") EXCEPT !.text = "CONNECTED"],
       [D("send") EXCEPT !.n = 3], [D("waitrx") EXCEPT !.n = 3, !.secs = 1],
       [D("send") EXCEPT !.n = 2], [D("waitrx") EXCEPT !.n = 5, !.secs = 3],
       D("expectrx")>>,
     <<D("peer"), D("echo"), [D("stress") EXCEPT !.secs = 2], D("noloss"),
       [D("waitsecs") EXCEPT !.secs = 2], [D("send") EXCEPT !.n = 9]>>,
     <<[D("send") EXCEPT !.n = 3], [D("waitsecs") EXCEPT !.secs = 2], D("expectrx")>>,
     <<D("aspsend"), [D("aspwait") EXCEPT !.secs = 1],
       [D("waithost") EXCEPT !.text = "DISCONNECTED", !.secs = 1]>>,
     <<D("echo")>>, <<>>}

\* A script of one line that is over.
ScrIdle ==
    /\ scr = [prog |-> <<D("echo")>>, pc |-> 2, started |-> FALSE, left |-> 0,
              want |-> "none", matched |-> FALSE, mark |-> 0, txlen |-> 0,
              txdone |-> 0, txtotal |-> 0, arrived |-> FALSE,
              failed |-> FALSE, done |-> TRUE, idle |-> 0]
    /\ scrPlant = [credit |-> 0, sent |-> 0, rx |-> 0, drops |-> FALSE,
                   lost |-> FALSE, dead |-> FALSE]
    /\ scrTurn = "pump"

-----------------------------------------------------------------------------
(* HostTcp: what is written, told and left on which channels. *)

TcpOne(ch) == [channels |-> {ch}, clients |-> TcpClients, told |-> 1,
               writes |-> IF ch = "cmd" THEN 2 ELSE 3, leaves |-> 1, len |-> 2]
\* A frame larger than the buffer.
TcpLarge == [TcpOne("data") EXCEPT !.len = 4, !.clients = {"c1"}]
\* A host writes data and then the command about it.
TcpBoth == [TcpOne("data") EXCEPT !.channels = TcpChannels, !.clients = {"c1"},
                                  !.told = 0, !.leaves = 0]

MCTcpScenarios == {TcpOne("cmd"), TcpOne("data"), TcpLarge, TcpBoth}

\* Not serving.
TcpIdle ==
    /\ tcpLeft = [TcpLarge EXCEPT !.channels = {}]
    /\ tcp = [ch \in TcpChannels |-> TcpChannel]
    /\ tcpTurn = "off"
    /\ tcpOwed = {}

-----------------------------------------------------------------------------
(* Cat and FecChat. *)

CatIdle == cat = [CatStart EXCEPT !.pc = "done", !.role = "none"] /\ modem = ModemStart

\* Two of the first share a frame; the second becomes two messages.
MCFecLines == {<<"x">>, <<"x", "x", "x", " ", "x", "x">>}

FecIdle == FecInitAt(FecTyped)

-----------------------------------------------------------------------------

Init ==
    \/ AspRuns /\ ScrIdle /\ TcpIdle /\ CatIdle /\ FecIdle
    \/ AspIdle /\ ScrInit /\ TcpIdle /\ CatIdle /\ FecIdle
    \/ AspIdle /\ ScrIdle /\ TcpInit /\ CatIdle /\ FecIdle
    \/ AspIdle /\ ScrIdle /\ TcpIdle /\ CatInit /\ FecIdle
    \/ AspIdle /\ ScrIdle /\ TcpIdle /\ CatIdle /\ FecInit

appsVars == <<aspVars, scrVars, tcpVars, catVars, fecVars>>

Next ==
    \/ AspNext /\ UNCHANGED <<scrVars, tcpVars, catVars, fecVars>>
    \/ ScrNext /\ UNCHANGED <<aspVars, tcpVars, catVars, fecVars>>
    \/ TcpNext /\ UNCHANGED <<aspVars, scrVars, catVars, fecVars>>
    \/ CatNext /\ UNCHANGED <<aspVars, scrVars, tcpVars, fecVars>>
    \/ FecNext /\ UNCHANGED <<aspVars, scrVars, tcpVars, catVars>>

Spec == Init /\ [][Next]_appsVars
             /\ AspFairness /\ ScrFairness /\ TcpFairness /\ CatFairness

\* Whatever one program of a station waits for, it does not wait for ever: an
\* offer is settled, a script ends, a socket is read, a pipe is done.
AppsSettle == AspOfferSettled /\ ScrEnds /\ TcpDrains /\ CatSendEnds
=============================================================================
