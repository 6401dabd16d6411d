-------------------------------- MODULE Cat --------------------------------
(***************************************************************************)
(* The byte pipe ardop-cat (src/apps/ardop_cat.c) with the host-protocol   *)
(* client it is built on (src/apps/hostclient.c): one end sends its        *)
(* standard input, or receives to its standard output, through a modem     *)
(* that is reached over a command and a data socket.                       *)
(*                                                                         *)
(* The modem is modelled as far as the client can tell: it notifies        *)
(* BUFFER n whenever its queue changes and answers the query BUFFER with   *)
(* the same line; the two halves of its service call read the data socket  *)
(* and then the command socket; its link sends, idles and hangs up.  Lines *)
(* and data frames arrive whole, what a socket holds is read at once into  *)
(* the client's buffer.                                                    *)
(***************************************************************************)
EXTENDS Naturals, Sequences, FiniteSets, SequencesExt

CONSTANTS CatChunks,     \* chunks on standard input, or frames to receive
          CatWindow,     \* TX_WINDOW, in chunks
          CatCap,        \* what the modem's transmit queue holds
          CatNoise       \* lines and frames that are none of the pipe's business

ASSUME CatAssumption == /\ CatChunks \in Nat /\ CatNoise \in Nat
                        /\ CatWindow \in Nat \ {0} /\ CatCap \in Nat /\ CatCap >= CatWindow

VARIABLES cat,     \* the client
          modem    \* the modem, its link and the four half-sockets

catVars == <<cat, modem>>

Line(kind, n) == [kind |-> kind, n |-> n]
DataFrame(tag, n) == [tag |-> tag, n |-> n]

-----------------------------------------------------------------------------
(* The modem. *)

ModemTold(m, l) == [m EXCEPT !.toCmd = Append(@, l)]
NotifyBuffer(m) == ModemTold(m, Line("BUFFER", m.queue))

ModemStart == [link |-> "DISC", queue |-> 0, acked |-> 0, turn |-> "data",
               cmds |-> <<>>, datas |-> 0, toCmd |-> <<>>, toData |-> <<>>,
               sent |-> 0, noise |-> CatNoise, hangup |-> FALSE]

\* A host command; DISCONNECT does not wait for the queue.
ModemCommand(m, c) ==
    CASE c = "BUFFER" -> NotifyBuffer(m)
      [] c = "STATE" -> ModemTold(m, Line("STATE", IF m.link = "IDLE" THEN 1 ELSE 0))
      [] c = "ARQCALL" -> [m EXCEPT !.link = "CALLING"]
      [] c = "DISCONNECT" ->
            IF m.link = "DISC" THEN ModemTold(m, Line("OTHER", 0))
                               ELSE [m EXCEPT !.hangup = TRUE]
      [] OTHER -> m

\* The two halves of the service call; the client may write in between.
ModemReads(ch) ==
    /\ modem.turn = ch
    /\ modem.datas > 0 \/ modem.cmds # <<>>
    /\ LET all == modem.queue + modem.datas
           queued == [modem EXCEPT !.queue = IF all > CatCap THEN CatCap ELSE all,
                                   !.datas = 0]    \* the rest is dropped
           m == CASE ch = "data" /\ modem.datas > 0 -> NotifyBuffer(queued)
                  [] ch = "data" /\ modem.datas = 0 -> modem
                  [] ch = "cmd" -> FoldLeft(ModemCommand, [modem EXCEPT !.cmds = <<>>],
                                            modem.cmds)
       IN  modem' = [m EXCEPT !.turn = IF ch = "data" THEN "cmd" ELSE "data"]
    /\ UNCHANGED cat

\* The call is answered, or not.
LinkAnswers(up) ==
    /\ modem.link = "CALLING"
    /\ modem' = IF up THEN ModemTold([modem EXCEPT !.link = "IDLE"], Line("CONNECTED", 0))
                      ELSE ModemTold([modem EXCEPT !.link = "DISC"], Line("DISCONNECTED", 0))
    /\ UNCHANGED cat

\* An acknowledgement: of the data outstanding, or of an IDLE frame.  Data
\* queued while idling waits for it.
LinkAcks ==
    /\ modem.link \in {"ISS", "IDLE"}
    /\ ~modem.hangup
    /\ modem.link = "ISS" \/ modem.queue > 0
    /\ LET acked == modem.link = "ISS"
           m == IF acked THEN NotifyBuffer([modem EXCEPT !.queue = @ - 1, !.acked = @ + 1])
                         ELSE modem
       IN  modem' = [m EXCEPT !.link = IF m.queue > 0 THEN "ISS" ELSE "IDLE"]
    /\ UNCHANGED cat

LinkEnds ==
    /\ modem.link \in {"ISS", "IDLE", "IRS"}
    /\ cat.role = "listen" => modem.sent = CatChunks \/ cat.drops
    /\ cat.role = "send" => modem.hangup \/ cat.drops
    /\ modem' = ModemTold([modem EXCEPT !.link = "DISC", !.hangup = FALSE],
                          Line("DISCONNECTED", 0))
    /\ UNCHANGED cat

\* A peer calls a listening station and sends.
LinkHears ==
    \/ /\ cat.role = "listen"
       /\ modem.link = "DISC" /\ modem.sent = 0 /\ modem.toCmd = <<>>
       /\ cat.pc = "listening"
       /\ modem' = ModemTold([modem EXCEPT !.link = "IRS"], Line("CONNECTED", 0))
       /\ UNCHANGED cat
    \/ /\ modem.link = "IRS"
       /\ modem.sent < CatChunks
       /\ modem' = [modem EXCEPT !.sent = @ + 1,
                                 !.toData = Append(@, DataFrame("ARQ", modem.sent + 1))]
       /\ UNCHANGED cat

\* A notification, or a frame with another tag, in a listener's way: a sender
\* meets notifications enough.
ModemNoise(onCmd) ==
    /\ cat.role = "listen"
    /\ modem.noise > 0
    /\ modem.link # "DISC"
    /\ modem' = LET m == [modem EXCEPT !.noise = @ - 1]
                IN  IF onCmd THEN ModemTold(m, Line("OTHER", 0))
                             ELSE [m EXCEPT !.toData = Append(@, DataFrame("IDF", 0))]
    /\ UNCHANGED cat

-----------------------------------------------------------------------------
(* The client's side of the sockets. *)

HcCmd(c) == [modem EXCEPT !.cmds = Append(@, c)]

\* hc_next_line: a buffered line first; only then is the socket read.
HasLine == cat.lines # <<>> \/ modem.toCmd # <<>>
NextLine == Head(cat.lines \o modem.toCmd)
AfterLine(c) == IF cat.lines # <<>> THEN [c EXCEPT !.lines = Tail(@)]
                                    ELSE [c EXCEPT !.lines = Tail(modem.toCmd)]
SocketAfterLine(m) == IF cat.lines # <<>> THEN m ELSE [m EXCEPT !.toCmd = <<>>]

CatStart == [role |-> "send", pc |-> "start", lines |-> <<>>, queued |-> 0,
             read |-> 0, eof |-> FALSE, disconnected |-> FALSE, rc |-> 1,
             out |-> <<>>, ready |-> {}, drops |-> FALSE]

Finish(rc) == [cat EXCEPT !.pc = "done", !.rc = rc]

-----------------------------------------------------------------------------
(* do_send. *)

SendDial ==
    /\ cat.role = "send" /\ cat.pc = "start"
    /\ modem' = HcCmd("ARQCALL")
    /\ cat' = [cat EXCEPT !.pc = "dialling"]

SendDialled ==
    /\ cat.pc = "dialling"
    /\ HasLine
    /\ modem' = SocketAfterLine(modem)
    /\ cat' = AfterLine(CASE NextLine.kind = "CONNECTED" -> [cat EXCEPT !.pc = "ask"]
                          [] NextLine.kind = "DISCONNECTED" -> Finish(1)
                          [] OTHER -> cat)

\* query_buffer sends the question; the same code asks before and after eof.
SendAsk ==
    /\ cat.pc = "ask"
    /\ modem' = HcCmd("BUFFER")
    /\ cat' = [cat EXCEPT !.pc = "answer"]

\* hc_query takes the first BUFFER line for its answer, whoever it was for.
SendAnswer ==
    /\ cat.pc = "answer"
    /\ HasLine
    /\ modem' = SocketAfterLine(modem)
    /\ LET gone == cat.disconnected \/ NextLine.kind = "DISCONNECTED"
           c == [cat EXCEPT !.disconnected = gone]
       IN  cat' = AfterLine(
             IF NextLine.kind # "BUFFER" THEN c
             ELSE IF gone THEN [c EXCEPT !.pc = IF cat.eof THEN "hangup" ELSE "giveup"]
             ELSE [c EXCEPT !.queued = NextLine.n,
                            !.pc = IF ~cat.eof THEN "input"
                                   ELSE IF NextLine.n > 0 THEN "ask" ELSE "askstate"])

\* The window, standard input, and one chunk on the data socket.
SendInput ==
    /\ cat.pc = "input"
    /\ IF cat.queued >= CatWindow
       THEN cat' = [cat EXCEPT !.pc = "ask"] /\ UNCHANGED modem
       ELSE IF cat.read = CatChunks
       THEN cat' = [cat EXCEPT !.eof = TRUE, !.pc = "ask"] /\ UNCHANGED modem
       ELSE /\ cat' = [cat EXCEPT !.read = @ + 1, !.pc = "ask"]
            /\ modem' = [modem EXCEPT !.datas = @ + 1]

SendAskState ==
    /\ cat.pc = "askstate"
    /\ modem' = HcCmd("STATE")
    /\ cat' = [cat EXCEPT !.pc = "state"]

SendState ==
    /\ cat.pc = "state"
    /\ HasLine
    /\ modem' = SocketAfterLine(modem)
    /\ LET gone == cat.disconnected \/ NextLine.kind = "DISCONNECTED"
           c == [cat EXCEPT !.disconnected = gone]
       IN  cat' = AfterLine(
             IF NextLine.kind # "STATE" THEN c
             ELSE [c EXCEPT !.pc = IF NextLine.n = 1 \/ gone THEN "hangup"
                                                                  ELSE "askstate"])

SendHangUp ==
    /\ cat.pc = "hangup"
    /\ modem' = HcCmd("DISCONNECT")
    /\ cat' = [cat EXCEPT !.pc = "ending"]

\* Nothing more to come is the 30 second timeout.
SendEnding ==
    /\ cat.pc = "ending"
    /\ \/ /\ HasLine
          /\ modem' = SocketAfterLine(modem)
          /\ cat' = AfterLine(IF NextLine.kind = "DISCONNECTED" THEN Finish(0) ELSE cat)
       \/ /\ ~HasLine /\ modem.link = "DISC" /\ modem.cmds = <<>>
          /\ cat' = Finish(1)
          /\ UNCHANGED modem

SendGivesUp ==
    /\ cat.pc = "giveup"
    /\ cat' = Finish(1)
    /\ UNCHANGED modem

-----------------------------------------------------------------------------
(* do_listen. *)

ListenStart ==
    /\ cat.role = "listen" /\ cat.pc = "start"
    /\ modem' = HcCmd("LISTEN")
    /\ cat' = [cat EXCEPT !.pc = "listening"]

ListenConnected ==
    /\ cat.pc = "listening"
    /\ HasLine
    /\ modem' = SocketAfterLine(modem)
    /\ cat' = AfterLine(IF NextLine.kind = "CONNECTED" THEN [cat EXCEPT !.pc = "wait"]
                                                       ELSE cat)

\* ardop_net_wait sees the sockets, not the lines already in the buffer.
ListenWait ==
    LET ready == {ch \in {"cmd", "data"} :
                    IF ch = "cmd" THEN modem.toCmd # <<>> ELSE modem.toData # <<>>}
    IN  /\ cat.pc = "wait"
        /\ ready # {}
        /\ cat' = [cat EXCEPT !.pc = "data", !.ready = ready]
        /\ UNCHANGED modem

\* One message of the data socket after the other, until it holds no more.
ListenTakes(tags) ==
    /\ cat.pc = "data"
    /\ IF "data" \notin cat.ready \/ modem.toData = <<>>
       THEN cat' = [cat EXCEPT !.pc = "line"] /\ UNCHANGED modem
       ELSE /\ LET f == Head(modem.toData)
               IN  cat' = IF f.tag \in tags THEN [cat EXCEPT !.out = Append(@, f)] ELSE cat
            /\ modem' = [modem EXCEPT !.toData = Tail(@)]

\* Mutant: frames of every tag are written.
ListenData_any_tag == ListenTakes({"ARQ", "IDF"})

\* Only ARQ payload is the stream.
ListenData == ListenTakes({"ARQ"})

ListenLine ==
    /\ cat.pc = "line"
    /\ IF "cmd" \notin cat.ready THEN cat' = [cat EXCEPT !.pc = "wait"] /\ UNCHANGED modem
       ELSE /\ modem' = SocketAfterLine(modem)
            /\ cat' = AfterLine(IF NextLine.kind = "DISCONNECTED" THEN Finish(0)
                                ELSE [cat EXCEPT !.pc = "wait"])

-----------------------------------------------------------------------------

CatInit ==
    /\ modem = ModemStart
    /\ \E role \in {"send", "listen"}, drops \in BOOLEAN :
          cat = [CatStart EXCEPT !.role = role, !.drops = drops]

CatClient ==
    \/ SendDial \/ SendDialled \/ SendAsk \/ SendAnswer \/ SendInput
    \/ SendAskState \/ SendState \/ SendHangUp \/ SendEnding \/ SendGivesUp
    \/ ListenStart \/ ListenConnected \/ ListenWait \/ ListenData \/ ListenLine

CatModem ==
    \/ \E ch \in {"data", "cmd"} : ModemReads(ch)
    \/ \E up \in BOOLEAN : LinkAnswers(up)
    \/ LinkAcks
    \/ LinkEnds
    \/ LinkHears
    \/ \E onCmd \in BOOLEAN : ModemNoise(onCmd)

CatNext == CatClient \/ CatModem

\* The modem's loop and the program run on; the peer acknowledges, answers a
\* call or not, and takes a hang-up.
CatFairness ==
    /\ WF_catVars(CatClient)
    /\ WF_catVars(\E ch \in {"data", "cmd"} : ModemReads(ch))
    /\ WF_catVars(\E up \in BOOLEAN : LinkAnswers(up))
    /\ WF_catVars(LinkAcks)
    /\ WF_catVars(modem.hangup /\ LinkEnds)

-----------------------------------------------------------------------------
(* Properties. *)

\* What ardop-cat --listen writes is the ARQ payload in order, with no frame
\* of another tag in between, and all of it when it exits with 0, although it
\* looks at the two sockets one after the other.
CatListenWhole ==
    /\ cat.out = [i \in 1..Len(cat.out) |-> DataFrame("ARQ", i)]
    /\ (cat.role = "listen" /\ cat.pc = "done" /\ cat.rc = 0) =>
            Len(cat.out) = modem.sent

\* ardop-cat TARGET ends: whichever lines it takes for answers, each question
\* it goes on with was answered, and no lost link leaves it waiting.
CatSendEnds == (cat.role = "send" /\ cat.pc = "dialling") ~> cat.pc = "done"

\* ardop-cat TARGET exits with 0 only when everything it read was delivered
\* (do_send: "Wait for the queue to drain and the last frame to be acked").
\* The program does not keep this: hc_query takes a notification for the
\* answer, so both its window and its drain look at an old queue.
CatSendOk ==
    (cat.role = "send" /\ cat.pc = "done" /\ cat.rc = 0 /\ ~cat.drops) =>
        modem.acked = CatChunks
=============================================================================
