------------------------------- MODULE Script -------------------------------
(***************************************************************************)
(* The scripted driver (src/app/script.c) in its loop of src/app/main.c:   *)
(* pump until a directive must wait, one step of the modem, drain the      *)
(* events, advance the clock.  Time is counted in steps; a deadline is the *)
(* number of steps left.  A program is a sequence of directives; the words *)
(* of a line are parsed already.  The device may fail to open; then the    *)
(* clock stands still and the loop ends.                                   *)
(***************************************************************************)
EXTENDS Naturals, Sequences, FiniteSets

CONSTANTS ScrPrograms,    \* the programs tried
          ScrTimeout,     \* DEFAULT_TIMEOUT_SECS, in steps
          ScrXferMax,     \* XFER_MAX, in bytes
          ScrCredit       \* the most the spine takes in one step

ScrOps == {"echo", "peer", "line", "send", "waitrx", "waithost", "waitsecs",
           "expectrx", "noloss", "stress", "aspsend", "aspwait"}
\* What a @wait host= asks for; "none" for the other directives.
ScrTexts == {"none", "CONNECTED", "DISCONNECTED"}

ASSUME ScrAssumption ==
    /\ ScrTimeout \in Nat \ {0}
    /\ ScrXferMax \in Nat
    /\ ScrCredit \in Nat
    /\ ScrPrograms \subseteq Seq([op : ScrOps, n : Nat, secs : Nat, text : ScrTexts])

VARIABLES scr,        \* the script's own state
          scrPlant,   \* the two stations it drives
          scrTurn     \* whose turn it is in the loop

scrVars == <<scr, scrPlant, scrTurn>>

Directive == scr.prog[scr.pc]
ScrEnd == scr.pc > Len(scr.prog)
Expired(s) == s.left = 0

\* fail: the script is over.
ScrFail(s) == [s EXCEPT !.failed = TRUE, !.done = TRUE]
\* advance: to the next line, per-directive state cleared.
Advance(s) == [s EXCEPT !.pc = @ + 1, !.started = FALSE, !.matched = FALSE,
                        !.want = "none", !.left = 0]
\* arm: the deadline is set on the first pump of a directive only.
Arm(s, secs) == IF s.started THEN s
                ELSE [s EXCEPT !.started = TRUE, !.idle = 0,
                               !.left = IF secs > 0 THEN secs ELSE ScrTimeout]

-----------------------------------------------------------------------------
(* The directives.  Each is a pair: what it makes of the script's state,   *)
(* and whether it is finished ("next"), waits ("wait") or has failed.      *)

Result(s, how) == [s |-> s, how |-> how]

WaitFor(s, cond) ==
    IF cond THEN Result(s, "next")
    ELSE IF Expired(s) THEN Result(s, "fail") ELSE Result(s, "wait")

\* Mutant: the deadline measures the transfer.
PumpSend_whole(s, took) ==
    LET t == [s EXCEPT !.txdone = @ + took, !.idle = IF took = 0 THEN @ ELSE 0]
    IN  IF t.txdone = t.txlen
        THEN Result([t EXCEPT !.txtotal = @ + t.txlen], "next")
        ELSE IF Expired(t) THEN Result(t, "fail") ELSE Result(t, "wait")

\* Mutant: only what the last part took is added up.
PumpSend_last_part(s, took) ==
    LET t == IF took = 0 THEN s
             ELSE [s EXCEPT !.txdone = @ + took, !.left = ScrTimeout, !.idle = 0]
    IN  IF t.txdone = t.txlen
        THEN Result([t EXCEPT !.txtotal = @ + took], "next")
        ELSE IF Expired(t) THEN Result(t, "fail") ELSE Result(t, "wait")

\* pump_send: the deadline measures a stall, not the transfer.
PumpSend(s, took) ==
    LET t == IF took = 0 THEN s
             ELSE [s EXCEPT !.txdone = @ + took, !.left = ScrTimeout, !.idle = 0]
    IN  IF t.txdone = t.txlen
        THEN Result([t EXCEPT !.txtotal = @ + t.txlen], "next")
        ELSE IF Expired(t) THEN Result(t, "fail") ELSE Result(t, "wait")

SendDirective(s, n, credit) ==
    IF n = 0 \/ n > ScrXferMax THEN Result(s, "fail")
    ELSE LET t == IF s.started THEN s
                  ELSE Arm([s EXCEPT !.txlen = n, !.txdone = 0], 0)
             want == t.txlen - t.txdone
         IN  PumpSend(t, IF want < credit THEN want ELSE credit)

\* @wait rx=: a byte that arrived gives the whole default time again.
WaitRx(s, n, secs, rx) ==
    LET t == Arm(s, secs)
        u == IF rx # t.mark
             THEN [t EXCEPT !.mark = rx, !.left = ScrTimeout] ELSE t
    IN  IF rx >= n THEN Result(t, "next") ELSE WaitFor(u, FALSE)

WaitHost(s, text, secs) ==
    LET t == Arm(IF s.started THEN s ELSE [s EXCEPT !.want = text], secs)
    IN  WaitFor(t, t.matched)

WaitSecs(s, secs) ==
    LET t == IF s.started THEN s
             ELSE [s EXCEPT !.started = TRUE, !.left = secs]
    IN  Result(t, IF Expired(t) THEN "next" ELSE "wait")

ExpectRx(s, rx) ==
    Result(s, IF rx <= ScrXferMax /\ rx = s.txtotal THEN "next" ELSE "fail")

\* @stress display: rows must have been dropped meanwhile, and no event.
Stress(s, secs, p) ==
    LET t == IF s.started THEN s
             ELSE [s EXCEPT !.started = TRUE, !.left = secs]
    IN  IF ~Expired(t) THEN Result(t, "wait")
        ELSE Result(t, IF p.drops /\ ~p.lost THEN "next" ELSE "fail")

\* @asp-send and @asp-wait file.
AspSend(s, took) ==
    IF took THEN Result(Arm([s EXCEPT !.arrived = FALSE], 0), "next")
    ELSE Result(s, "fail")

Perform(s, d, p, took) ==
    CASE d.op = "echo"     -> Result(s, "next")
      [] d.op = "peer"     -> Result(s, IF took THEN "next" ELSE "fail")
      [] d.op = "line"     -> Result(s, IF took THEN "next" ELSE "wait")
      [] d.op = "send"     -> SendDirective(s, d.n, p.credit)
      [] d.op = "waitrx"   -> WaitRx(s, d.n, d.secs, p.rx)
      [] d.op = "waithost" -> WaitHost(s, d.text, d.secs)
      [] d.op = "waitsecs" -> WaitSecs(s, d.secs)
      [] d.op = "expectrx" -> ExpectRx(s, p.rx)
      [] d.op = "noloss"   -> Result(s, IF p.lost THEN "fail" ELSE "next")
      [] d.op = "stress"   -> Stress(s, d.secs, p)
      [] d.op = "aspsend"  -> AspSend(s, took)
      [] d.op = "aspwait"  -> LET t == Arm(s, d.secs) IN WaitFor(t, t.arrived)

\* The bytes of the directive at hand that the spine has taken.
Placed(s) == IF s.started THEN s.txdone ELSE 0

-----------------------------------------------------------------------------
(* The loop. *)

ScrInit ==
    /\ \E prog \in ScrPrograms :
        scr = [prog |-> prog, pc |-> 1, started |-> FALSE, left |-> 0,
               want |-> "none", matched |-> FALSE, mark |-> 0, txlen |-> 0,
               txdone |-> 0, txtotal |-> 0, arrived |-> FALSE,
               failed |-> FALSE, done |-> FALSE, idle |-> 0]
    /\ scrPlant = [credit |-> 0, sent |-> 0, rx |-> 0, drops |-> FALSE,
                   lost |-> FALSE, dead |-> FALSE]
    /\ scrTurn = "pump"

\* One directive of app_script_pump, which goes on until one has to wait.
Pump(took) ==
    /\ scrTurn = "pump"
    /\ ~scr.done
    /\ ~ScrEnd
    /\ LET r == Perform(scr, Directive, scrPlant, took)
       IN  /\ scr' = CASE r.how = "next" -> Advance(r.s)
                       [] r.how = "fail" -> ScrFail(r.s)
                       [] r.how = "wait" -> r.s
           /\ scrTurn' = IF r.how = "wait" THEN "step" ELSE "pump"
           /\ IF Directive.op = "send"
              THEN LET n == Placed(r.s) - Placed(scr)
                   IN  scrPlant' = [scrPlant EXCEPT !.credit = @ - n, !.sent = @ + n]
              ELSE UNCHANGED scrPlant

PumpEnds ==
    /\ scrTurn = "pump"
    /\ ~scr.done
    /\ ScrEnd
    /\ scr' = [scr EXCEPT !.done = TRUE]
    /\ UNCHANGED <<scrPlant, scrTurn>>

\* The modem runs, events come up, the clock moves on.  The peer may have
\* received bytes; notifications and a finished inbound file may be among
\* the events; display rows are dropped while nobody reads them.
ModemStep(credit, got, texts, file, drop) ==
    /\ scrTurn = "step"
    /\ ~scr.done
    /\ ~scrPlant.dead
    /\ scrPlant.rx + got <= scrPlant.sent
    /\ drop => Directive.op = "stress"
    /\ scrPlant' = [scrPlant EXCEPT !.credit = credit, !.rx = @ + got,
                                    !.drops = @ \/ drop]
    /\ scr' = [scr EXCEPT !.matched = @ \/ (scr.want # "none" /\ scr.want \in texts),
                          !.arrived = @ \/ file,
                          !.left = IF @ > 0 THEN @ - 1 ELSE 0,
                          !.idle = IF got > 0 /\ Directive.op = "waitrx" THEN 0
                                   ELSE IF @ > ScrTimeout THEN @ ELSE @ + 1]
    /\ scrTurn' = "pump"

\* An event ring that overflows says so.
EventLost ==
    /\ scrTurn = "step"
    /\ ~scrPlant.lost
    /\ scrPlant' = [scrPlant EXCEPT !.lost = TRUE]
    /\ UNCHANGED <<scr, scrTurn>>

\* The device does not open: without it there is no clock and main ends.
DeviceFails ==
    /\ scrTurn = "step"
    /\ ~scr.done
    /\ scrPlant' = [scrPlant EXCEPT !.dead = TRUE]
    /\ scr' = [scr EXCEPT !.done = TRUE, !.failed = TRUE]
    /\ UNCHANGED scrTurn

Over == scr.done /\ UNCHANGED scrVars

ScrNext ==
    \/ \E took \in BOOLEAN : Pump(took)
    \/ PumpEnds
    \/ \E credit \in 0..ScrCredit, got \in 0..2, file, drop \in BOOLEAN,
          texts \in SUBSET (ScrTexts \ {"none"}) :
            ModemStep(credit, got, texts, file, drop)
    \/ EventLost
    \/ DeviceFails
    \/ Over

\* main runs its loop until the script is over; the command ring is emptied
\* by the modem's step, so a line is taken sooner or later.
ScrFairness ==
    /\ WF_scrVars(\E took \in BOOLEAN : Pump(took))
    /\ SF_scrVars(Pump(TRUE))
    /\ WF_scrVars(PumpEnds)
    /\ WF_scrVars(scrTurn = "step" /\ ScrNext)

-----------------------------------------------------------------------------
(* Properties. *)

\* No directive waits for ever (script.c: "No @wait runs forever"): whatever
\* the stations do, a script ends.
ScrEnds == (scr.pc = 1 /\ ~scr.done) ~> scr.done

Transfers == {"send", "waitrx"}

\* How long a transfer may stand still.  A time of its own that is longer than
\* the default counts for @wait rx= only until a byte is seen to have arrived,
\* which can be at once; @send has none.
Patience(d) == IF d.op = "waitrx" /\ d.secs \in 1..ScrTimeout THEN d.secs
               ELSE ScrTimeout

\* A transfer is given up only when nothing moved for the whole time allowed:
\* the deadline measures a stall, and a mark left by an earlier @wait does not
\* cut it short.
ScrStallOnly ==
    [][(/\ ~scr.failed /\ scr'.failed /\ ~scrPlant'.dead
        /\ Directive.op \in Transfers /\ Directive.n \in 1..ScrXferMax)
       => scr.idle >= Patience(Directive)]_scrVars

\* A script that passes @expect rx has had every byte its @sends placed
\* received, and all of what they asked for placed.
ScrVerified ==
    (/\ scr.done /\ ~scr.failed /\ scr.prog # <<>>
     /\ scr.prog[Len(scr.prog)].op = "expectrx") =>
        scrPlant.rx = scrPlant.sent /\ scr.txtotal = scrPlant.sent
=============================================================================
