----------------------------- MODULE ShellProofs -----------------------------
(***************************************************************************)
(* What is proved of the parts around the daemon's core.                   *)
(*                                                                         *)
(* The keying device (Ptt): for every specification, every device that may *)
(* be plugged in, every pace of the radio and every number of openings.    *)
(* The TCP server a host program attaches to (HostTcp): for every size of  *)
(* the queues, buffers and sockets, every length of the frames and every   *)
(* number of writes, answers and clients that leave.                       *)
(***************************************************************************)
EXTENDS Ptt, HostTcp, Induction, SequenceTheorems, TLAPS

PttSpec == PttInit /\ [][PttNext]_pttVars

PttMethods == {"bad", "none", "rts", "dtr", "cm108", "rigctld", "cat"}
PttCommand == [do : {"key", "unkey"}, conn : Nat]
PttHeard == {"echo", "ok", "no"}
PttRadio == [keyed : BOOLEAN, cmds : Seq(PttCommand), answers : Seq(PttHeard),
             dead : BOOLEAN, refused : BOOLEAN, conn : Nat]

PttConfigured == PttParse(pttLeft.spec)
PttProtocol(c) == c.method \in {"rigctld", "cat"}
PttWaits(c) == c.method = "rigctld" \/ (c.method = "cat" /\ Acknowledged(c.family))

PttTypes ==
    /\ radio \in PttRadio
    /\ pttLeft = [hids |-> pttLeft.hids, refusing |-> pttLeft.refusing,
                  opens |-> pttLeft.opens, spec |-> pttLeft.spec, killed |-> pttLeft.killed]
    /\ pttLeft.opens \in Nat /\ pttLeft.killed \in BOOLEAN
    /\ \/ ptt = PttClosed
       \/ /\ ptt.cfg = PttConfigured
          /\ PttConfigured.method # "bad"
          /\ ptt.keyed \in BOOLEAN
          /\ ptt.fault \in BOOLEAN
          /\ ptt = [cfg |-> ptt.cfg, keyed |-> ptt.keyed, fault |-> ptt.fault]

\* Only a protocol leaves something on the way.
PttOnTheWay == ~PttProtocol(PttConfigured) => radio.cmds = <<>>

\* The last word of a radio the program does not believe keyed is "unkey".
PttLast(r) == IF r.cmds = <<>> THEN r.keyed => r.refused
              ELSE r.cmds[Len(r.cmds)].do = "unkey"
PttLastWord ==
    (~ptt.keyed /\ ~radio.dead
        /\ (pttLeft.killed => PttConfigured.method \in {"rts", "dtr"})) => PttLast(radio)

\* While no fault is latched, an acknowledged link owes nothing.
PttInStep ==
    (ptt # PttClosed /\ ~ptt.fault /\ ~radio.dead /\ PttWaits(PttConfigured)) =>
        radio.cmds = <<>> /\ Verdict(radio.answers) = "silence"

PttInv == PttTypes /\ PttOnTheWay /\ PttLastWord /\ PttInStep /\ PttKeyedOrFault

-----------------------------------------------------------------------------
(* What the operators return. *)

LEMMA PttParseMethod ==
    ASSUME NEW spec PROVE PttParse(spec).method \in PttMethods
  <1>1. \A rest : ParseRigctld(rest).method \in PttMethods
    BY DEF ParseRigctld, PttConfig, PttBad, PttMethods
  <1>2. \A rest : ParseCm108(rest).method \in PttMethods
    BY DEF ParseCm108, PttConfig, PttBad, PttMethods
  <1>3. \A word, rest : ParseCat(word, rest).method \in PttMethods
    BY DEF ParseCat, PttConfig, PttBad, PttMethods
  <1> QED
    BY <1>1, <1>2, <1>3 DEF PttParse, PttConfig, PttBad, PttMethods

\* One command: the keying follows it or it is refused, and the answers heard
\* are put after those that wait.
LEMMA RadioDoesOne ==
    ASSUME NEW r \in PttRadio, NEW c, NEW cmd \in PttCommand
    PROVE  LET s == RadioDoes(r, c, cmd)
           IN  /\ s \in PttRadio
               /\ s.dead = r.dead /\ s.cmds = r.cmds /\ s.conn = r.conn
               /\ s.refused \/ (s.keyed <=> cmd.do = "key")
               /\ \/ s.answers = r.answers
                  \/ s.answers = r.answers \o Answers(c, ~s.refused)
  <1> DEFINE ok == cmd.do \notin PttRefusals \/ ~pttLeft.refusing
             heard == IF c.method = "rigctld" THEN cmd.conn = r.conn ELSE r.conn # 0
             s == RadioDoes(r, c, cmd)
  <1>1. Answers(c, ok) \in Seq(PttHeard)
    BY DEF Answers, PttHeard
  <1>2. r.answers \o Answers(c, ok) \in Seq(PttHeard)
    BY <1>1 DEF PttRadio
  <1> DEFINE a == IF heard THEN r.answers \o Answers(c, ok) ELSE r.answers
             k == IF ok THEN cmd.do = "key" ELSE r.keyed
             f == ~ok
  <1>3. a \in Seq(PttHeard)
    BY <1>2 DEF PttRadio
  <1>4. k \in BOOLEAN /\ f \in BOOLEAN
    BY DEF PttRadio
  <1>5. s = [r EXCEPT !.keyed = k, !.refused = f, !.answers = a]
    BY DEF RadioDoes, PttRadio
  <1> QED
    BY <1>3, <1>4, <1>5 DEF PttRadio

\* Caught up: nothing is on the way, and the last command was followed or
\* refused, whatever came before it.
LEMMA RadioCaughtUp ==
    ASSUME NEW r \in PttRadio, NEW c
    PROVE  LET s == RadioCatchesUp(r, c)
               n == Len(r.cmds)
           IN  ~r.dead =>
               /\ s \in PttRadio
               /\ s.dead = r.dead /\ s.cmds = <<>> /\ s.conn = r.conn
               /\ n = 0 => s.keyed = r.keyed /\ s.refused = r.refused
               /\ n > 0 => s.refused \/ (s.keyed <=> r.cmds[n].do = "key")
               /\ n = 1 => s = RadioDoes([r EXCEPT !.cmds = <<>>], c, r.cmds[1])
  <1>0a. \A z \in PttRadio, cmd \in PttCommand :
            RadioDoes(z, c, cmd) \in PttRadio /\ RadioDoes(z, c, cmd).dead = z.dead
    BY RadioDoesOne
  <1>0b. \A z \in PttRadio, cmd \in PttCommand :
            RadioDoes(z, c, cmd).cmds = z.cmds /\ RadioDoes(z, c, cmd).conn = z.conn
    BY RadioDoesOne
  <1>0c. \A z \in PttRadio, cmd \in PttCommand :
            RadioDoes(z, c, cmd).refused \/ (RadioDoes(z, c, cmd).keyed <=> cmd.do = "key")
    BY RadioDoesOne
  <1> DEFINE n == Len(r.cmds)
             x0 == [r EXCEPT !.cmds = <<>>]
             Solves(h) == h = [i \in 0..n |-> IF i = 0 THEN x0
                                              ELSE RadioDoes(h[i - 1], c, r.cmds[i])]
             after == CHOOSE h : Solves(h)
             D == {x \in PttRadio : x.dead = r.dead /\ x.cmds = <<>> /\ x.conn = r.conn}
             step == [p \in (1..n) \X D |-> RadioDoes(p[2], c, r.cmds[p[1]])]
  <1>1. n \in Nat /\ \A i \in 1..n : r.cmds[i] \in PttCommand
    BY DEF PttRadio
  <1>2. x0 \in D /\ x0.keyed = r.keyed /\ x0.refused = r.refused
    <2>1. <<>> \in Seq(PttCommand)
      OBVIOUS
    <2>2. /\ x0.keyed = r.keyed /\ x0.refused = r.refused /\ x0.dead = r.dead
          /\ x0.cmds = <<>> /\ x0.conn = r.conn
      BY DEF PttRadio
    <2>3. x0 \in PttRadio
      BY <2>1 DEF PttRadio
    <2> HIDE DEF x0
    <2> QED BY <2>2, <2>3
  <1>3. \A i \in 1..n, x \in D : RadioDoes(x, c, r.cmds[i]) \in D
    <2> TAKE i \in 1..n, x \in D
    <2>1. r.cmds[i] \in PttCommand /\ x \in PttRadio
      BY <1>1
    <2> DEFINE y == RadioDoes(x, c, r.cmds[i])
    <2>2. y \in PttRadio /\ y.dead = x.dead
      BY <1>0a, <2>1
    <2>2a. y.cmds = x.cmds /\ y.conn = x.conn
      BY <1>0b, <2>1
    <2> HIDE DEF y
    <2>3. y \in D
      BY <2>1, <2>2, <2>2a
    <2> QED BY <2>3 DEF y
  <1>4. step \in [(1..n) \X D -> D]
    BY <1>3
  <1>5. \A i \in 1..n, x \in D : step[<<i, x>>] = RadioDoes(x, c, r.cmds[i])
    OBVIOUS
  <1> HIDE DEF D, step, x0, n
  <1>6. PICK g : StepsFrom(g, step, n, D, x0)
    <2>1. n \in Nat /\ x0 \in D /\ StepsIn(step, n, D)
      BY <1>1, <1>2, <1>4 DEF StepsIn
    <2> QED BY <2>1, StepsExist
  <1>6a. /\ g \in [0..n -> D]
        /\ g[0] = x0
        /\ \A i \in 1..n : g[i] = step[<<i, g[i - 1]>>]
    BY <1>6 DEF StepsFrom
  <1>7. Solves(g)
    <2>1. ASSUME NEW i \in 0..n
          PROVE  g[i] = IF i = 0 THEN x0 ELSE RadioDoes(g[i - 1], c, r.cmds[i])
      <3>1. CASE i = 0
        BY <1>6a, <3>1
      <3>2. CASE i # 0
        <4>1. i \in 1..n /\ i - 1 \in 0..n
          BY <1>1, <3>2
        <4>2. g[i] = step[<<i, g[i - 1]>>] /\ g[i - 1] \in D
          BY <1>6a, <4>1
        <4>3. step[<<i, g[i - 1]>>] = RadioDoes(g[i - 1], c, r.cmds[i])
          BY <1>5, <4>1, <4>2
        <4> QED BY <3>2, <4>2, <4>3
      <3> QED BY <3>1, <3>2
    <2> QED BY <1>6a, <2>1
  <1>8. Solves(after)
    <2> HIDE DEF Solves
    <2> QED BY <1>7
  <1> HIDE DEF after
  <1>9. /\ after[0] = x0
        /\ \A i \in 1..n : after[i] = RadioDoes(after[i - 1], c, r.cmds[i])
    BY <1>1, <1>8
  <1>10. \A i \in 0..n : after[i] \in D
    <2> DEFINE S == {i \in 0..n : after[i] \in D}
    <2>1. 0 \in S
      BY <1>1, <1>2, <1>9
    <2>2. \A i \in 0..n : i \in S /\ i < n => i + 1 \in S
      BY <1>1, <1>3, <1>9
    <2>3. \A i \in 0..n : i \in S
      BY <1>1, <2>1, <2>2, UptoClosed
    <2> QED BY <2>3
  <1>11. ~r.dead => RadioCatchesUp(r, c) = after[n]
    BY DEF RadioCatchesUp, after, n, x0
  <1>12. after[n] \in D
    BY <1>1, <1>10
  <1>13. ASSUME n > 0
         PROVE  after[n].refused \/ (after[n].keyed <=> r.cmds[n].do = "key")
    <2>1. n \in 1..n /\ n - 1 \in 0..n
      BY <1>1, <1>13
    <2>2. after[n] = RadioDoes(after[n - 1], c, r.cmds[n])
      BY <1>9, <2>1
    <2>3. after[n - 1] \in PttRadio /\ r.cmds[n] \in PttCommand
      BY <1>1, <1>10, <2>1 DEF D
    <2> QED BY <1>0c, <2>2, <2>3
  <1>14. n = 1 => after[n] = RadioDoes([r EXCEPT !.cmds = <<>>], c, r.cmds[1])
    BY <1>9 DEF x0
  <1>15. n = 0 => after[n].keyed = r.keyed /\ after[n].refused = r.refused
    BY <1>2, <1>9
  <1>16. /\ after[n] \in PttRadio /\ after[n].dead = r.dead
         /\ after[n].cmds = <<>> /\ after[n].conn = r.conn
    BY <1>12 DEF D
  <1> HIDE DEF D
  <1> QED
    BY <1>11, <1>13, <1>14, <1>15, <1>16 DEF n

\* The first answer that is no echo is the verdict.
LEMMA VerdictOfOne ==
    ASSUME NEW a \in Seq(PttHeard), Verdict(a) = "silence", NEW c, NEW ok \in BOOLEAN,
           Verdict(a \o Answers(c, ok)) = "ok"
    PROVE  ok
  <1> SUFFICES ASSUME ~ok PROVE FALSE
    OBVIOUS
  <1> DEFINE b == Answers(c, ok)
             H == {i \in DOMAIN (a \o b) : (a \o b)[i] # "echo"}
  <1>1. b \in {<<"no">>, <<"echo", "no">>, <<>>}
    BY DEF Answers
  <1>2. \A i \in DOMAIN a : a[i] = "echo"
    <2> DEFINE G == {i \in DOMAIN a : a[i] # "echo"}
    <2> SUFFICES ASSUME G # {} PROVE FALSE
      OBVIOUS
    <2>1. Verdict(a) = a[Min(G)]
      BY DEF Verdict
    <2>2. G \in SUBSET Nat
      OBVIOUS
    <2>3. Min(G) \in G
      BY <2>2, LeastOf DEF Min
    <2> QED BY <2>1, <2>3 DEF PttHeard
  <1>3. \A i \in H : (a \o b)[i] = "no"
    <2>1. \A i \in DOMAIN (a \o b) : (a \o b)[i] = IF i <= Len(a) THEN a[i] ELSE b[i - Len(a)]
      BY <1>1
    <2>2. \A i \in 1..Len(b) : b[i] \in {"no", "echo"}
      BY <1>1
    <2> QED BY <1>1, <1>2, <2>1, <2>2
  <1>4. CASE H = {}
    BY <1>4 DEF Verdict
  <1>5. CASE H # {}
    <2>1. H \in SUBSET Nat
      BY <1>1
    <2>2. Min(H) \in H
      BY <1>5, <2>1, LeastOf DEF Min
    <2>3. Verdict(a \o b) = (a \o b)[Min(H)]
      BY <1>5 DEF Verdict
    <2> QED BY <1>3, <2>2, <2>3
  <1> QED BY <1>4, <1>5

-----------------------------------------------------------------------------
(* One ardop_ptt_set. *)

\* The command on its way, and at a prompt radio done.
PttSent(r, key) ==
    [r EXCEPT !.cmds = Append(@, [do |-> IF key THEN "key" ELSE "unkey", conn |-> r.conn])]
PttDone(r, c, key, prompt) ==
    IF prompt THEN RadioCatchesUp(PttSent(r, key), c) ELSE PttSent(r, key)
PttDoneRight(r, c, key, prompt, done) ==
    /\ done \in PttRadio /\ done.dead = FALSE /\ done.conn = r.conn
    /\ ~key => PttLast(done)
    /\ ~prompt => done.answers = r.answers
    /\ prompt => done.cmds = <<>>
    /\ (prompt /\ r.cmds = <<>>) =>
          /\ done.refused \/ (done.keyed <=> key)
          /\ \/ done.answers = r.answers
             \/ done.answers = r.answers \o Answers(c, ~done.refused)

LEMMA PttSentDone ==
    ASSUME NEW r \in PttRadio, NEW c, NEW key \in BOOLEAN, NEW prompt \in BOOLEAN
    PROVE  ~r.dead => PttDoneRight(r, c, key, prompt, PttDone(r, c, key, prompt))
  <1> SUFFICES ASSUME r.dead = FALSE
               PROVE  PttDoneRight(r, c, key, prompt, PttDone(r, c, key, prompt))
    BY DEF PttRadio
  <1> DEFINE cmd == [do |-> IF key THEN "key" ELSE "unkey", conn |-> r.conn]
             q == Append(r.cmds, cmd)
             sent == PttSent(r, key)
             n == Len(sent.cmds)
             up == RadioCatchesUp(sent, c)
  <1>1. cmd \in PttCommand /\ cmd.do = (IF key THEN "key" ELSE "unkey")
    BY DEF PttRadio, PttCommand
  <1>2. r.cmds \in Seq(PttCommand)
    BY DEF PttRadio
  <1> HIDE DEF cmd
  <1>3. /\ q \in Seq(PttCommand) /\ Len(q) = Len(r.cmds) + 1
        /\ q[Len(q)] = cmd /\ q # <<>> /\ Len(r.cmds) \in Nat
    BY <1>1, <1>2
  <1> HIDE DEF q
  <1>4. /\ sent.cmds = q /\ sent.keyed = r.keyed /\ sent.answers = r.answers
        /\ sent.dead = FALSE /\ sent.refused = r.refused /\ sent.conn = r.conn
    BY DEF PttRadio, q, PttSent, cmd
  <1>5. sent \in PttRadio
    BY <1>3 DEF PttRadio, q, PttSent, cmd
  <1>6. r.cmds = <<>> => [sent EXCEPT !.cmds = <<>>] = r
    BY DEF PttRadio, PttSent
  <1> HIDE DEF sent
  <1>7. /\ up \in PttRadio /\ up.dead = FALSE /\ up.cmds = <<>> /\ up.conn = r.conn
        /\ up.refused \/ (up.keyed <=> q[Len(q)].do = "key")
        /\ n = 1 => up = RadioDoes([sent EXCEPT !.cmds = <<>>], c, q[1])
    BY <1>3, <1>4, <1>5, RadioCaughtUp
  <1> HIDE DEF up
  <1>8. r.cmds = <<>> => /\ up.answers = r.answers
                            \/ up.answers = r.answers \o Answers(c, ~up.refused)
    <2> SUFFICES ASSUME r.cmds = <<>>
                 PROVE  /\ up.answers = r.answers
                           \/ up.answers = r.answers \o Answers(c, ~up.refused)
      OBVIOUS
    <2>1. n = 1 /\ q[1] = cmd
      BY <1>3, <1>4
    <2>2. up = RadioDoes(r, c, cmd)
      BY <1>6, <1>7, <2>1
    <2> QED BY <1>1, <2>2, RadioDoesOne
  <1>9. ~key => PttLast(up) /\ PttLast(sent)
    BY <1>1, <1>3, <1>4, <1>7 DEF PttLast
  <1>10. up.refused \/ (up.keyed <=> key)
    BY <1>1, <1>3, <1>7
  <1>11. CASE prompt
    BY <1>7, <1>8, <1>9, <1>10, <1>11 DEF sent, up, PttDone, PttDoneRight
  <1>12. CASE ~prompt
    BY <1>4, <1>5, <1>9, <1>12 DEF sent, PttDone, PttDoneRight
  <1> QED BY <1>11, <1>12

PttShape(p) == /\ p = [cfg |-> p.cfg, keyed |-> p.keyed, fault |-> p.fault]
               /\ p.fault \in BOOLEAN /\ p.keyed \in BOOLEAN
               /\ p.cfg.method \in PttMethods \ {"bad"}

\* The command is noted as given, a fault stays, and what is last on the way
\* or done is an "unkey" when that was asked; no fault after an answered
\* command means it was done.
PttSetRight(p, r, key, s) ==
    /\ s.p.cfg = p.cfg /\ (s.p.keyed <=> key) /\ PttShape(s.p)
    /\ p.fault => s.p.fault
    /\ s.r \in PttRadio /\ s.r.dead = r.dead /\ s.r.conn = r.conn
    /\ ~PttProtocol(p.cfg) => s.r.cmds = <<>>
    /\ (~r.dead /\ ~key) => PttLast(s.r)
    /\ (~r.dead /\ ~s.p.fault /\ PttWaits(p.cfg) /\ Verdict(r.answers) = "silence") =>
          s.r.cmds = <<>> /\ Verdict(s.r.answers) = "silence"
    /\ (~r.dead /\ ~s.p.fault /\ key /\ p.cfg.family # "kenwood"
          /\ (PttWaits(p.cfg) => r.cmds = <<>> /\ Verdict(r.answers) = "silence")) =>
          s.r.keyed

LEMMA PttSetDoes ==
    ASSUME NEW p, PttShape(p), NEW r \in PttRadio, NEW key \in BOOLEAN, NEW prompt \in BOOLEAN,
           ~PttProtocol(p.cfg) => r.cmds = <<>>
    PROVE  PttSetRight(p, r, key, PttSet(p, r, key, prompt))
  <1> DEFINE c == p.cfg
             q == [p EXCEPT !.keyed = key]
             yes == TRUE
             lost == [q EXCEPT !.fault = yes]
             keyed == [r EXCEPT !.keyed = key]
             s == PttSet(p, r, key, prompt)
  <1>0. yes \in BOOLEAN /\ yes
    OBVIOUS
  <1> HIDE DEF yes
  <1>1. /\ q.cfg = p.cfg /\ (q.keyed <=> key) /\ PttShape(q) /\ (q.fault <=> p.fault)
        /\ lost.cfg = p.cfg /\ (lost.keyed <=> key) /\ PttShape(lost) /\ lost.fault
    <2>1. q = [cfg |-> p.cfg, keyed |-> key, fault |-> p.fault]
      BY DEF PttShape
    <2> HIDE DEF q
    <2>2. lost = [cfg |-> p.cfg, keyed |-> key, fault |-> yes]
      BY <2>1
    <2> HIDE DEF lost
    <2> QED BY <1>0, <2>1, <2>2 DEF PttShape
  <1>2. /\ keyed \in PttRadio /\ keyed.dead = r.dead /\ keyed.conn = r.conn
        /\ (keyed.keyed <=> key) /\ keyed.cmds = r.cmds
    BY DEF PttRadio
  <1> HIDE DEF q, lost, keyed
  <1>3. CASE c.method \in {"none", "rts", "dtr", "cm108"} /\ ~(Direct(c) /\ r.dead)
    <2>1. s = [p |-> q, r |-> keyed]
      BY <1>3 DEF PttSet, Direct, q, keyed
    <2>2. ~PttProtocol(c) /\ ~PttWaits(c)
      BY <1>3 DEF PttProtocol, PttWaits
    <2>3. (~r.dead /\ ~key) => PttLast(keyed)
      BY <1>2, <2>2 DEF PttLast
    <2> HIDE DEF s
    <2>4. s.p = q /\ s.r = keyed
      BY <2>1
    <2> QED BY <1>1, <1>2, <2>2, <2>3, <2>4 DEF PttSetRight, s
  <1>4. CASE c.method \in {"none", "rts", "dtr", "cm108"} /\ Direct(c) /\ r.dead
    <2>1. s = [p |-> lost, r |-> r]
      BY <1>4 DEF PttSet, Direct, q, lost, yes
    <2> HIDE DEF s
    <2>4. s.p = lost /\ s.r = r
      BY <2>1
    <2> QED BY <1>1, <1>4, <2>4 DEF PttSetRight, s
  <1>5. CASE c.method \in {"rigctld", "cat"} /\ r.dead
    <2>1. s = [p |-> lost, r |-> r]
      BY <1>5 DEF PttSet, Direct, q, lost, yes
    <2> HIDE DEF s
    <2>4. s.p = lost /\ s.r = r
      BY <2>1
    <2> QED BY <1>1, <1>5, <2>4 DEF PttSetRight, s
  <1>6. CASE c.method \in {"rigctld", "cat"} /\ r.dead = FALSE
    <2> DEFINE done == PttDone(r, c, key, prompt)
               late == Verdict(r.answers) # "silence"
               waits == c.method = "rigctld" \/ Acknowledged(c.family)
               verdict == Verdict(IF late THEN r.answers ELSE done.answers)
               left == IF late THEN From(done.answers, Len(r.answers)) ELSE <<>>
               heard == [done EXCEPT !.answers = left]
    <2>1. PttDoneRight(r, c, key, prompt, done)
      BY <1>6, PttSentDone
    <2> USE DEF PttDoneRight
    <2>2. s = IF ~waits THEN [p |-> q, r |-> done]
              ELSE [p |-> IF verdict = "ok" THEN q ELSE lost,
                    r |-> [done EXCEPT !.answers = IF late THEN From(@, Len(r.answers)) ELSE <<>>]]
      BY <1>6 DEF PttSet, Direct, q, lost, yes, PttDone, PttSent
    <2> HIDE DEF s, done
    <2>3. [done EXCEPT !.answers = IF late THEN From(@, Len(r.answers)) ELSE <<>>] = heard
      BY <2>1 DEF PttRadio
    <2>4. PttProtocol(c) /\ (PttWaits(c) <=> waits) /\ (c.family # "kenwood" => waits)
      BY <1>6 DEF PttProtocol, PttWaits, Acknowledged
    <2> HIDE DEF waits
    <2>5. CASE ~waits
      <3>1. s.p = q /\ s.r = done
        BY <2>2, <2>5
      <3> QED BY <1>1, <1>6, <2>1, <2>4, <2>5, <3>1 DEF PttSetRight, s
    <2>6. CASE waits
      <3>1. s.p = (IF verdict = "ok" THEN q ELSE lost) /\ s.r = heard
        BY <2>2, <2>3, <2>6
      <3>2. left \in Seq(PttHeard)
        BY <2>1 DEF PttRadio, From
      <3>3. /\ heard \in PttRadio /\ heard.dead = FALSE /\ heard.conn = r.conn
            /\ heard.cmds = done.cmds /\ (heard.keyed <=> done.keyed)
            /\ (heard.refused <=> done.refused) /\ heard.answers = left
        BY <2>1, <3>2 DEF PttRadio
      <3>4. ~key => PttLast(heard)
        BY <2>1, <3>3 DEF PttLast
      <3>5. ASSUME Verdict(r.answers) = "silence", verdict = "ok"
            PROVE  prompt /\ done.cmds = <<>> /\ Verdict(left) = "silence"
        <4>1. verdict = Verdict(done.answers) /\ left = <<>>
          BY <3>5
        <4>2. prompt
          BY <2>1, <3>5, <4>1
        <4>3. Verdict(<<>>) = "silence"
          BY DEF Verdict
        <4> QED BY <2>1, <4>1, <4>2, <4>3
      <3>6. ASSUME Verdict(r.answers) = "silence", verdict = "ok", r.cmds = <<>>, key
            PROVE  done.keyed
        <4>1. prompt
          BY <3>5, <3>6
        <4>2. Verdict(done.answers) = "ok"
          BY <3>6
        <4>3. done.answers = r.answers \o Answers(c, ~done.refused)
          BY <2>1, <3>6, <4>1, <4>2
        <4>4. r.answers \in Seq(PttHeard) /\ (~done.refused) \in BOOLEAN
          BY <2>1 DEF PttRadio
        <4>5. ~done.refused
          BY <3>6, <4>2, <4>3, <4>4, VerdictOfOne
        <4> QED BY <2>1, <3>6, <4>1, <4>5
      <3> HIDE DEF heard, verdict, left
      <3>7. s.p.fault \/ verdict = "ok"
        BY <1>1, <3>1
      <3>8. s.p = q \/ s.p = lost
        BY <3>1
      <3>9. s.p.cfg = p.cfg /\ (s.p.keyed <=> key) /\ PttShape(s.p) /\ (p.fault => s.p.fault)
        BY <1>1, <3>8
      <3>10. (~s.p.fault /\ Verdict(r.answers) = "silence") =>
                s.r.cmds = <<>> /\ Verdict(s.r.answers) = "silence"
        BY <3>1, <3>3, <3>5, <3>7
      <3>11. (~s.p.fault /\ key /\ r.cmds = <<>> /\ Verdict(r.answers) = "silence") => s.r.keyed
        BY <3>1, <3>3, <3>6, <3>7
      <3> QED
        BY <1>6, <2>4, <2>6, <3>1, <3>3, <3>4, <3>9, <3>10, <3>11 DEF PttSetRight, s
    <2> QED BY <2>5, <2>6
  <1> QED
    <2>1. r.dead \in BOOLEAN
      BY DEF PttRadio
    <2> QED BY <1>3, <1>4, <1>5, <1>6, <2>1 DEF PttShape, PttMethods

-----------------------------------------------------------------------------
(* The invariant holds at the start and is kept by every step. *)

LEMMA PttOpenShape ==
    ASSUME PttTypes, ptt # PttClosed
    PROVE  PttShape(ptt) /\ ptt.cfg = PttConfigured
  <1>1. PttConfigured.method \in PttMethods
    BY PttParseMethod DEF PttConfigured
  <1> QED
    BY <1>1 DEF PttTypes, PttShape

LEMMA PttClosedFields ==
    PttClosed.keyed = FALSE /\ PttClosed.fault = FALSE /\ PttClosed.cfg.method = "bad"
  <1>1. PttBad.method = "bad"
    BY DEF PttBad, PttConfig
  <1>2. PttClosed.keyed = FALSE /\ PttClosed.fault = FALSE /\ PttClosed.cfg = PttBad
    BY DEF PttClosed
  <1> QED BY <1>1, <1>2

LEMMA PttInitInv ==
    PttInit => PttInv
  <1> SUFFICES ASSUME PttInit PROVE PttInv
    OBVIOUS
  <1>1. /\ ptt = PttClosed /\ radio = RadioStart
        /\ \E spec \in PttSpecs, hids \in PttHids, refusing \in BOOLEAN :
              pttLeft = [hids |-> hids, refusing |-> refusing, opens |-> PttOpens,
                         spec |-> spec, killed |-> FALSE]
    BY DEF PttInit, PttAt
  <1>2. /\ radio \in PttRadio /\ radio.cmds = <<>> /\ radio.keyed = FALSE
    BY <1>1 DEF RadioStart, PttRadio
  <1>3. PttTypes
    BY <1>1, <1>2, PttAssumption DEF PttTypes
  <1> QED
    BY <1>1, <1>2, <1>3, PttClosedFields
    DEF PttInv, PttOnTheWay, PttLastWord, PttLast, PttInStep, PttKeyedOrFault

LEMMA PttKeyKeeps ==
    ASSUME PttInv, NEW key \in BOOLEAN, NEW prompt \in BOOLEAN, PttKey(key, prompt)
    PROVE  PttInv'
  <1> DEFINE s == PttSet(ptt, radio, key, prompt)
  <1>1. /\ ptt # PttClosed /\ ptt' = s.p /\ radio' = s.r /\ pttLeft' = pttLeft
        /\ key => ~ptt.keyed /\ ~ptt.fault
    BY DEF PttKey
  <1>2. PttShape(ptt) /\ ptt.cfg = PttConfigured /\ radio \in PttRadio
    BY <1>1, PttOpenShape DEF PttInv, PttTypes
  <1>3. PttSetRight(ptt, radio, key, s)
    BY <1>2, PttSetDoes DEF PttInv, PttOnTheWay
  <1> HIDE DEF s
  <1>4. PttConfigured' = PttConfigured
    BY <1>1 DEF PttConfigured
  <1>5. PttShape(ptt') /\ ptt'.cfg = PttConfigured
    BY <1>1, <1>2, <1>3 DEF PttSetRight
  <1>6. PttTypes'
    BY <1>1, <1>3, <1>4, <1>5 DEF PttInv, PttTypes, PttSetRight, PttShape
  <1>7. PttOnTheWay'
    BY <1>1, <1>2, <1>3, <1>4 DEF PttOnTheWay, PttSetRight
  <1>8. PttLastWord'
    BY <1>1, <1>3, <1>4 DEF PttLastWord, PttSetRight
  <1>9. PttInStep'
    <2> SUFFICES ASSUME ~ptt'.fault, ~radio'.dead, PttWaits(PttConfigured)
                 PROVE  radio'.cmds = <<>> /\ Verdict(radio'.answers) = "silence"
      BY <1>4 DEF PttInStep
    <2>1. ~ptt.fault /\ ~radio.dead
      BY <1>1, <1>3 DEF PttSetRight
    <2>2. Verdict(radio.answers) = "silence"
      BY <1>1, <2>1 DEF PttInv, PttInStep
    <2> QED BY <1>1, <1>2, <1>3, <2>1, <2>2 DEF PttSetRight
  <1>10. PttKeyedOrFault'
    <2> SUFFICES ASSUME ptt'.keyed, ~ptt'.fault, ~radio'.dead, ptt'.cfg.family # "kenwood"
                 PROVE  radio'.keyed
      BY DEF PttKeyedOrFault
    <2>1. ~ptt.fault /\ ~radio.dead /\ key /\ ptt.cfg.family # "kenwood"
      BY <1>1, <1>3 DEF PttSetRight
    <2>2. PttWaits(ptt.cfg) => radio.cmds = <<>> /\ Verdict(radio.answers) = "silence"
      BY <1>1, <1>2, <2>1 DEF PttInv, PttInStep
    <2> QED BY <1>1, <1>3, <2>1, <2>2 DEF PttSetRight
  <1> QED BY <1>6, <1>7, <1>8, <1>9, <1>10 DEF PttInv

\* A device that is let go: the radio as left, its handle given up.
LEMMA PttLetGoKeeps ==
    ASSUME PttInv, ptt # PttClosed, ptt' = PttClosed,
           pttLeft'.spec = pttLeft.spec, PttTypes',
           ~PttProtocol(PttConfigured) => radio'.cmds = <<>>,
           (~radio'.dead /\ (pttLeft'.killed => PttConfigured.method \in {"rts", "dtr"})) =>
              PttLast(radio')
    PROVE  PttInv'
  <1>1. PttConfigured' = PttConfigured
    BY DEF PttConfigured
  <1>2. ptt'.keyed = FALSE /\ ptt'.fault = FALSE
    BY PttClosedFields
  <1> QED
    BY <1>1, <1>2 DEF PttInv, PttOnTheWay, PttLastWord, PttInStep, PttKeyedOrFault

LEMMA PttCloseKeeps ==
    ASSUME PttInv, NEW prompt \in BOOLEAN, PttClose(prompt)
    PROVE  PttInv'
  <1> DEFINE no == FALSE
             p0 == [ptt EXCEPT !.fault = no]
             s == PttSet(p0, radio, FALSE, prompt)
             r == IF ptt.keyed THEN s.r ELSE radio
             falls == Direct(ptt.cfg) /\ ~radio.dead
             k == IF falls THEN FALSE ELSE r.keyed
  <1>1. /\ ptt # PttClosed /\ ptt' = PttClosed /\ pttLeft' = pttLeft
        /\ radio' = [r EXCEPT !.keyed = IF falls THEN FALSE ELSE @, !.conn = 0]
    BY DEF PttClose
  <1>2. PttShape(ptt) /\ ptt.cfg = PttConfigured /\ radio \in PttRadio
    BY <1>1, PttOpenShape DEF PttInv, PttTypes
  <1>3. PttShape(p0) /\ p0.cfg = PttConfigured
    <2>1. no \in BOOLEAN
      OBVIOUS
    <2> HIDE DEF no
    <2>2. p0 = [cfg |-> ptt.cfg, keyed |-> ptt.keyed, fault |-> no]
      BY <1>2 DEF PttShape
    <2> HIDE DEF p0
    <2> QED BY <1>2, <2>1, <2>2 DEF PttShape
  <1>4. PttSetRight(p0, radio, FALSE, s)
    BY <1>2, <1>3, PttSetDoes DEF PttInv, PttOnTheWay
  <1> HIDE DEF s, p0
  <1>5. /\ r \in PttRadio /\ r.dead = radio.dead
        /\ ~PttProtocol(PttConfigured) => r.cmds = <<>>
    BY <1>2, <1>3, <1>4 DEF PttInv, PttOnTheWay, PttSetRight
  <1>6. (~r.dead /\ (pttLeft.killed => PttConfigured.method \in {"rts", "dtr"})) => PttLast(r)
    BY <1>2, <1>4 DEF PttInv, PttLastWord, PttSetRight, PttShape
  <1> HIDE DEF r, falls
  <1>7. k \in BOOLEAN /\ radio' = [r EXCEPT !.keyed = k, !.conn = 0]
    BY <1>1, <1>5 DEF PttRadio
  <1>8. k => r.keyed
    OBVIOUS
  <1> HIDE DEF k
  <1>9. /\ radio' \in PttRadio /\ radio'.dead = r.dead /\ radio'.cmds = r.cmds
        /\ (radio'.keyed <=> k) /\ radio'.refused = r.refused
    BY <1>5, <1>7 DEF PttRadio
  <1>10. PttLast(r) => PttLast(radio')
    BY <1>8, <1>9 DEF PttLast
  <1>11. PttTypes'
    BY <1>1, <1>9 DEF PttInv, PttTypes
  <1> QED BY <1>1, <1>5, <1>6, <1>9, <1>10, <1>11, PttLetGoKeeps

LEMMA PttKilledKeeps ==
    ASSUME PttInv, PttKilled
    PROVE  PttInv'
  <1> DEFINE k == IF ptt.cfg.method \in {"rts", "dtr"} THEN FALSE ELSE radio.keyed
  <1>1. /\ ptt # PttClosed /\ ptt' = PttClosed
        /\ pttLeft' = [pttLeft EXCEPT !.killed = TRUE]
        /\ radio' = [radio EXCEPT !.keyed = IF ptt.cfg.method \in {"rts", "dtr"}
                                            THEN FALSE ELSE @, !.conn = 0]
    BY DEF PttKilled
  <1>2. PttShape(ptt) /\ ptt.cfg = PttConfigured /\ radio \in PttRadio
    BY <1>1, PttOpenShape DEF PttInv, PttTypes
  <1>3. k \in BOOLEAN /\ radio' = [radio EXCEPT !.keyed = k, !.conn = 0]
    BY <1>1, <1>2 DEF PttRadio
  <1> HIDE DEF k
  <1>4. /\ radio' \in PttRadio /\ radio'.dead = radio.dead /\ radio'.cmds = radio.cmds
        /\ (radio'.keyed <=> k) /\ radio'.refused = radio.refused
    BY <1>2, <1>3 DEF PttRadio
  <1>5. /\ pttLeft'.spec = pttLeft.spec /\ pttLeft'.opens = pttLeft.opens
        /\ pttLeft'.hids = pttLeft.hids /\ pttLeft'.refusing = pttLeft.refusing
        /\ pttLeft'.killed
    BY <1>1 DEF PttInv, PttTypes
  <1>6. pttLeft' = [hids |-> pttLeft'.hids, refusing |-> pttLeft'.refusing,
                  opens |-> pttLeft'.opens, spec |-> pttLeft'.spec, killed |-> pttLeft'.killed]
    BY <1>1 DEF PttInv, PttTypes
  <1>7. PttTypes'
    BY <1>1, <1>4, <1>5, <1>6 DEF PttInv, PttTypes
  <1>8. PttConfigured.method \in {"rts", "dtr"} => PttLast(radio')
    <2> SUFFICES ASSUME PttConfigured.method \in {"rts", "dtr"} PROVE PttLast(radio')
      OBVIOUS
    <2>1. ~PttProtocol(PttConfigured)
      BY DEF PttProtocol
    <2>2. radio'.cmds = <<>> /\ ~radio'.keyed
      BY <1>2, <1>4, <2>1 DEF PttInv, PttOnTheWay, k
    <2> QED BY <2>2 DEF PttLast
  <1> QED BY <1>1, <1>4, <1>5, <1>7, <1>8, PttLetGoKeeps DEF PttInv, PttOnTheWay

LEMMA PttLateKeeps ==
    ASSUME PttInv, RadioLate
    PROVE  PttInv'
  <1> DEFINE s == RadioCatchesUp(radio, PttConfigured)
             n == Len(radio.cmds)
  <1>1. /\ radio.cmds # <<>> /\ ~radio.dead /\ radio' = s
        /\ ptt' = ptt /\ pttLeft' = pttLeft
    BY DEF RadioLate, PttConfigured
  <1>2. radio \in PttRadio
    BY DEF PttInv, PttTypes
  <1>3. n \in Nat /\ n > 0
    BY <1>1, <1>2 DEF PttRadio
  <1>4. /\ s \in PttRadio /\ s.cmds = <<>>
        /\ s.refused \/ (s.keyed <=> radio.cmds[n].do = "key")
    BY <1>1, <1>2, <1>3, RadioCaughtUp
  <1> HIDE DEF s
  <1>5. PttConfigured' = PttConfigured
    BY <1>1 DEF PttConfigured
  <1>6. PttTypes'
    BY <1>1, <1>4, <1>5 DEF PttInv, PttTypes
  <1>7. PttLastWord'
    <2>1. PttLast(radio) => PttLast(s)
      BY <1>1, <1>4 DEF PttLast
    <2> QED BY <1>1, <1>5, <2>1 DEF PttInv, PttLastWord
  <1>8. ASSUME ptt # PttClosed, ~ptt.fault PROVE ~PttWaits(PttConfigured)
    BY <1>1, <1>8 DEF PttInv, PttInStep
  <1>9. PttInStep'
    BY <1>1, <1>5, <1>8 DEF PttInStep
  <1>10. PttKeyedOrFault'
    <2> SUFFICES ASSUME ptt.keyed, ~ptt.fault, ptt.cfg.family # "kenwood" PROVE FALSE
      BY <1>1 DEF PttKeyedOrFault
    <2>1. ptt # PttClosed
      BY PttClosedFields
    <2>2. ptt.cfg = PttConfigured
      BY <2>1, PttOpenShape DEF PttInv
    <2>3. PttProtocol(PttConfigured)
      BY <1>1 DEF PttInv, PttOnTheWay
    <2>4. PttWaits(PttConfigured)
      BY <2>2, <2>3 DEF PttProtocol, PttWaits, Acknowledged
    <2> QED BY <1>8, <2>1, <2>4
  <1> QED
    BY <1>1, <1>4, <1>5, <1>6, <1>7, <1>9, <1>10 DEF PttInv, PttOnTheWay

LEMMA PttDiesKeeps ==
    ASSUME PttInv, RadioDies
    PROVE  PttInv'
  <1> DEFINE yes == TRUE
  <1>0. yes \in BOOLEAN /\ yes
    OBVIOUS
  <1>1. /\ radio' = [radio EXCEPT !.dead = yes, !.answers = <<>>]
        /\ ptt' = ptt /\ pttLeft' = pttLeft
    BY DEF RadioDies
  <1> HIDE DEF yes
  <1>2. radio' \in PttRadio /\ radio'.dead = yes /\ radio'.cmds = radio.cmds
    <2>1. radio \in PttRadio
      BY DEF PttInv, PttTypes
    <2>2. <<>> \in Seq(PttHeard)
      OBVIOUS
    <2> QED BY <1>0, <1>1, <2>1, <2>2 DEF PttRadio
  <1>3. PttConfigured' = PttConfigured
    BY <1>1 DEF PttConfigured
  <1>4. PttTypes'
    BY <1>1, <1>2, <1>3 DEF PttInv, PttTypes
  <1> QED
    BY <1>0, <1>1, <1>2, <1>3, <1>4
    DEF PttInv, PttOnTheWay, PttLastWord, PttInStep, PttKeyedOrFault

LEMMA PttOpenKeeps ==
    ASSUME PttInv, NEW prompt \in BOOLEAN, PttOpen(prompt)
    PROVE  PttInv'
  <1> DEFINE c == PttConfigured
             no == FALSE
             p == [cfg |-> c, keyed |-> no, fault |-> no]
             r == [radio EXCEPT !.answers = <<>>, !.conn = pttLeft.opens]
             s == PttSet(p, r, no, prompt)
             gone == [s.r EXCEPT !.conn = 0]
             down == [radio EXCEPT !.keyed = no]
  <1>1. /\ ptt = PttClosed /\ pttLeft.opens > 0
        /\ pttLeft' = [pttLeft EXCEPT !.opens = @ - 1]
        /\ \/ UNCHANGED <<ptt, radio>>
           \/ /\ PttProtocol(c)
              /\ \/ s.p.fault /\ ptt' = PttClosed /\ radio' = gone
                 \/ ~s.p.fault /\ ptt' = s.p /\ radio' = s.r
           \/ /\ c.method \in {"rts", "dtr"} /\ ptt' = p /\ radio' = down
           \/ /\ c.method \in {"none", "cm108"} /\ ptt' = p /\ UNCHANGED radio
    <2>1. c.method \in PttMethods
      BY PttParseMethod DEF PttConfigured
    <2> QED BY <2>1 DEF PttOpen, PttConfigured, PttMethods, PttProtocol
  <1>2. radio \in PttRadio
    BY DEF PttInv, PttTypes
  <1>3. /\ pttLeft'.spec = pttLeft.spec /\ pttLeft'.killed = pttLeft.killed
        /\ pttLeft'.opens \in Nat
        /\ pttLeft' = [hids |-> pttLeft'.hids, refusing |-> pttLeft'.refusing,
                  opens |-> pttLeft'.opens, spec |-> pttLeft'.spec, killed |-> pttLeft'.killed]
    BY <1>1 DEF PttInv, PttTypes
  <1>4. PttConfigured' = PttConfigured
    BY <1>3 DEF PttConfigured
  <1>5. no \in BOOLEAN /\ ~no
    OBVIOUS
  <1> HIDE DEF no
  <1>6. /\ r \in PttRadio /\ r.dead = radio.dead /\ r.cmds = radio.cmds /\ r.answers = <<>>
        /\ down \in PttRadio /\ down.dead = radio.dead /\ down.cmds = radio.cmds
        /\ down.keyed = no
    <2>1. <<>> \in Seq(PttHeard) /\ pttLeft.opens \in Nat
      BY DEF PttInv, PttTypes
    <2>2. r \in PttRadio /\ r.dead = radio.dead /\ r.cmds = radio.cmds /\ r.answers = <<>>
      BY <1>2, <2>1 DEF PttRadio
    <2>3. /\ down \in PttRadio /\ down.dead = radio.dead /\ down.cmds = radio.cmds
          /\ down.keyed = no
      BY <1>2, <1>5 DEF PttRadio
    <2> QED BY <2>2, <2>3
  <1>7. c.method # "bad" => PttShape(p) /\ p.cfg = c /\ p.keyed = no /\ p.fault = no
    BY <1>5, PttParseMethod DEF PttShape, PttConfigured
  <1> HIDE DEF r, down, p
  <1>8. c.method # "bad" => PttSetRight(p, r, no, s)
    BY <1>5, <1>6, <1>7, PttSetDoes DEF PttInv, PttOnTheWay
  <1> HIDE DEF s
  <1>9. PttLastWord => ((~radio.dead /\ (pttLeft.killed => c.method \in {"rts", "dtr"}))
                           => PttLast(radio))
    BY <1>1, PttClosedFields DEF PttLastWord
  <1>10. CASE UNCHANGED <<ptt, radio>>
    BY <1>1, <1>2, <1>3, <1>4, <1>9, <1>10, PttClosedFields
    DEF PttInv, PttTypes, PttOnTheWay, PttLastWord, PttInStep, PttKeyedOrFault
  <1>11. CASE PttProtocol(c) /\ s.p.fault /\ ptt' = PttClosed /\ radio' = gone
    <2>1. PttSetRight(p, r, no, s)
      BY <1>8, <1>11 DEF PttProtocol
    <2>2. s.r \in PttRadio
      BY <2>1 DEF PttSetRight
    <2>3. /\ gone \in PttRadio /\ gone.dead = s.r.dead /\ gone.cmds = s.r.cmds
          /\ gone.keyed = s.r.keyed /\ gone.refused = s.r.refused
      BY <2>2 DEF PttRadio
    <2> HIDE DEF gone
    <2>4. ~radio.dead => PttLast(gone)
      BY <1>5, <1>6, <2>1, <2>3 DEF PttLast, PttSetRight
    <2> QED
      BY <1>3, <1>4, <1>6, <1>11, <2>1, <2>3, <2>4, PttClosedFields
      DEF PttInv, PttTypes, PttOnTheWay, PttLastWord, PttInStep, PttKeyedOrFault, PttSetRight
  <1>12. CASE PttProtocol(c) /\ ~s.p.fault /\ ptt' = s.p /\ radio' = s.r
    <2>1. PttSetRight(p, r, no, s) /\ c.method # "bad"
      BY <1>8, <1>12 DEF PttProtocol
    <2>2. Verdict(r.answers) = "silence"
      BY <1>6 DEF Verdict
    <2>3. PttTypes'
      BY <1>3, <1>4, <1>7, <1>12, <2>1 DEF PttInv, PttTypes, PttSetRight, PttShape
    <2>4. PttInStep'
      BY <1>4, <1>6, <1>7, <1>12, <2>1, <2>2 DEF PttInStep, PttSetRight
    <2>5. ptt'.keyed = FALSE
      BY <1>5, <1>12, <2>1 DEF PttSetRight, PttShape
    <2>6. PttLastWord'
      BY <1>4, <1>5, <1>6, <1>12, <2>1 DEF PttLastWord, PttSetRight
    <2> QED
      BY <1>4, <1>12, <2>3, <2>4, <2>5, <2>6 DEF PttInv, PttOnTheWay, PttKeyedOrFault
  <1>13. CASE c.method \in {"rts", "dtr"} /\ ptt' = p /\ radio' = down
    <2>1. ~PttProtocol(c) /\ ~PttWaits(c) /\ c.method # "bad"
      BY <1>13 DEF PttProtocol, PttWaits
    <2>2. down.cmds = <<>>
      BY <1>6, <2>1 DEF PttInv, PttOnTheWay
    <2>3. PttLast(down)
      BY <1>5, <1>6, <2>2 DEF PttLast
    <2>4. PttTypes'
      BY <1>3, <1>4, <1>6, <1>7, <1>13, <2>1 DEF PttInv, PttTypes, PttShape
    <2> QED
      BY <1>4, <1>5, <1>7, <1>13, <2>1, <2>2, <2>3, <2>4
      DEF PttInv, PttOnTheWay, PttLastWord, PttInStep, PttKeyedOrFault
  <1>14. CASE c.method \in {"none", "cm108"} /\ ptt' = p /\ UNCHANGED radio
    <2>1. ~PttProtocol(c) /\ ~PttWaits(c) /\ c.method # "bad"
      BY <1>14 DEF PttProtocol, PttWaits
    <2>4. PttTypes'
      BY <1>2, <1>3, <1>4, <1>7, <1>14, <2>1 DEF PttInv, PttTypes, PttShape
    <2> QED
      BY <1>3, <1>4, <1>5, <1>7, <1>9, <1>14, <2>1, <2>4
      DEF PttInv, PttOnTheWay, PttLastWord, PttInStep, PttKeyedOrFault
  <1> QED BY <1>1, <1>10, <1>11, <1>12, <1>13, <1>14

-----------------------------------------------------------------------------
(* The theorems. *)

\* Whatever the operator configured and whenever the radio answered, the
\* states of the device and its radio stay within the invariant.
THEOREM PttInvariant == PttSpec => []PttInv
  <1>1. PttInit => PttInv
    BY PttInitInv
  <1>2. PttInv /\ [PttNext]_pttVars => PttInv'
    <2> SUFFICES ASSUME PttInv, [PttNext]_pttVars PROVE PttInv'
      OBVIOUS
    <2>1. CASE UNCHANGED pttVars
      BY <2>1 DEF pttVars, PttInv, PttTypes, PttOnTheWay, PttLastWord, PttLast, PttInStep,
                  PttKeyedOrFault, PttConfigured, PttWaits
    <2>2. CASE \E prompt \in BOOLEAN : PttOpen(prompt)
      BY <2>2, PttOpenKeeps
    <2>3. CASE \E key, prompt \in BOOLEAN : PttKey(key, prompt)
      BY <2>3, PttKeyKeeps
    <2>4. CASE \E prompt \in BOOLEAN : PttClose(prompt)
      BY <2>4, PttCloseKeeps
    <2>5. CASE PttKilled
      BY <2>5, PttKilledKeeps
    <2>6. CASE RadioLate
      BY <2>6, PttLateKeeps
    <2>7. CASE RadioDies
      BY <2>7, PttDiesKeeps
    <2> QED BY <2>1, <2>2, <2>3, <2>4, <2>5, <2>6, <2>7 DEF PttNext
  <1> QED BY <1>1, <1>2, PTL DEF PttSpec

\* No radio is silent or keyed behind the program's back: a key believed and
\* not faulted is on the air, and a device let go leaves no transmitter on.
THEOREM PttIsSafe == PttSpec => []PttSafe
  <1>1. PttInv => PttSafe
    <2> SUFFICES ASSUME PttInv, ptt = PttClosed, radio.cmds = <<>>, radio.keyed
                 PROVE  \/ radio.refused
                        \/ radio.dead
                        \/ pttLeft.killed /\ PttConfigured.method \notin {"rts", "dtr"}
      BY DEF PttSafe, PttLetGo, PttInv, PttConfigured
    <2>1. ptt.keyed = FALSE
      BY PttClosedFields
    <2> QED BY <2>1 DEF PttInv, PttLastWord, PttLast
  <1> QED BY <1>1, PttInvariant, PTL

-----------------------------------------------------------------------------
(* The TCP server (HostTcp). *)

TcpSpec == TcpInit /\ [][TcpNext]_tcpVars

TcpMessages == [from : {"c1", "c2", "tnc", "modem"}, n : Nat, len : Nat \ {0}]
TcpUnit == [m : TcpMessages, i : Nat \ {0}]
TcpPeer == [st : {"away", "pending", "open", "refused", "dropped"},
            up : Seq(TcpUnit), down : Seq(TcpUnit), saw : Seq(TcpUnit), owed : Seq(TcpUnit),
            wrote : Nat, half : Nat, closed : BOOLEAN]
TcpChan == [fd : {"none", "c1", "c2"}, in : Seq(TcpUnit), out : Seq(TcpUnit),
            did : Seq(Seq(TcpUnit)), stale : BOOLEAN, cli : [TcpClients -> TcpPeer]]
TcpAllowed == [channels : SUBSET {"cmd", "data"}, clients : SUBSET {"c1", "c2"}, told : Nat,
               writes : Nat, leaves : Nat, len : Nat \ {0}]

TcpSeen(s) == s.saw \o s.down
TcpStream(k, c) == IF k.fd = c THEN k.in \o k.cli[c].up ELSE k.cli[c].up

\* Towards the clients: what one has seen and what is queued for it is what
\* it was meant to get.
TcpPeerKnown(k, c) ==
    /\ k.cli[c].st = "open" <=> k.fd = c
    /\ Len(k.cli[c].down) <= TcpSock
    /\ k.cli[c].st \in {"away", "pending"} =>
          k.cli[c].saw = <<>> /\ k.cli[c].down = <<>> /\ k.cli[c].owed = <<>>
    /\ \E rest \in Seq(TcpUnit) : TcpSeen(k.cli[c]) \o rest = k.cli[c].owed
TcpPeerRight(k, c) ==
    /\ TcpPeerKnown(k, c)
    /\ k.fd = c => TcpSeen(k.cli[c]) \o k.out = k.cli[c].owed
TcpOutRight(k) ==
    /\ k \in TcpChan
    /\ Len(k.in) <= TcpBuf
    /\ k.fd = "none" => k.out = <<>>
    /\ \A c \in TcpClients : TcpPeerRight(k, c)

\* From the clients: one unit follows another, a message at a time.
TcpFollows(u, v) == IF u.i = u.m.len THEN v.i = 1 ELSE v.m = u.m /\ v.i = u.i + 1
TcpFlow(s) ==
    /\ s # <<>> => s[1].i = 1
    /\ \A j \in 1..(Len(s) - 1) : TcpFollows(s[j], s[j + 1])
    /\ \A j \in 1..Len(s) : s[j].i <= s[j].m.len /\ s[j].m.len <= TcpBuf
TcpOpenEnded(s) == \A j \in 1..Len(s) : s[j].i # s[j].m.len
TcpLenOf(ch, len, wrote) == IF ch = "data" /\ wrote = 0 THEN len ELSE 2

\* Where the client is in its own writing agrees with the last of it.
TcpAtHalf(ch, len, c, s, stream) ==
    IF s.half = 0 THEN stream # <<>> => stream[Len(stream)].i = stream[Len(stream)].m.len
    ELSE /\ s.half < TcpLenOf(ch, len, s.wrote)
         /\ stream # <<>>
         /\ stream[Len(stream)] = [m |-> TcpMsg(c, s.wrote + 1, TcpLenOf(ch, len, s.wrote)),
                                   i |-> s.half]
TcpWrites(ch, len, c, s, stream) ==
    TcpFlow(stream) /\ (~s.closed => TcpAtHalf(ch, len, c, s, stream))
TcpClientRight(ch, len, k, c) ==
    /\ k.cli[c].st \in {"pending", "open"} =>
          TcpWrites(ch, len, c, k.cli[c], TcpStream(k, c))
    /\ k.cli[c].st = "away" => k.cli[c].up = <<>> /\ k.cli[c].half = 0
TcpAllWhole(did) == \A j \in 1..Len(did) : TcpWhole(did[j])
TcpInRight(ch, len, k) ==
    /\ k.fd = "none" => k.in = <<>>
    /\ TcpOpenEnded(k.in)
    /\ TcpAllWhole(k.did)
    /\ \A c \in TcpClients : TcpClientRight(ch, len, k, c)

\* The two cases that are left out.
TcpClear(ch, len, k) == ~k.stale /\ (ch = "data" => len <= TcpBuf)

\* A client is never past the end of what it writes.
TcpHalfFits(ch, len, k) ==
    \A c \in TcpClients : k.cli[c].half < TcpLenOf(ch, len, k.cli[c].wrote)
TcpChanInv(ch, len, k) ==
    /\ TcpOutRight(k)
    /\ TcpHalfFits(ch, len, k)
    /\ TcpClear(ch, len, k) => TcpInRight(ch, len, k)

TcpDone(m, did) == \E i \in 1..Len(did) : did[i] = TcpUnits(m)
TcpInv ==
    /\ tcp \in [TcpChannels -> TcpChan]
    /\ tcpLeft \in TcpAllowed
    /\ tcpTurn \in TcpChannels
    /\ \A ch \in TcpChannels : TcpChanInv(ch, tcpLeft.len, tcp[ch])
    /\ (tcpTurn = "cmd" /\ TcpClear("data", tcpLeft.len, tcp["data"])) =>
          \A m \in tcpOwed : TcpDone(m, tcp["data"].did)

-----------------------------------------------------------------------------
(* Streams of units. *)

\* What is left out at the front or the back leaves a stream one, when the
\* front ends with a message.
LEMMA TcpFlowBack ==
    ASSUME NEW a \in Seq(TcpUnit), NEW b \in Seq(TcpUnit), TcpFlow(a \o b)
    PROVE  TcpFlow(a)
  <1> DEFINE s == a \o b
  <1>1. /\ Len(s) = Len(a) + Len(b) /\ Len(a) \in Nat /\ Len(b) \in Nat
        /\ \A j \in 1..Len(a) : s[j] = a[j]
    OBVIOUS
  <1> HIDE DEF s
  <1>2. TcpFlow(s)
    BY DEF s
  <1>3. a # <<>> => a[1].i = 1
    <2>1. a # <<>> => s # <<>> /\ Len(a) >= 1
      BY <1>1
    <2> QED BY <1>1, <1>2, <2>1 DEF TcpFlow
  <1>4. ASSUME NEW j \in 1..(Len(a) - 1) PROVE TcpFollows(a[j], a[j + 1])
    <2>1. j \in 1..(Len(s) - 1) /\ j \in 1..Len(a) /\ j + 1 \in 1..Len(a)
      BY <1>1
    <2> QED BY <1>1, <1>2, <2>1 DEF TcpFlow
  <1>5. \A j \in 1..Len(a) : a[j].i <= a[j].m.len /\ a[j].m.len <= TcpBuf
    <2>1. \A j \in 1..Len(a) : j \in 1..Len(s)
      BY <1>1
    <2> QED BY <1>1, <1>2, <2>1 DEF TcpFlow
  <1> QED BY <1>3, <1>4, <1>5 DEF TcpFlow

LEMMA TcpFlowFront ==
    ASSUME NEW a \in Seq(TcpUnit), NEW b \in Seq(TcpUnit), TcpFlow(a \o b),
           a # <<>> => a[Len(a)].i = a[Len(a)].m.len
    PROVE  TcpFlow(b)
  <1> DEFINE s == a \o b
             n == Len(a)
  <1>1. /\ Len(s) = n + Len(b) /\ n \in Nat /\ Len(b) \in Nat
        /\ \A j \in 1..n : s[j] = a[j]
        /\ \A j \in 1..Len(b) : s[n + j] = b[j]
    OBVIOUS
  <1> HIDE DEF s
  <1>2. TcpFlow(s)
    BY DEF s
  <1>3. b # <<>> => b[1].i = 1
    <2> SUFFICES ASSUME b # <<>> PROVE b[1].i = 1
      OBVIOUS
    <2>1. Len(b) >= 1 /\ b[1] = s[n + 1] /\ s # <<>>
      BY <1>1
    <2>2. CASE n = 0
      BY <1>2, <2>1, <2>2 DEF TcpFlow
    <2>3. CASE n > 0
      <3>1. n \in 1..(Len(s) - 1) /\ s[n] = a[n] /\ a # <<>>
        BY <1>1, <2>1, <2>3
      <3>2. TcpFollows(s[n], s[n + 1])
        BY <1>2, <3>1 DEF TcpFlow
      <3> QED BY <2>1, <3>1, <3>2 DEF TcpFollows
    <2> QED BY <1>1, <2>2, <2>3
  <1> HIDE DEF n
  <1>4. ASSUME NEW j \in 1..(Len(b) - 1) PROVE TcpFollows(b[j], b[j + 1])
    <2>1. n + j \in 1..(Len(s) - 1) /\ j \in 1..Len(b) /\ j + 1 \in 1..Len(b)
          /\ n + (j + 1) = (n + j) + 1
      BY <1>1
    <2>2. TcpFollows(s[n + j], s[(n + j) + 1])
      BY <1>2, <2>1 DEF TcpFlow
    <2>3. s[n + j] = b[j] /\ s[(n + j) + 1] = b[j + 1]
      BY SMTT(30), <1>1, <2>1
    <2> QED BY <2>2, <2>3
  <1>5. ASSUME NEW j \in 1..Len(b) PROVE b[j].i <= b[j].m.len /\ b[j].m.len <= TcpBuf
    <2>1. n + j \in 1..Len(s) /\ s[n + j] = b[j]
      BY <1>1
    <2> QED BY <1>2, <2>1 DEF TcpFlow
  <1> QED BY <1>3, <1>4, <1>5 DEF TcpFlow

\* The units of a stream's first message come in order.
LEMMA TcpFlowFirst ==
    ASSUME NEW s \in Seq(TcpUnit), TcpFlow(s), s # <<>>
    PROVE  \A j \in 1..Len(s) : j <= s[1].m.len => s[j].m = s[1].m /\ s[j].i = j
  <1> DEFINE n == Len(s) - 1
             S == {i \in 0..n : i + 1 <= s[1].m.len => s[i + 1].m = s[1].m /\ s[i + 1].i = i + 1}
  <1>1. Len(s) \in Nat /\ Len(s) >= 1 /\ n \in Nat /\ \A j \in 1..Len(s) : s[j] \in TcpUnit
    OBVIOUS
  <1>2. 0 \in S
    BY <1>1 DEF TcpFlow
  <1>3. ASSUME NEW i \in 0..n, i \in S, i < n PROVE i + 1 \in S
    <2> SUFFICES ASSUME (i + 1) + 1 <= s[1].m.len
                 PROVE  s[(i + 1) + 1].m = s[1].m /\ s[(i + 1) + 1].i = (i + 1) + 1
      BY <1>1, <1>3
    <2>1. i + 1 \in 1..(Len(s) - 1) /\ s[1].m.len \in Nat
      <3>1. s[1] \in TcpUnit /\ i + 1 \in 1..(Len(s) - 1)
        BY <1>1, <1>3
      <3> QED BY <3>1 DEF TcpUnit, TcpMessages
    <2>2. TcpFollows(s[i + 1], s[(i + 1) + 1])
      BY <2>1 DEF TcpFlow
    <2>3. s[i + 1].m = s[1].m /\ s[i + 1].i = i + 1
      BY <1>3, <2>1
    <2> QED BY <2>1, <2>2, <2>3 DEF TcpFollows
  <1> HIDE DEF n
  <1>4. \A i \in 0..n : i \in S
    BY <1>1, <1>2, <1>3, UptoClosed
  <1>5. ASSUME NEW j \in 1..Len(s), j <= s[1].m.len PROVE s[j].m = s[1].m /\ s[j].i = j
    <2>1. j - 1 \in 0..n /\ (j - 1) + 1 = j
      BY <1>1 DEF n
    <2> QED BY <1>4, <1>5, <2>1
  <1> QED BY <1>5

\* A stream that holds its first message starts with it whole; one that does
\* not ends no message.
LEMMA TcpFlowWhole ==
    ASSUME NEW s \in Seq(TcpUnit), TcpFlow(s), s # <<>>
    PROVE  /\ Len(s) >= s[1].m.len =>
                 /\ SubSeq(s, 1, s[1].m.len) = TcpUnits(s[1].m)
                 /\ s[s[1].m.len].i = s[1].m.len /\ s[s[1].m.len].m = s[1].m
           /\ Len(s) < s[1].m.len => TcpOpenEnded(s)
  <1>1. s[1] \in TcpUnit /\ s[1].m.len \in Nat /\ s[1].m.len > 0 /\ Len(s) \in Nat
    <2>1. s[1] \in TcpUnit /\ Len(s) \in Nat
      OBVIOUS
    <2> QED BY <2>1 DEF TcpUnit, TcpMessages
  <1>2. \A j \in 1..Len(s) : j <= s[1].m.len => s[j].m = s[1].m /\ s[j].i = j
    BY TcpFlowFirst
  <1>3. ASSUME Len(s) >= s[1].m.len
        PROVE  SubSeq(s, 1, s[1].m.len) = TcpUnits(s[1].m)
    <2> DEFINE n == s[1].m.len
    <2>1. SubSeq(s, 1, n) = [j \in 1..n |-> s[j]]
      BY <1>1, <1>3
    <2>2. \A j \in 1..n : s[j] = [m |-> s[1].m, i |-> j]
      <3> TAKE j \in 1..n
      <3>1. j \in 1..Len(s) /\ j <= n
        BY <1>1, <1>3
      <3>2. s[j] \in TcpUnit
        BY <3>1
      <3> QED BY <1>2, <3>1, <3>2 DEF TcpUnit
    <2> QED BY <2>1, <2>2 DEF TcpUnits
  <1>4. Len(s) < s[1].m.len => TcpOpenEnded(s)
    BY <1>1, <1>2 DEF TcpOpenEnded
  <1>5. ASSUME Len(s) >= s[1].m.len
        PROVE  s[s[1].m.len].i = s[1].m.len /\ s[s[1].m.len].m = s[1].m
    <2>1. s[1].m.len \in 1..Len(s) /\ s[1].m.len <= s[1].m.len
      BY <1>1, <1>5
    <2> QED BY <1>2, <2>1
  <1> QED BY <1>3, <1>4, <1>5

-----------------------------------------------------------------------------
(* The queue towards a client. *)

\* What an outbound operation leaves as it is.
TcpSameIn(t, k) ==
    /\ t.in = k.in /\ t.did = k.did
    /\ \A c \in TcpClients :
          /\ t.cli[c].up = k.cli[c].up /\ t.cli[c].wrote = k.cli[c].wrote
          /\ t.cli[c].half = k.cli[c].half /\ (t.cli[c].closed <=> k.cli[c].closed)

\* Attached and nothing dropped.
TcpKept(t, k) ==
    /\ TcpOutRight(t) /\ TcpSameIn(t, k)
    /\ t.fd = k.fd /\ (t.stale <=> k.stale)
    /\ \A c \in TcpClients : t.cli[c].st = k.cli[c].st

\* The client of the channel is let go.
TcpGone(t, k) ==
    /\ TcpOutRight(t) /\ TcpSameIn(t, k) /\ t.fd = "none" /\ t.stale

LEMMA TcpCat ==
    ASSUME NEW a \in Seq(TcpUnit), NEW b \in Seq(TcpUnit), NEW c \in Seq(TcpUnit)
    PROVE  /\ a \o b \in Seq(TcpUnit)
           /\ (a \o b) \o c = a \o (b \o c)
           /\ a \o <<>> = a /\ <<>> \o a = a
  BY ConcatAssociative, ConcatProperties, ConcatEmptySeq

LEMMA TcpCut ==
    ASSUME NEW a \in Seq(TcpUnit), NEW n \in 0..Len(a)
    PROVE  /\ SubSeq(a, 1, n) \in Seq(TcpUnit) /\ SubSeq(a, n + 1, Len(a)) \in Seq(TcpUnit)
           /\ SubSeq(a, 1, n) \o SubSeq(a, n + 1, Len(a)) = a
           /\ Len(SubSeq(a, 1, n)) = n /\ Len(SubSeq(a, n + 1, Len(a))) = Len(a) - n
           /\ \A j \in 1..n : SubSeq(a, 1, n)[j] = a[j]
           /\ \A j \in 1..(Len(a) - n) : SubSeq(a, n + 1, Len(a))[j] = a[n + j]
  <1>1. Len(a) \in Nat /\ n \in Nat /\ n <= Len(a) /\ a = [j \in 1..Len(a) |-> a[j]]
        /\ \A j \in 1..Len(a) : a[j] \in TcpUnit
    OBVIOUS
  <1>2. /\ SubSeq(a, 1, n) \in Seq(TcpUnit) /\ Len(SubSeq(a, 1, n)) = n
        /\ \A j \in 1..n : SubSeq(a, 1, n)[j] = a[j]
    BY <1>1
  <1>3. /\ SubSeq(a, n + 1, Len(a)) \in Seq(TcpUnit)
        /\ Len(SubSeq(a, n + 1, Len(a))) = Len(a) - n
        /\ \A j \in 1..(Len(a) - n) : SubSeq(a, n + 1, Len(a))[j] = a[n + j]
    BY <1>1
  <1> DEFINE x == SubSeq(a, 1, n)
             y == SubSeq(a, n + 1, Len(a))
  <1> HIDE DEF x, y
  <1>4. x \o y = a
    <2>1. /\ x \in Seq(TcpUnit) /\ Len(x) = n /\ \A j \in 1..n : x[j] = a[j]
          /\ y \in Seq(TcpUnit) /\ Len(y) = Len(a) - n
          /\ \A j \in 1..(Len(a) - n) : y[j] = a[n + j]
      BY <1>2, <1>3 DEF x, y
    <2>2. /\ Len(x \o y) = Len(x) + Len(y) /\ x \o y \in Seq(TcpUnit)
          /\ \A j \in 1..(Len(x) + Len(y)) :
                (x \o y)[j] = IF j <= Len(x) THEN x[j] ELSE y[j - Len(x)]
      BY <2>1, ConcatProperties
    <2>2a. Len(x \o y) = Len(a)
      BY <1>1, <2>1, <2>2
    <2>3. ASSUME NEW j \in 1..Len(a) PROVE (x \o y)[j] = a[j]
      <3>1. CASE j <= n
        BY <1>1, <2>1, <2>2, <3>1
      <3>2. CASE j > n
        <4>1. j - n \in 1..(Len(a) - n) /\ n + (j - n) = j
          BY <1>1, <3>2
        <4>2. (x \o y)[j] = y[j - n]
          BY <1>1, <2>1, <2>2, <3>2
        <4>3. y[j - n] = a[n + (j - n)]
          BY <2>1, <4>1
        <4>4. y[j - n] = a[j]
          BY <4>1, <4>3, Zenon
        <4> QED BY <4>2, <4>4, Zenon
      <3>3. j <= n \/ j > n
        BY <1>1
      <3> QED BY <3>1, <3>2, <3>3
    <2> QED BY <2>2, <2>2a, <2>3, SeqEqual
  <1> QED BY <1>2, <1>3, <1>4 DEF x, y

LEMMA TcpMin ==
    ASSUME NEW a \in Nat, NEW b \in Nat
    PROVE  Min({a, b}) \in Nat /\ Min({a, b}) <= a /\ Min({a, b}) <= b
           /\ (Min({a, b}) = a \/ Min({a, b}) = b)
  <1>1. \E x \in {a, b} : \A y \in {a, b} : x <= y
    OBVIOUS
  <1> QED BY <1>1 DEF Min

\* A channel with another queue and one of its clients changed.
TcpWith(k, o, c, p) == [k EXCEPT !.out = o, !.cli = [k.cli EXCEPT ![c] = p]]

LEMMA TcpChanWith ==
    ASSUME NEW k \in TcpChan, NEW o \in Seq(TcpUnit), NEW c \in TcpClients, NEW p \in TcpPeer
    PROVE  /\ TcpWith(k, o, c, p) \in TcpChan
           /\ TcpWith(k, o, c, p).fd = k.fd /\ TcpWith(k, o, c, p).in = k.in
           /\ TcpWith(k, o, c, p).out = o /\ TcpWith(k, o, c, p).did = k.did
           /\ (TcpWith(k, o, c, p).stale <=> k.stale)
           /\ TcpWith(k, o, c, p).cli[c] = p
           /\ \A e \in TcpClients \ {c} : TcpWith(k, o, c, p).cli[e] = k.cli[e]
  BY DEF TcpChan, TcpWith

\* What the socket takes.
LEMMA TcpFlushKeeps ==
    ASSUME NEW k, TcpOutRight(k), k.fd # "none"
    PROVE  TcpKept(TcpFlush(k), k)
  <1> DEFINE c == k.fd
             s == k.cli[c]
             n == Min({Len(k.out), TcpSock - Len(s.down)})
             x == SubSeq(k.out, 1, n)
             o == SubSeq(k.out, n + 1, Len(k.out))
             d == s.down \o x
             p == [s EXCEPT !.down = d]
             t == TcpFlush(k)
             t2 == TcpWith(k, o, c, p)
             down == s.down
             saw == s.saw
             out == k.out
  <1>1. k \in TcpChan /\ c \in TcpClients /\ s \in TcpPeer
    BY DEF TcpOutRight, TcpChan, TcpClients
  <1>2. t = t2
    BY <1>1 DEF TcpFlush, TcpChan, TcpPeer, TcpWith
  <1>3. /\ down \in Seq(TcpUnit) /\ saw \in Seq(TcpUnit) /\ s.owed \in Seq(TcpUnit)
        /\ out \in Seq(TcpUnit) /\ TcpSock \in Nat
    BY <1>1, TcpAssumption DEF TcpPeer, TcpChan
  <1>4. TcpPeerRight(k, c) /\ s = k.cli[c] /\ k.fd = c /\ Len(down) <= TcpSock
    BY <1>1 DEF TcpOutRight, TcpPeerRight, TcpPeerKnown
  <1>5. TcpSeen(s) \o out = s.owed
    BY <1>4 DEF TcpPeerRight, TcpPeerKnown
  <1>6. d = down \o x /\ TcpSeen(s) = saw \o down
    BY DEF TcpSeen
  <1>6a. n = Min({Len(out), TcpSock - Len(down)})
    OBVIOUS
  <1>6b. x = SubSeq(out, 1, n) /\ o = SubSeq(out, n + 1, Len(out))
    OBVIOUS
  <1> HIDE DEF n, x, o, d, down, saw, out, c, s
  <1>7. n \in 0..Len(out) /\ Len(down) + n <= TcpSock
    <2>1. Len(out) \in Nat /\ Len(down) \in Nat /\ TcpSock - Len(down) \in Nat
      BY <1>3, <1>4
    <2> DEFINE lo == Len(out)
               ro == TcpSock - Len(down)
    <2>2. lo \in Nat /\ ro \in Nat /\ n = Min({lo, ro})
      BY <1>6a, <2>1
    <2> HIDE DEF lo, ro
    <2>3. Min({lo, ro}) \in Nat /\ Min({lo, ro}) <= lo /\ Min({lo, ro}) <= ro
      <3>1. lo \in Nat /\ ro \in Nat
        BY <2>2
      <3> QED BY <3>1, TcpMin
    <2>4. n \in Nat /\ n <= lo /\ n <= ro
      BY <2>2, <2>3
    <2>5. TcpSock \in Nat
      BY <1>3
    <2> QED BY <2>1, <2>4, <2>5 DEF lo, ro
  <1>8. /\ o \in Seq(TcpUnit) /\ x \in Seq(TcpUnit) /\ x \o o = out /\ Len(x) = n
    BY <1>3, <1>6b, <1>7, TcpCut
  <1>9. d \in Seq(TcpUnit) /\ Len(d) <= TcpSock /\ d \o o = down \o out
    <2>1. (down \o x) \o o = down \o (x \o o) /\ down \o x \in Seq(TcpUnit)
      <3>1. down \in Seq(TcpUnit) /\ x \in Seq(TcpUnit) /\ o \in Seq(TcpUnit)
        BY <1>3, <1>8
      <3> QED BY <3>1, TcpCat
    <2>2. Len(down \o x) = Len(down) + n
      BY <1>3, <1>8, ConcatProperties
    <2> QED BY <1>6, <1>7, <1>8, <2>1, <2>2
  <1>10. /\ p \in TcpPeer /\ p.down = d /\ p.st = s.st /\ p.up = s.up /\ p.saw = saw
         /\ p.owed = s.owed /\ p.wrote = s.wrote /\ p.half = s.half /\ (p.closed <=> s.closed)
    BY <1>1, <1>9 DEF TcpPeer, saw
  <1> HIDE DEF p
  <1>11. /\ t2 \in TcpChan /\ t2.fd = k.fd /\ t2.in = k.in /\ t2.out = o /\ t2.did = k.did
         /\ (t2.stale <=> k.stale) /\ t2.cli[c] = p
         /\ \A e \in TcpClients \ {c} : t2.cli[e] = k.cli[e]
    <2>1. k \in TcpChan /\ o \in Seq(TcpUnit) /\ c \in TcpClients /\ p \in TcpPeer
      BY <1>1, <1>8, <1>10
    <2> QED BY <2>1, TcpChanWith
  <1> HIDE DEF t, t2
  <1>12. TcpSeen(p) \o o = s.owed
    <2>1. (saw \o down) \o out = saw \o (down \o out)
      BY <1>3, TcpCat
    <2>2. (saw \o d) \o o = saw \o (d \o o)
      <3>1. saw \in Seq(TcpUnit) /\ d \in Seq(TcpUnit) /\ o \in Seq(TcpUnit)
        BY <1>3, <1>8, <1>9
      <3> QED BY <3>1, TcpCat
    <2>3. TcpSeen(p) = saw \o d
      BY <1>10 DEF TcpSeen
    <2> QED BY <1>5, <1>6, <1>9, <2>1, <2>2, <2>3
  <1>13. TcpPeerRight(t2, c)
    <2>1. s.st = "open" /\ p.st = "open"
      BY <1>4, <1>10 DEF TcpPeerRight, TcpPeerKnown
    <2>2. \E rest \in Seq(TcpUnit) : TcpSeen(p) \o rest = p.owed
      BY <1>8, <1>10, <1>12
    <2> QED BY <1>4, <1>8, <1>9, <1>10, <1>11, <1>12, <2>1, <2>2 DEF TcpPeerRight, TcpPeerKnown
  <1>14. ASSUME NEW e \in TcpClients \ {c} PROVE TcpPeerRight(t2, e)
    <2>1. t2.cli[e] = k.cli[e] /\ TcpPeerRight(k, e) /\ t2.fd # e /\ k.fd # e
      BY <1>4, <1>11 DEF TcpOutRight
    <2> QED BY <1>11, <2>1 DEF TcpPeerRight, TcpPeerKnown
  <1>15. TcpOutRight(t2)
    BY <1>4, <1>11, <1>13, <1>14 DEF TcpOutRight
  <1>16. \A e \in TcpClients :
            /\ t2.cli[e].up = k.cli[e].up /\ t2.cli[e].wrote = k.cli[e].wrote
            /\ t2.cli[e].half = k.cli[e].half /\ (t2.cli[e].closed <=> k.cli[e].closed)
            /\ t2.cli[e].st = k.cli[e].st
    BY <1>4, <1>10, <1>11
  <1> QED
    <2>1. TcpKept(t2, k)
      BY <1>11, <1>15, <1>16 DEF TcpKept, TcpSameIn
    <2> QED BY <1>2, <2>1 DEF t

\* A client is dropped: by a queue or a send that failed, or because it ended.
LEMMA TcpDropUnsentGone ==
    ASSUME NEW k \in TcpChan, Len(k.in) <= TcpBuf, \A c \in TcpClients : TcpPeerKnown(k, c),
           k.fd # "none"
    PROVE  TcpGone(TcpDropUnsent(k), k)
  <1> DEFINE yes == TRUE
             cli == [k.cli EXCEPT ![k.fd] = [k.cli[k.fd] EXCEPT !.st = "dropped"]]
             t == [k EXCEPT !.fd = "none", !.cli = cli, !.out = <<>>, !.stale = yes]
  <1>0. yes \in BOOLEAN /\ yes
    OBVIOUS
  <1>1. k.fd \in TcpClients /\ k.cli[k.fd] \in TcpPeer /\ k.cli \in [TcpClients -> TcpPeer]
    BY DEF TcpChan, TcpClients
  <1>2. TcpDropUnsent(k) = t
    BY <1>1 DEF TcpDropUnsent, TcpDrop, TcpChan, TcpPeer
  <1> HIDE DEF yes
  <1>3. /\ cli \in [TcpClients -> TcpPeer]
        /\ \A c \in TcpClients :
              /\ cli[c].up = k.cli[c].up /\ cli[c].wrote = k.cli[c].wrote
              /\ cli[c].half = k.cli[c].half /\ (cli[c].closed <=> k.cli[c].closed)
              /\ cli[c].saw = k.cli[c].saw /\ cli[c].down = k.cli[c].down
              /\ cli[c].owed = k.cli[c].owed
              /\ cli[c].st = IF c = k.fd THEN "dropped" ELSE k.cli[c].st
    BY <1>1 DEF TcpPeer
  <1> HIDE DEF cli
  <1>4. /\ t \in TcpChan /\ t.fd = "none" /\ t.cli = cli /\ t.out = <<>> /\ t.stale
        /\ t.in = k.in /\ t.did = k.did
    <2>1. <<>> \in Seq(TcpUnit)
      OBVIOUS
    <2>2. /\ t.fd = "none" /\ t.cli = cli /\ t.out = <<>> /\ t.stale = yes
          /\ t.in = k.in /\ t.did = k.did
      BY DEF TcpChan
    <2>3. t \in TcpChan
      BY <1>0, <1>3, <2>1 DEF TcpChan
    <2> HIDE DEF t
    <2> QED BY <1>0, <2>2, <2>3
  <1> HIDE DEF t
  <1>5. ASSUME NEW c \in TcpClients PROVE TcpPeerRight(t, c)
    <2>1. TcpPeerKnown(k, c)
      OBVIOUS
    <2>2. TcpSeen(cli[c]) = TcpSeen(k.cli[c])
      BY <1>3 DEF TcpSeen
    <2>3. c # t.fd
      BY <1>4 DEF TcpClients
    <2>4. /\ cli[c].st # "open"
          /\ cli[c].st \in {"away", "pending"} => cli[c].st = k.cli[c].st
      <3>1. k.cli[c].st = "open" <=> k.fd = c
        BY <2>1 DEF TcpPeerKnown
      <3>2. cli[c].st = IF c = k.fd THEN "dropped" ELSE k.cli[c].st
        BY <1>3
      <3> QED BY <3>1, <3>2
    <2>5. /\ cli[c].saw = k.cli[c].saw /\ cli[c].down = k.cli[c].down
          /\ cli[c].owed = k.cli[c].owed /\ t.cli[c] = cli[c]
      BY <1>3, <1>4
    <2> HIDE DEF TcpSeen
    <2>6. TcpPeerKnown(t, c)
      BY <2>1, <2>2, <2>3, <2>4, <2>5 DEF TcpPeerKnown
    <2> QED BY <2>3, <2>6 DEF TcpPeerRight
  <1>6. TcpGone(t, k)
    BY <1>3, <1>4, <1>5 DEF TcpGone, TcpOutRight, TcpSameIn
  <1> QED BY <1>2, <1>6

LEMMA TcpHangUpGone ==
    ASSUME NEW k, TcpOutRight(k), k.fd # "none"
    PROVE  LET t == TcpHangUp(k)
           IN  /\ TcpOutRight(t) /\ t.fd = "none" /\ t.in = <<>> /\ t.did = k.did
               /\ (t.stale <=> k.stale)
               /\ \A c \in TcpClients :
                     /\ t.cli[c].up = k.cli[c].up /\ t.cli[c].wrote = k.cli[c].wrote
                     /\ t.cli[c].half = k.cli[c].half
                     /\ (t.cli[c].closed <=> k.cli[c].closed)
                     /\ t.cli[c].st = IF c = k.fd THEN "dropped" ELSE k.cli[c].st
  <1> DEFINE cli == [k.cli EXCEPT ![k.fd] = [k.cli[k.fd] EXCEPT !.st = "dropped"]]
             t == [k EXCEPT !.fd = "none", !.cli = cli, !.in = <<>>, !.out = <<>>]
  <1>1. /\ k \in TcpChan /\ k.fd \in TcpClients /\ k.cli[k.fd] \in TcpPeer
        /\ k.cli \in [TcpClients -> TcpPeer]
    BY DEF TcpChan, TcpClients, TcpOutRight
  <1>2. TcpHangUp(k) = t
    BY <1>1 DEF TcpHangUp, TcpDrop, TcpChan, TcpPeer
  <1>3. /\ cli \in [TcpClients -> TcpPeer]
        /\ \A c \in TcpClients :
              /\ cli[c].up = k.cli[c].up /\ cli[c].wrote = k.cli[c].wrote
              /\ cli[c].half = k.cli[c].half /\ (cli[c].closed <=> k.cli[c].closed)
              /\ cli[c].saw = k.cli[c].saw /\ cli[c].down = k.cli[c].down
              /\ cli[c].owed = k.cli[c].owed
              /\ cli[c].st = IF c = k.fd THEN "dropped" ELSE k.cli[c].st
    BY <1>1 DEF TcpPeer
  <1> HIDE DEF cli
  <1>4. /\ t \in TcpChan /\ t.fd = "none" /\ t.cli = cli /\ t.out = <<>>
        /\ (t.stale <=> k.stale) /\ t.in = <<>> /\ t.did = k.did
    <2>1. <<>> \in Seq(TcpUnit)
      OBVIOUS
    <2>2. /\ t.fd = "none" /\ t.cli = cli /\ t.out = <<>> /\ t.stale = k.stale
          /\ t.in = <<>> /\ t.did = k.did
      BY <1>1 DEF TcpChan
    <2>3. t \in TcpChan
      BY <1>1, <1>3, <2>1 DEF TcpChan
    <2> HIDE DEF t
    <2> QED BY <2>2, <2>3
  <1> HIDE DEF t
  <1>5. ASSUME NEW c \in TcpClients PROVE TcpPeerRight(t, c)
    <2>1. TcpPeerKnown(k, c)
      BY DEF TcpOutRight, TcpPeerRight
    <2>2. TcpSeen(cli[c]) = TcpSeen(k.cli[c])
      BY <1>3 DEF TcpSeen
    <2>3. c # t.fd
      BY <1>4 DEF TcpClients
    <2>4. /\ cli[c].st # "open"
          /\ cli[c].st \in {"away", "pending"} => cli[c].st = k.cli[c].st
      <3>1. k.cli[c].st = "open" <=> k.fd = c
        BY <2>1 DEF TcpPeerKnown
      <3>2. cli[c].st = IF c = k.fd THEN "dropped" ELSE k.cli[c].st
        BY <1>3
      <3> QED BY <3>1, <3>2
    <2>5. /\ cli[c].saw = k.cli[c].saw /\ cli[c].down = k.cli[c].down
          /\ cli[c].owed = k.cli[c].owed /\ t.cli[c] = cli[c]
      BY <1>3, <1>4
    <2> HIDE DEF TcpSeen
    <2>6. TcpPeerKnown(t, c)
      BY <2>1, <2>2, <2>3, <2>4, <2>5 DEF TcpPeerKnown
    <2> QED BY <2>3, <2>6 DEF TcpPeerRight
  <1>6. TcpOutRight(t)
    BY <1>4, <1>5, TcpAssumption DEF TcpOutRight
  <1> QED BY <1>2, <1>3, <1>4, <1>6

LEMMA TcpUnitsSeq ==
    ASSUME NEW m \in TcpMessages
    PROVE  /\ TcpUnits(m) \in Seq(TcpUnit) /\ Len(TcpUnits(m)) = m.len /\ TcpUnits(m) # <<>>
           /\ \A j \in 1..m.len : TcpUnits(m)[j] = [m |-> m, i |-> j]
  <1>1. m.len \in Nat /\ m.len > 0
    BY DEF TcpMessages
  <1>2. \A j \in 1..m.len : [m |-> m, i |-> j] \in TcpUnit
    BY DEF TcpUnit
  <1> QED BY <1>1, <1>2 DEF TcpUnits

LEMMA TcpSameTrans ==
    ASSUME NEW t, NEW q, NEW k, TcpSameIn(q, k)
    PROVE  /\ TcpGone(t, q) => TcpGone(t, k)
           /\ (TcpKept(t, q) /\ TcpKept(q, k)) => TcpKept(t, k)
  BY DEF TcpGone, TcpKept, TcpSameIn

\* A message for the client is queued, and what the socket takes of it sent;
\* a client that cannot take it is dropped.
LEMMA TcpEmitKeeps ==
    ASSUME NEW k, TcpOutRight(k), k.fd # "none", NEW m \in TcpMessages, NEW fails \in BOOLEAN
    PROVE  TcpKept(TcpEmit(k, m, fails), k) \/ TcpGone(TcpEmit(k, m, fails), k)
  <1> DEFINE c == k.fd
             s == k.cli[c]
             owed == s.owed
             out == k.out
             u == TcpUnits(m)
             p == [s EXCEPT !.owed = owed \o u]
             t == TcpWith(k, out, c, p)
             q == TcpWith(k, out \o u, c, p)
  <1>1. k \in TcpChan /\ c \in TcpClients /\ s \in TcpPeer /\ Len(k.in) <= TcpBuf
    BY DEF TcpOutRight, TcpChan, TcpClients
  <1>2. TcpEmit(k, m, fails) = IF m.len > TcpOut - Len(out) THEN TcpDropUnsent(t)
                               ELSE IF fails THEN TcpDropUnsent(q) ELSE TcpFlush(q)
    <2>1. [k EXCEPT !.cli[k.fd].owed = @ \o TcpUnits(m)] = t
      BY <1>1 DEF TcpWith, TcpChan, TcpPeer
    <2>2. [t EXCEPT !.out = @ \o TcpUnits(m)] = q
      BY <1>1 DEF TcpWith, TcpChan, TcpPeer
    <2> HIDE DEF t, q
    <2>3. TcpEmit(k, m, fails) =
             LET y == [k EXCEPT !.cli[k.fd].owed = @ \o TcpUnits(m)]
             IN  IF m.len > TcpOut - Len(k.out) THEN TcpDropUnsent(y)
                 ELSE LET z == [y EXCEPT !.out = @ \o TcpUnits(m)]
                      IN  IF fails THEN TcpDropUnsent(z) ELSE TcpFlush(z)
      BY DEF TcpEmit
    <2> QED BY <2>1, <2>2, <2>3, Zenon
  <1>3. /\ owed \in Seq(TcpUnit) /\ out \in Seq(TcpUnit) /\ u \in Seq(TcpUnit)
        /\ s.saw \in Seq(TcpUnit) /\ s.down \in Seq(TcpUnit)
    BY <1>1, TcpUnitsSeq DEF TcpPeer, TcpChan
  <1>4. TcpPeerRight(k, c) /\ s = k.cli[c] /\ k.fd = c
    BY <1>1 DEF TcpOutRight
  <1> DEFINE seen == TcpSeen(s)
  <1>5. seen \o out = owed /\ seen \in Seq(TcpUnit)
    <2>1. seen \in Seq(TcpUnit)
      BY <1>3 DEF TcpSeen
    <2>2. TcpSeen(k.cli[c]) \o k.out = k.cli[c].owed
      BY <1>4 DEF TcpPeerRight
    <2> QED BY <2>1, <2>2
  <1> HIDE DEF c, s, owed, out, u, seen
  <1>6. /\ owed \o u \in Seq(TcpUnit) /\ out \o u \in Seq(TcpUnit)
        /\ seen \o (out \o u) = owed \o u
    <2>1. owed \o u \in Seq(TcpUnit) /\ out \o u \in Seq(TcpUnit)
      BY <1>3, TcpCat
    <2>2. (seen \o out) \o u = seen \o (out \o u)
      <3>1. seen \in Seq(TcpUnit) /\ out \in Seq(TcpUnit) /\ u \in Seq(TcpUnit)
        BY <1>3, <1>5
      <3> QED BY <3>1, TcpCat
    <2> QED BY <1>5, <2>1, <2>2, Zenon
  <1>7. /\ p \in TcpPeer /\ p.down = s.down /\ p.st = s.st /\ p.up = s.up /\ p.saw = s.saw
        /\ p.owed = owed \o u /\ p.wrote = s.wrote /\ p.half = s.half
        /\ (p.closed <=> s.closed)
    BY <1>1, <1>6 DEF TcpPeer
  <1> HIDE DEF p
  <1>8. TcpSeen(p) = seen
    BY <1>7 DEF TcpSeen, seen
  <1>9. s.st = "open"
    BY <1>4 DEF TcpPeerRight, TcpPeerKnown
  <1>10. ASSUME NEW x \in {out, out \o u}
         PROVE  LET y == TcpWith(k, x, c, p)
                IN  /\ y \in TcpChan /\ TcpSameIn(y, k) /\ y.fd = c /\ (y.stale <=> k.stale)
                    /\ y.out = x /\ y.in = k.in /\ y.cli[c] = p
                    /\ \A e \in TcpClients : TcpPeerKnown(y, e) /\ y.cli[e].st = k.cli[e].st
                    /\ \A e \in TcpClients \ {c} : TcpPeerRight(y, e)
    <2> DEFINE y == TcpWith(k, x, c, p)
    <2>1. x \in Seq(TcpUnit)
      BY <1>3, <1>6
    <2>2. /\ y \in TcpChan /\ y.fd = c /\ y.in = k.in
          /\ y.out = x /\ y.did = k.did /\ (y.stale <=> k.stale) /\ y.cli[c] = p
          /\ \A e \in TcpClients \ {c} : y.cli[e] = k.cli[e]
      BY <1>1, <1>4, <1>7, <2>1, TcpChanWith
    <2> HIDE DEF y
    <2>3. \E rest \in Seq(TcpUnit) : TcpSeen(p) \o rest = p.owed
      BY <1>6, <1>7, <1>8
    <2>4. TcpPeerKnown(y, c)
      BY <1>4, <1>7, <1>9, <2>2, <2>3 DEF TcpPeerRight, TcpPeerKnown
    <2>5. ASSUME NEW e \in TcpClients \ {c} PROVE TcpPeerRight(y, e)
      <3>1. y.cli[e] = k.cli[e] /\ TcpPeerRight(k, e) /\ y.fd # e /\ k.fd # e
        BY <1>4, <2>2 DEF TcpOutRight
      <3> QED BY <2>2, <3>1 DEF TcpPeerRight, TcpPeerKnown
    <2>6. \A e \in TcpClients :
            /\ y.cli[e].up = k.cli[e].up /\ y.cli[e].wrote = k.cli[e].wrote
            /\ y.cli[e].half = k.cli[e].half /\ (y.cli[e].closed <=> k.cli[e].closed)
            /\ y.cli[e].st = k.cli[e].st
      BY <1>4, <1>7, <2>2
    <2>7. \A e \in TcpClients : TcpPeerKnown(y, e)
      BY <2>4, <2>5 DEF TcpPeerRight
    <2>8. TcpSameIn(y, k)
      BY <2>2, <2>6 DEF TcpSameIn
    <2> QED BY <2>2, <2>5, <2>6, <2>7, <2>8 DEF y
  <1>11. TcpGone(TcpDropUnsent(t), k) /\ TcpGone(TcpDropUnsent(q), k)
    <2>1. c # "none"
      BY <1>4
    <2>2. TcpGone(TcpDropUnsent(t), t)
      BY <1>1, <1>10, <2>1, TcpDropUnsentGone
    <2>3. TcpGone(TcpDropUnsent(q), q)
      BY <1>1, <1>10, <2>1, TcpDropUnsentGone
    <2>4. TcpSameIn(t, k) /\ TcpSameIn(q, k)
      BY <1>10
    <2> HIDE DEF t, q
    <2> QED BY <2>2, <2>3, <2>4, TcpSameTrans
  <1>12. TcpOutRight(q)
    <2> DEFINE x == out \o u
    <2>1. /\ q \in TcpChan /\ q.fd = c /\ q.out = x /\ q.in = k.in /\ q.cli[c] = p
          /\ TcpPeerKnown(q, c)
          /\ \A e \in TcpClients \ {c} : TcpPeerRight(q, e)
      BY <1>1, <1>10
    <2>2. TcpSeen(p) \o x = p.owed
      BY <1>6, <1>7, <1>8
    <2> HIDE DEF q, x
    <2>3. TcpPeerRight(q, c)
      BY <2>1, <2>2 DEF TcpPeerRight
    <2> QED BY <1>1, <1>4, <2>1, <2>3 DEF TcpOutRight
  <1>13. TcpKept(q, k)
    <2>1. /\ TcpSameIn(q, k) /\ q.fd = c /\ (q.stale <=> k.stale)
          /\ \A e \in TcpClients : q.cli[e].st = k.cli[e].st
      BY <1>10
    <2> HIDE DEF q
    <2> QED BY <1>4, <1>12, <2>1 DEF TcpKept
  <1> HIDE DEF t, q
  <1>14. TcpKept(TcpFlush(q), k)
    <2>1. q.fd # "none"
      BY <1>13 DEF TcpKept
    <2>2. TcpKept(TcpFlush(q), q)
      BY <1>12, <2>1, TcpFlushKeeps
    <2>3. TcpSameIn(q, k)
      BY <1>13 DEF TcpKept
    <2> QED BY <1>13, <2>2, <2>3, TcpSameTrans
  <1> QED BY <1>2, <1>11, <1>14

-----------------------------------------------------------------------------
(* What is read of a client. *)

\* With whole messages taken off its front a stream is still one, and the
\* client is where it was in its writing.
LEMMA TcpTaken ==
    ASSUME NEW ch, NEW len, NEW c, NEW s, NEW a \in Seq(TcpUnit), NEW b \in Seq(TcpUnit),
           TcpWrites(ch, len, c, s, a \o b),
           a # <<>> => a[Len(a)].i = a[Len(a)].m.len
    PROVE  TcpWrites(ch, len, c, s, b)
  <1>1. TcpFlow(b)
    BY TcpFlowFront DEF TcpWrites
  <1>2. CASE a = <<>>
    BY <1>2 DEF TcpWrites
  <1>3. CASE a # <<>>
    <2> SUFFICES ASSUME ~s.closed PROVE TcpAtHalf(ch, len, c, s, b)
      BY <1>1 DEF TcpWrites
    <2> DEFINE x == a \o b
    <2>1. /\ x # <<>> /\ Len(x) \in Nat
          /\ b # <<>> => x[Len(x)] = b[Len(b)]
          /\ b = <<>> => x[Len(x)] = a[Len(a)]
      BY <1>3
    <2>2. TcpAtHalf(ch, len, c, s, x)
      BY DEF TcpWrites
    <2> HIDE DEF x
    <2>3. CASE b = <<>>
      <3>1. s.half = 0
        <4> SUFFICES ASSUME s.half # 0 PROVE FALSE
          OBVIOUS
        <4>1. /\ s.half < TcpLenOf(ch, len, s.wrote)
              /\ a[Len(a)] = [m |-> TcpMsg(c, s.wrote + 1, TcpLenOf(ch, len, s.wrote)),
                              i |-> s.half]
          BY <2>1, <2>2, <2>3 DEF TcpAtHalf
        <4>2. a[Len(a)].i = s.half /\ a[Len(a)].m.len = TcpLenOf(ch, len, s.wrote)
          BY <4>1 DEF TcpMsg
        <4>3. a[Len(a)] \in TcpUnit
          BY <1>3
        <4>4. s.half \in Nat /\ TcpLenOf(ch, len, s.wrote) \in Nat
          BY <4>2, <4>3 DEF TcpUnit, TcpMessages
        <4> QED BY <1>3, <4>1, <4>2, <4>4
      <3> QED BY <2>3, <3>1 DEF TcpAtHalf
    <2>4. CASE b # <<>>
      BY <2>1, <2>2, <2>4 DEF TcpAtHalf
    <2> QED BY <2>3, <2>4
  <1> QED BY <1>2, <1>3

\* What was read and is not a whole message yet fits the buffer.
LEMMA TcpUnfinishedFits ==
    ASSUME NEW a \in Seq(TcpUnit), TcpFlow(a), TcpOpenEnded(a)
    PROVE  /\ Len(a) < TcpBuf
           /\ a # <<>> => Len(a) < a[1].m.len
  <1>1. CASE a = <<>>
    BY <1>1, TcpAssumption
  <1>2. CASE a # <<>>
    <2>1. a[1] \in TcpUnit /\ Len(a) \in Nat /\ Len(a) >= 1
      BY <1>2
    <2>2. a[1].m.len \in Nat /\ a[1].m.len > 0 /\ a[1].m.len <= TcpBuf
      BY <2>1 DEF TcpFlow, TcpUnit, TcpMessages
    <2>3. ~(Len(a) >= a[1].m.len)
      <3> SUFFICES ASSUME Len(a) >= a[1].m.len PROVE FALSE
        OBVIOUS
      <3> DEFINE n == a[1].m.len
      <3>1. a[n].i = n /\ a[n].m = a[1].m
        BY <1>2, TcpFlowWhole
      <3>2. n \in 1..Len(a)
        BY <2>1, <2>2
      <3>3. a[n].m.len = n
        BY <3>1
      <3> QED BY <3>1, <3>2, <3>3 DEF TcpOpenEnded
    <2> QED BY <2>1, <2>2, <2>3, TcpAssumption
  <1> QED BY <1>1, <1>2

\* One more unit: either the message is still unfinished, or it is whole.
LEMMA TcpOneMore ==
    ASSUME NEW a \in Seq(TcpUnit), NEW u \in TcpUnit, TcpFlow(Append(a, u)), TcpOpenEnded(a)
    PROVE  /\ Len(a) < TcpBuf
           /\ u.i # u.m.len => TcpOpenEnded(Append(a, u))
           /\ u.i = u.m.len => TcpWhole(Append(a, u))
  <1> DEFINE x == Append(a, u)
  <1>1. /\ x \in Seq(TcpUnit) /\ Len(x) = Len(a) + 1 /\ Len(a) \in Nat /\ x # <<>>
        /\ x[Len(x)] = u /\ \A j \in 1..Len(a) : x[j] = a[j]
    OBVIOUS
  <1>2. Len(a) < TcpBuf
    <2>1. Append(a, u) = a \o <<u>> /\ <<u>> \in Seq(TcpUnit)
      BY AppendIsConcat
    <2>2. TcpFlow(a)
      BY <2>1, TcpFlowBack
    <2> QED BY <2>2, TcpUnfinishedFits
  <1> HIDE DEF x
  <1>3. TcpFlow(x)
    BY DEF x
  <1>4. u.i # u.m.len => TcpOpenEnded(x)
    BY <1>1 DEF TcpOpenEnded
  <1>5. ASSUME u.i = u.m.len PROVE TcpWhole(x)
    <2> DEFINE n == x[1].m.len
    <2>1. x[1] \in TcpUnit
      BY <1>1
    <2>2. n \in Nat /\ n > 0
      BY <2>1 DEF TcpUnit, TcpMessages
    <2>3. Len(x) >= n
      <3>1. ~TcpOpenEnded(x)
        BY <1>1, <1>5 DEF TcpOpenEnded
      <3> QED BY <1>1, <1>3, <2>2, <3>1, TcpFlowWhole
    <2>4. SubSeq(x, 1, n) = TcpUnits(x[1].m) /\ x[n].i = x[n].m.len
      BY <1>1, <1>3, <2>3, TcpFlowWhole
    <2>5. n = Len(x)
      <3>1. n \in 1..Len(a) => x[n].i # x[n].m.len
        BY <1>1 DEF TcpOpenEnded
      <3> QED BY <1>1, <2>2, <2>3, <2>4, <3>1
    <2> HIDE DEF n
    <2>6. SubSeq(x, 1, n) = x
      BY <1>1, <2>5, SubSeqFull
    <2> QED BY <1>1, <2>4, <2>6 DEF TcpWhole
  <1> QED BY <1>2, <1>4, <1>5 DEF x

\* A channel with another buffer and another list of what was run.
TcpReadAs(k, in, did) == [k EXCEPT !.in = in, !.did = did]

LEMMA TcpReadAsKeeps ==
    ASSUME NEW k, TcpOutRight(k), NEW in \in Seq(TcpUnit), Len(in) <= TcpBuf,
           NEW did \in Seq(Seq(TcpUnit))
    PROVE  LET t == TcpReadAs(k, in, did)
           IN  /\ TcpOutRight(t) /\ t.in = in /\ t.did = did /\ t.fd = k.fd /\ t.out = k.out
               /\ t.cli = k.cli /\ (t.stale <=> k.stale)
  <1> DEFINE t == TcpReadAs(k, in, did)
  <1>1. k \in TcpChan
    BY DEF TcpOutRight
  <1>2. /\ t \in TcpChan /\ t.in = in /\ t.did = did /\ t.fd = k.fd /\ t.out = k.out
        /\ t.cli = k.cli /\ (t.stale <=> k.stale)
    BY <1>1 DEF TcpChan, TcpReadAs
  <1> HIDE DEF t
  <1>3. ASSUME NEW c \in TcpClients PROVE TcpPeerRight(t, c)
    <2>1. TcpPeerRight(k, c)
      BY DEF TcpOutRight
    <2> QED BY <1>2, <2>1 DEF TcpPeerRight, TcpPeerKnown
  <1>4. TcpOutRight(t)
    BY <1>2, <1>3 DEF TcpOutRight
  <1> QED BY <1>2, <1>4 DEF t

\* What is left in the sockets towards the server, and where the clients are.
TcpSameUp(t, k) ==
    \A c \in TcpClients :
        /\ t.cli[c].up = k.cli[c].up /\ t.cli[c].wrote = k.cli[c].wrote
        /\ t.cli[c].half = k.cli[c].half /\ (t.cli[c].closed <=> k.cli[c].closed)
TcpSameSt(t, k) ==
    /\ t.fd = k.fd /\ (t.stale <=> k.stale)
    /\ \A c \in TcpClients : t.cli[c].st = k.cli[c].st

TcpJoined(in, u) == IF Len(in) < TcpBuf THEN Append(in, u) ELSE in
TcpCharLeaves(k, u, t) ==
    /\ TcpOutRight(t)
    /\ t.in = IF u.i = u.m.len THEN <<>> ELSE TcpJoined(k.in, u)
    /\ t.did = IF u.i = u.m.len THEN Append(k.did, TcpJoined(k.in, u)) ELSE k.did
    /\ TcpSameUp(t, k)
    /\ TcpSameSt(t, k) \/ t.stale

\* One character of a line.
LEMMA TcpCharKeeps ==
    ASSUME NEW k, TcpOutRight(k), NEW u \in TcpUnit, NEW fails \in BOOLEAN
    PROVE  TcpCharLeaves(k, u, TcpChar(k, u, fails))
  <1> DEFINE in == TcpJoined(k.in, u)
             did == Append(k.did, in)
             m == TcpMsg("tnc", Len(k.did) + 1, 2)
             t == TcpReadAs(k, in, k.did)
             q == TcpReadAs(k, <<>>, did)
  <1>1. k \in TcpChan /\ Len(k.in) <= TcpBuf
    BY DEF TcpOutRight
  <1>2. in \in Seq(TcpUnit) /\ Len(in) <= TcpBuf
    <2>1. k.in \in Seq(TcpUnit) /\ TcpBuf \in Nat
      BY <1>1, TcpAssumption DEF TcpChan
    <2> QED BY <1>1, <2>1 DEF TcpJoined
  <1>3. k.did \in Seq(Seq(TcpUnit)) /\ did \in Seq(Seq(TcpUnit)) /\ Len(k.did) \in Nat
    BY <1>1, <1>2 DEF TcpChan
  <1>4. TcpChar(k, u, fails) = IF u.i = u.m.len THEN TcpEmit(q, m, fails) ELSE t
    <2> DEFINE y == IF Len(k.in) < TcpBuf THEN [k EXCEPT !.in = Append(@, u)] ELSE k
    <2>1. y = t
      BY <1>1 DEF TcpChan, TcpReadAs, TcpJoined
    <2>2. [t EXCEPT !.did = Append(@, t.in), !.in = <<>>] = q /\ t.did = k.did
      BY <1>1 DEF TcpChan, TcpReadAs
    <2>3. TcpChar(k, u, fails) = IF u.i = u.m.len THEN TcpProcessLine(y, fails) ELSE y
      BY DEF TcpChar
    <2>4. TcpProcessLine(t, fails) =
             TcpEmit([t EXCEPT !.did = Append(@, t.in), !.in = <<>>],
                     TcpMsg("tnc", Len(t.did) + 1, 2), fails)
      BY DEF TcpProcessLine
    <2> HIDE DEF y, t, q
    <2>5. TcpProcessLine(t, fails) = TcpEmit(q, TcpMsg("tnc", Len(t.did) + 1, 2), fails)
      BY <2>2, <2>4, Zenon
    <2>6. TcpMsg("tnc", Len(t.did) + 1, 2) = m
      BY <2>2
    <2> HIDE DEF m
    <2>7. TcpProcessLine(t, fails) = TcpEmit(q, m, fails)
      BY <2>5, <2>6, Zenon
    <2>8. TcpChar(k, u, fails) = IF u.i = u.m.len THEN TcpProcessLine(t, fails) ELSE t
      BY <2>1, <2>3, Zenon
    <2> QED BY <2>7, <2>8, Zenon
  <1>5. m \in TcpMessages
    BY <1>3 DEF TcpMsg, TcpMessages
  <1> HIDE DEF in, m
  <1>6. /\ TcpOutRight(t) /\ t.in = in /\ t.did = k.did /\ t.fd = k.fd
        /\ t.cli = k.cli /\ (t.stale <=> k.stale)
    BY <1>2, <1>3, TcpReadAsKeeps
  <1>7. /\ TcpOutRight(q) /\ q.in = <<>> /\ q.did = did /\ q.fd = k.fd
        /\ q.cli = k.cli /\ (q.stale <=> k.stale)
    <2>1. <<>> \in Seq(TcpUnit) /\ Len(<<>>) <= TcpBuf /\ did \in Seq(Seq(TcpUnit))
      BY <1>3, TcpAssumption
    <2> DEFINE e == <<>>
    <2>2. e \in Seq(TcpUnit) /\ Len(e) <= TcpBuf /\ q = TcpReadAs(k, e, did)
      BY <2>1
    <2> HIDE DEF did, e, q
    <2>3. LET x == TcpReadAs(k, e, did)
          IN  /\ TcpOutRight(x) /\ x.in = e /\ x.did = did /\ x.fd = k.fd /\ x.out = k.out
              /\ x.cli = k.cli /\ (x.stale <=> k.stale)
      BY <2>1, <2>2, TcpReadAsKeeps
    <2>4. /\ TcpOutRight(q) /\ q.in = e /\ q.did = did /\ q.fd = k.fd
          /\ q.cli = k.cli /\ (q.stale <=> k.stale)
      BY <2>2, <2>3, Zenon
    <2> QED BY <2>4 DEF e
  <1>8. in = TcpJoined(k.in, u)
    BY DEF in
  <1> HIDE DEF t, q
  <1>9. CASE u.i # u.m.len
    <2>1. TcpSameUp(t, k) /\ TcpSameSt(t, k)
      BY <1>6 DEF TcpSameUp, TcpSameSt
    <2>2. TcpCharLeaves(k, u, t)
      BY <1>6, <1>8, <1>9, <2>1 DEF TcpCharLeaves
    <2> QED BY <1>4, <1>9, <2>2
  <1>10. CASE u.i = u.m.len
    <2> DEFINE z == TcpEmit(q, m, fails)
    <2>1. CASE q.fd = "none"
      <3>1. z = q
        BY <2>1 DEF TcpEmit
      <3>2. TcpSameUp(q, k) /\ TcpSameSt(q, k)
        BY <1>7 DEF TcpSameUp, TcpSameSt
      <3>3. TcpCharLeaves(k, u, q)
        BY <1>7, <1>8, <1>10, <3>2 DEF TcpCharLeaves
      <3> QED BY <1>4, <1>10, <3>1, <3>3
    <2>2. CASE q.fd # "none"
      <3>1. TcpKept(z, q) \/ TcpGone(z, q)
        BY <1>5, <1>7, <2>2, TcpEmitKeeps
      <3> HIDE DEF z
      <3>2. TcpOutRight(z) /\ TcpSameIn(z, q)
        BY <3>1 DEF TcpKept, TcpGone
      <3>3. z.in = <<>> /\ z.did = did /\ TcpSameUp(z, k)
        BY <1>7, <3>2 DEF TcpSameIn, TcpSameUp
      <3>4. TcpSameSt(z, k) \/ z.stale
        BY <1>7, <3>1 DEF TcpKept, TcpGone, TcpSameSt
      <3>5. TcpCharLeaves(k, u, z)
        BY <1>8, <1>10, <3>2, <3>3, <3>4 DEF TcpCharLeaves
      <3> QED BY <1>4, <1>10, <3>5 DEF z
    <2> QED BY <2>1, <2>2
  <1> QED BY <1>9, <1>10

\* A channel with one client changed, not in what it gets to see.
TcpPeerSet(k, c, p) == [k EXCEPT !.cli = [k.cli EXCEPT ![c] = p]]
TcpSeesAs(p, s) ==
    /\ p.st = "open" <=> s.st = "open"
    /\ p.st \in {"away", "pending"} => p.saw = <<>> /\ p.down = <<>> /\ p.owed = <<>>
    /\ Len(p.down) <= TcpSock
    /\ TcpSeen(p) = TcpSeen(s) /\ p.owed = s.owed

LEMMA TcpPeerSetKeeps ==
    ASSUME NEW k, TcpOutRight(k), NEW c \in TcpClients, NEW p \in TcpPeer, TcpSeesAs(p, k.cli[c])
    PROVE  LET t == TcpPeerSet(k, c, p)
           IN  /\ TcpOutRight(t) /\ t.in = k.in /\ t.did = k.did /\ t.fd = k.fd /\ t.out = k.out
               /\ (t.stale <=> k.stale) /\ t.cli[c] = p
               /\ \A e \in TcpClients \ {c} : t.cli[e] = k.cli[e]
  <1> DEFINE t == TcpPeerSet(k, c, p)
  <1>1. k \in TcpChan
    BY DEF TcpOutRight
  <1>2. /\ t \in TcpChan /\ t.in = k.in /\ t.did = k.did /\ t.fd = k.fd /\ t.out = k.out
        /\ (t.stale <=> k.stale) /\ t.cli[c] = p
        /\ \A e \in TcpClients \ {c} : t.cli[e] = k.cli[e]
    BY <1>1 DEF TcpChan, TcpPeerSet
  <1> HIDE DEF t
  <1>3. ASSUME NEW e \in TcpClients \ {c} PROVE TcpPeerRight(t, e)
    <2>1. TcpPeerRight(k, e)
      BY DEF TcpOutRight
    <2> QED BY <1>2, <2>1 DEF TcpPeerRight, TcpPeerKnown
  <1>4. TcpPeerRight(t, c)
    <2>1. TcpPeerRight(k, c)
      BY DEF TcpOutRight
    <2> HIDE DEF TcpSeen
    <2> QED BY <1>2, <2>1 DEF TcpPeerRight, TcpPeerKnown, TcpSeesAs
  <1>5. TcpOutRight(t)
    BY <1>2, <1>3, <1>4 DEF TcpOutRight
  <1> QED BY <1>2, <1>5 DEF t

\* A channel with something else left in the socket of a client.
TcpUpSet(k, c, up) == TcpPeerSet(k, c, [k.cli[c] EXCEPT !.up = up])

LEMMA TcpUpSetKeeps ==
    ASSUME NEW k, TcpOutRight(k), NEW c \in TcpClients, NEW up \in Seq(TcpUnit)
    PROVE  LET t == TcpUpSet(k, c, up)
           IN  /\ TcpOutRight(t) /\ t.in = k.in /\ t.did = k.did /\ t.out = k.out
               /\ TcpSameSt(t, k) /\ t.cli[c].up = up
               /\ t.cli[c].wrote = k.cli[c].wrote /\ t.cli[c].half = k.cli[c].half
               /\ (t.cli[c].closed <=> k.cli[c].closed)
               /\ \A e \in TcpClients \ {c} : t.cli[e] = k.cli[e]
  <1> DEFINE s == k.cli[c]
             p == [s EXCEPT !.up = up]
             t == TcpPeerSet(k, c, p)
  <1>1. s \in TcpPeer
    BY DEF TcpOutRight, TcpChan
  <1>2. /\ p \in TcpPeer /\ p.up = up /\ p.st = s.st /\ p.down = s.down /\ p.saw = s.saw
        /\ p.owed = s.owed /\ p.wrote = s.wrote /\ p.half = s.half /\ (p.closed <=> s.closed)
    BY <1>1 DEF TcpPeer
  <1>3. TcpPeerKnown(k, c) /\ s = k.cli[c]
    BY DEF TcpOutRight, TcpPeerRight
  <1> HIDE DEF p, s
  <1>4. TcpSeesAs(p, s)
    <2>1. TcpSeen(p) = TcpSeen(s)
      BY <1>2 DEF TcpSeen
    <2> HIDE DEF TcpSeen
    <2> QED BY <1>2, <1>3, <2>1 DEF TcpSeesAs, TcpPeerKnown
  <1>5. /\ TcpOutRight(t) /\ t.in = k.in /\ t.did = k.did /\ t.fd = k.fd /\ t.out = k.out
        /\ (t.stale <=> k.stale) /\ t.cli[c] = p
        /\ \A e \in TcpClients \ {c} : t.cli[e] = k.cli[e]
    BY <1>2, <1>3, <1>4, TcpPeerSetKeeps
  <1>6. t = TcpUpSet(k, c, up)
    BY DEF TcpUpSet, p, s
  <1> HIDE DEF t
  <1>7. TcpSameSt(t, k)
    BY <1>2, <1>3, <1>5 DEF TcpSameSt
  <1> QED BY <1>2, <1>3, <1>5, <1>6, <1>7

LEMMA TcpAllWholeAppend ==
    ASSUME NEW did \in Seq(Seq(TcpUnit)), NEW a \in Seq(TcpUnit), TcpWhole(a), TcpAllWhole(did)
    PROVE  TcpAllWhole(Append(did, a))
  <1> DEFINE x == Append(did, a)
  <1>1. /\ Len(x) = Len(did) + 1 /\ Len(did) \in Nat /\ x[Len(did) + 1] = a
        /\ \A j \in 1..Len(did) : x[j] = did[j]
    OBVIOUS
  <1> HIDE DEF x
  <1>2. ASSUME NEW j \in 1..Len(x) PROVE TcpWhole(x[j])
    <2>1. j \in 1..Len(did) \/ j = Len(did) + 1
      BY <1>1
    <2> QED BY <1>1, <2>1 DEF TcpAllWhole
  <1> QED BY <1>2 DEF TcpAllWhole, x

\* How far the clients are in their writing.
TcpSameAt(t, k) ==
    \A e \in TcpClients :
        /\ t.cli[e].wrote = k.cli[e].wrote /\ t.cli[e].half = k.cli[e].half
        /\ (t.cli[e].closed <=> k.cli[e].closed)

\* Half way through what was read of client c of k: y is where the loop is,
\* rest is still to come.
TcpReading(ch, len, k, c, y, rest, left) ==
    /\ TcpOutRight(y) /\ (k.stale => y.stale) /\ TcpSameAt(y, k)
    /\ \A e \in TcpClients \ {c} : y.cli[e].up = k.cli[e].up
    /\ y.cli[c].up = left
    /\ TcpClear(ch, len, y) => /\ TcpSameSt(y, k) /\ TcpAllWhole(y.did)
                   /\ TcpWrites(ch, len, c, k.cli[c], y.in \o rest)

LEMMA TcpCharStep ==
    ASSUME NEW len, NEW k, NEW c \in TcpClients, NEW y, NEW u \in TcpUnit,
           NEW rest \in Seq(TcpUnit), NEW fails \in BOOLEAN,
           TcpReading("cmd", len, k, c, y, <<u>> \o rest, <<>>),
           TcpClear("cmd", len, y) => TcpOpenEnded(y.in)
    PROVE  /\ TcpReading("cmd", len, k, c, TcpChar(y, u, fails), rest, <<>>)
           /\ TcpClear("cmd", len, TcpChar(y, u, fails)) => TcpOpenEnded(TcpChar(y, u, fails).in)
  <1> DEFINE t == TcpChar(y, u, fails)
             a == Append(y.in, u)
  <1>1. TcpCharLeaves(y, u, t)
    BY TcpCharKeeps DEF TcpReading
  <1>2. y.in \in Seq(TcpUnit) /\ y.did \in Seq(Seq(TcpUnit))
    BY DEF TcpReading, TcpOutRight, TcpChan
  <1> HIDE DEF t
  <1>3. /\ TcpOutRight(t) /\ (k.stale => t.stale) /\ TcpSameAt(t, k)
        /\ \A e \in TcpClients \ {c} : t.cli[e].up = k.cli[e].up
        /\ t.cli[c].up = <<>>
    BY <1>1 DEF TcpCharLeaves, TcpReading, TcpSameUp, TcpSameSt, TcpSameAt
  <1>4. ASSUME TcpClear("cmd", len, t)
        PROVE  /\ TcpSameSt(t, k) /\ TcpAllWhole(t.did) /\ TcpOpenEnded(t.in)
               /\ TcpWrites("cmd", len, c, k.cli[c], t.in \o rest)
    <2>1. TcpSameSt(t, y) /\ TcpClear("cmd", len, y)
      BY <1>1, <1>4 DEF TcpClear, TcpCharLeaves, TcpSameSt
    <2>2. /\ TcpSameSt(y, k) /\ TcpAllWhole(y.did) /\ TcpOpenEnded(y.in)
          /\ TcpWrites("cmd", len, c, k.cli[c], y.in \o (<<u>> \o rest))
      BY <2>1 DEF TcpReading
    <2>3. /\ a \in Seq(TcpUnit) /\ Len(a) = Len(y.in) + 1 /\ Len(y.in) \in Nat
          /\ a[Len(a)] = u /\ a \o rest = y.in \o (<<u>> \o rest)
      <3>1. a = y.in \o <<u>> /\ <<u>> \in Seq(TcpUnit)
        BY <1>2, AppendIsConcat
      <3> DEFINE b == y.in
                 v == <<u>>
      <3>2. b \in Seq(TcpUnit) /\ v \in Seq(TcpUnit) /\ a = b \o v
        BY <1>2, <3>1
      <3>3. a \in Seq(TcpUnit) /\ Len(a) = Len(y.in) + 1 /\ Len(y.in) \in Nat /\ a[Len(a)] = u
        BY <1>2
      <3> HIDE DEF a, b, v
      <3>4. (b \o v) \o rest = b \o (v \o rest)
        BY <3>2, TcpCat
      <3>5. a \o rest = b \o (v \o rest)
        BY <3>2, <3>4, Zenon
      <3> QED BY <3>3, <3>5 DEF b, v
    <2>4. TcpWrites("cmd", len, c, k.cli[c], a \o rest)
      BY <2>2, <2>3
    <2>5. TcpFlow(a)
      <3>1. a \in Seq(TcpUnit) /\ TcpFlow(a \o rest)
        BY <2>3, <2>4 DEF TcpWrites
      <3> HIDE DEF a
      <3> QED BY <3>1, TcpFlowBack
    <2>6. /\ Len(y.in) < TcpBuf
          /\ u.i # u.m.len => TcpOpenEnded(a)
          /\ u.i = u.m.len => TcpWhole(a)
      BY <1>2, <2>2, <2>5, TcpOneMore
    <2>7. TcpJoined(y.in, u) = a
      BY <2>6 DEF TcpJoined
    <2>8. TcpSameSt(t, k)
      BY <2>1, <2>2 DEF TcpSameSt
    <2> HIDE DEF a
    <2>9. CASE u.i # u.m.len
      <3>1. t.in = a /\ t.did = y.did
        BY <1>1, <2>7, <2>9 DEF TcpCharLeaves
      <3> QED BY <2>2, <2>4, <2>6, <2>8, <2>9, <3>1
    <2>10. CASE u.i = u.m.len
      <3>1. t.in = <<>> /\ t.did = Append(y.did, a)
        BY <1>1, <2>7, <2>10 DEF TcpCharLeaves
      <3>2. TcpWrites("cmd", len, c, k.cli[c], rest)
        <4>1. a # <<>> => a[Len(a)].i = a[Len(a)].m.len
          BY <2>3, <2>10
        <4> QED BY <2>3, <2>4, <4>1, TcpTaken
      <3>3. TcpAllWhole(t.did)
        <4> DEFINE did == y.did
        <4>1. did \in Seq(Seq(TcpUnit)) /\ a \in Seq(TcpUnit) /\ TcpWhole(a) /\ TcpAllWhole(did)
          BY <1>2, <2>2, <2>3, <2>6, <2>10
        <4>2. t.did = Append(did, a)
          BY <3>1
        <4> HIDE DEF did
        <4> QED BY <4>1, <4>2, TcpAllWholeAppend
      <3>4. t.in \o rest = rest
        BY <3>1, TcpCat
      <3>5. TcpOpenEnded(t.in)
        BY <3>1 DEF TcpOpenEnded
      <3> QED BY <2>8, <3>2, <3>3, <3>4, <3>5
    <2> QED BY <2>9, <2>10
  <1>5. TcpReading("cmd", len, k, c, t, rest, <<>>) /\ (TcpClear("cmd", len, t) => TcpOpenEnded(t.in))
    BY <1>3, <1>4 DEF TcpReading
  <1> QED BY <1>5 DEF t

\* What a service call leaves.
TcpServed(ch, len, k, t) ==
    /\ TcpOutRight(t) /\ (k.stale => t.stale) /\ TcpSameAt(t, k)
    /\ TcpClear(ch, len, t) => TcpInRight(ch, len, t)

LEMMA TcpWritesAs ==
    ASSUME NEW ch, NEW len, NEW c, NEW s, NEW p, NEW stream,
           p.wrote = s.wrote, p.half = s.half, p.closed <=> s.closed,
           TcpWrites(ch, len, c, s, stream)
    PROVE  TcpWrites(ch, len, c, p, stream)
  BY DEF TcpWrites, TcpAtHalf

LEMMA TcpReadServed ==
    ASSUME NEW ch, NEW len, NEW k, TcpOutRight(k), NEW c \in TcpClients, k.fd = c,
           TcpClear(ch, len, k) => TcpInRight(ch, len, k), NEW y, NEW left,
           TcpReading(ch, len, k, c, y, left, left), TcpClear(ch, len, y) => TcpOpenEnded(y.in)
    PROVE  TcpServed(ch, len, k, y)
  <1>1. TcpOutRight(y) /\ (k.stale => y.stale) /\ TcpSameAt(y, k)
    BY DEF TcpReading
  <1>2. ASSUME TcpClear(ch, len, y) PROVE TcpInRight(ch, len, y)
    <2>1. TcpClear(ch, len, k) /\ TcpInRight(ch, len, k)
      BY <1>2 DEF TcpClear, TcpReading
    <2>2. /\ TcpSameSt(y, k) /\ TcpAllWhole(y.did) /\ TcpOpenEnded(y.in)
          /\ TcpWrites(ch, len, c, k.cli[c], y.in \o left)
          /\ y.cli[c].up = left /\ \A e \in TcpClients \ {c} : y.cli[e].up = k.cli[e].up
      BY <1>2 DEF TcpReading
    <2>3. y.fd = c /\ c # "none" /\ \A e \in TcpClients : y.cli[e].st = k.cli[e].st
      BY <2>2 DEF TcpSameSt, TcpClients
    <2>4. TcpClientRight(ch, len, y, c)
      <3>1. y.cli[c].st = "open"
        BY <1>1, <2>3 DEF TcpOutRight, TcpPeerRight, TcpPeerKnown
      <3>2. TcpStream(y, c) = y.in \o left
        BY <2>2, <2>3 DEF TcpStream
      <3>3. /\ y.cli[c].wrote = k.cli[c].wrote /\ y.cli[c].half = k.cli[c].half
            /\ (y.cli[c].closed <=> k.cli[c].closed)
        BY <1>1 DEF TcpSameAt
      <3>4. TcpWrites(ch, len, c, y.cli[c], y.in \o left)
        BY <2>2, <3>3, TcpWritesAs
      <3> QED BY <3>1, <3>2, <3>4 DEF TcpClientRight
    <2>5. ASSUME NEW e \in TcpClients \ {c} PROVE TcpClientRight(ch, len, y, e)
      <3>1. TcpClientRight(ch, len, k, e)
        BY <2>1 DEF TcpInRight
      <3>2. TcpStream(y, e) = y.cli[e].up /\ TcpStream(k, e) = k.cli[e].up
        BY <2>3 DEF TcpStream
      <3>3. /\ y.cli[e].wrote = k.cli[e].wrote /\ y.cli[e].half = k.cli[e].half
            /\ (y.cli[e].closed <=> k.cli[e].closed) /\ y.cli[e].up = k.cli[e].up
            /\ y.cli[e].st = k.cli[e].st
        BY <1>1, <2>2, <2>3 DEF TcpSameAt
      <3>4. TcpWrites(ch, len, e, k.cli[e], TcpStream(k, e)) =>
                TcpWrites(ch, len, e, y.cli[e], TcpStream(k, e))
        BY <3>3, TcpWritesAs
      <3>5. TcpStream(y, e) = TcpStream(k, e)
        BY <3>2, <3>3
      <3> HIDE DEF TcpStream
      <3> QED BY <3>1, <3>3, <3>4, <3>5 DEF TcpClientRight
    <2> QED BY <2>2, <2>3, <2>4, <2>5 DEF TcpInRight
  <1> QED BY <1>1, <1>2 DEF TcpServed

LEMMA TcpSent ==
    ASSUME NEW ch, NEW len, NEW k, NEW y, TcpServed(ch, len, k, y), y.fd # "none",
           NEW fails \in BOOLEAN
    PROVE  TcpServed(ch, len, k, IF fails THEN TcpDropUnsent(y) ELSE TcpFlush(y))
  <1>1. TcpOutRight(y) /\ (k.stale => y.stale) /\ TcpSameAt(y, k)
    BY DEF TcpServed
  <1>2. TcpServed(ch, len, k, TcpDropUnsent(y))
    <2> DEFINE t == TcpDropUnsent(y)
    <2>1. y \in TcpChan /\ Len(y.in) <= TcpBuf /\ \A c \in TcpClients : TcpPeerKnown(y, c)
      BY <1>1 DEF TcpOutRight, TcpPeerRight
    <2>2. TcpGone(t, y)
      BY <2>1, TcpDropUnsentGone
    <2> HIDE DEF t
    <2>3. TcpOutRight(t) /\ TcpSameAt(t, k) /\ t.stale
      BY <1>1, <2>2 DEF TcpGone, TcpSameIn, TcpSameAt
    <2>4. TcpServed(ch, len, k, t)
      BY <2>3 DEF TcpClear, TcpServed
    <2> QED BY <2>4 DEF t
  <1>3. TcpServed(ch, len, k, TcpFlush(y))
    <2> DEFINE t == TcpFlush(y)
    <2>1. TcpKept(t, y)
      BY <1>1, TcpFlushKeeps
    <2> HIDE DEF t
    <2>2. /\ TcpOutRight(t) /\ TcpSameIn(t, y) /\ t.fd = y.fd /\ (t.stale <=> y.stale)
          /\ \A c \in TcpClients : t.cli[c].st = y.cli[c].st
      BY <2>1 DEF TcpKept
    <2>3. TcpSameAt(t, k)
      BY <1>1, <2>2 DEF TcpSameIn, TcpSameAt
    <2>4. ASSUME TcpClear(ch, len, t) PROVE TcpInRight(ch, len, t)
      <3>1. TcpInRight(ch, len, y)
        BY <2>2, <2>4 DEF TcpClear, TcpServed
      <3>2. t.in = y.in /\ t.did = y.did
        BY <2>2 DEF TcpSameIn
      <3>3. ASSUME NEW e \in TcpClients PROVE TcpClientRight(ch, len, t, e)
        <4>1. TcpClientRight(ch, len, y, e)
          BY <3>1 DEF TcpInRight
        <4>2. /\ t.cli[e].wrote = y.cli[e].wrote /\ t.cli[e].half = y.cli[e].half
              /\ (t.cli[e].closed <=> y.cli[e].closed) /\ t.cli[e].up = y.cli[e].up
              /\ t.cli[e].st = y.cli[e].st
          BY <2>2 DEF TcpSameIn
        <4>3. TcpStream(t, e) = TcpStream(y, e)
          BY <2>2, <3>2, <4>2 DEF TcpStream
        <4>4. TcpWrites(ch, len, e, y.cli[e], TcpStream(y, e)) =>
                  TcpWrites(ch, len, e, t.cli[e], TcpStream(y, e))
          BY <4>2, TcpWritesAs
        <4> HIDE DEF TcpStream
        <4> QED BY <4>1, <4>2, <4>3, <4>4 DEF TcpClientRight
      <3> QED BY <2>2, <3>1, <3>2, <3>3 DEF TcpInRight
    <2>5. TcpServed(ch, len, k, t)
      BY <1>1, <2>2, <2>3, <2>4 DEF TcpServed
    <2> QED BY <2>5 DEF t
  <1> QED BY <1>2, <1>3

\* The client's stream has ended, and everything was read.
LEMMA TcpHangUpServed ==
    ASSUME NEW ch, NEW len, NEW k, TcpOutRight(k), k.fd # "none",
           TcpClear(ch, len, k) => TcpInRight(ch, len, k)
    PROVE  TcpServed(ch, len, k, TcpHangUp(k)) /\ TcpHangUp(k).did = k.did
  <1> DEFINE t == TcpHangUp(k)
  <1>1. /\ TcpOutRight(t) /\ t.fd = "none" /\ t.in = <<>> /\ t.did = k.did
        /\ (t.stale <=> k.stale)
        /\ \A c \in TcpClients :
              /\ t.cli[c].up = k.cli[c].up /\ t.cli[c].wrote = k.cli[c].wrote
              /\ t.cli[c].half = k.cli[c].half
              /\ (t.cli[c].closed <=> k.cli[c].closed)
              /\ t.cli[c].st = IF c = k.fd THEN "dropped" ELSE k.cli[c].st
    BY TcpHangUpGone
  <1> HIDE DEF t
  <1>2. TcpSameAt(t, k)
    BY <1>1 DEF TcpSameAt
  <1>3. ASSUME TcpClear(ch, len, t) PROVE TcpInRight(ch, len, t)
    <2>1. TcpInRight(ch, len, k)
      BY <1>1, <1>3 DEF TcpClear
    <2>2. ASSUME NEW e \in TcpClients PROVE TcpClientRight(ch, len, t, e)
      <3>1. CASE e = k.fd
        BY <1>1, <3>1 DEF TcpClientRight
      <3>2. CASE e # k.fd
        <4>1. TcpClientRight(ch, len, k, e)
          BY <2>1 DEF TcpInRight
        <4>2. /\ t.cli[e].wrote = k.cli[e].wrote /\ t.cli[e].half = k.cli[e].half
              /\ (t.cli[e].closed <=> k.cli[e].closed) /\ t.cli[e].up = k.cli[e].up
              /\ t.cli[e].st = k.cli[e].st
          BY <1>1, <3>2
        <4>3. TcpStream(t, e) = TcpStream(k, e)
          <5>1. e # "none"
            BY DEF TcpClients
          <5> QED BY <1>1, <3>2, <4>2, <5>1 DEF TcpStream
        <4>4. TcpWrites(ch, len, e, k.cli[e], TcpStream(k, e)) =>
                  TcpWrites(ch, len, e, t.cli[e], TcpStream(k, e))
          BY <4>2, TcpWritesAs
        <4> HIDE DEF TcpStream
        <4> QED BY <4>1, <4>2, <4>3, <4>4 DEF TcpClientRight
      <3> QED BY <3>1, <3>2
    <2>3. TcpOpenEnded(t.in)
      BY <1>1 DEF TcpOpenEnded
    <2> QED BY <1>1, <2>1, <2>2, <2>3 DEF TcpInRight
  <1>4. TcpServed(ch, len, k, t)
    BY <1>1, <1>2, <1>3 DEF TcpServed
  <1> QED BY <1>1, <1>4 DEF t

LEMMA TcpHeadOff ==
    ASSUME NEW a \in Seq(TcpUnit), NEW i \in Nat, i < Len(a)
    PROVE  /\ SubSeq(a, i + 1, Len(a)) = <<a[i + 1]>> \o SubSeq(a, (i + 1) + 1, Len(a))
           /\ SubSeq(a, (i + 1) + 1, Len(a)) \in Seq(TcpUnit) /\ a[i + 1] \in TcpUnit
  <1> DEFINE n == Len(a)
             x == SubSeq(a, i + 1, n)
             v == <<a[i + 1]>>
             z == SubSeq(a, (i + 1) + 1, n)
  <1>1. n \in Nat /\ a[i + 1] \in TcpUnit /\ n >= i + 1
    BY DEF n
  <1>2. x \in Seq(TcpUnit) /\ Len(x) = n - i /\ \A j \in 1..(n - i) : x[j] = a[i + j]
    BY <1>1
  <1>3. z \in Seq(TcpUnit) /\ Len(z) = n - (i + 1) /\ \A j \in 1..(n - (i + 1)) : z[j] = a[(i + 1) + j]
    BY <1>1
  <1>4. v \in Seq(TcpUnit) /\ Len(v) = 1 /\ v[1] = a[i + 1]
    BY <1>1
  <1> HIDE DEF x, v, z, n
  <1>5. /\ Len(v \o z) = Len(v) + Len(z) /\ v \o z \in Seq(TcpUnit)
        /\ \A j \in 1..(Len(v) + Len(z)) :
              (v \o z)[j] = IF j <= Len(v) THEN v[j] ELSE z[j - Len(v)]
    <2>1. v \in Seq(TcpUnit) /\ z \in Seq(TcpUnit)
      BY <1>3, <1>4
    <2> QED BY <2>1, ConcatProperties
  <1>6. Len(v \o z) = Len(x)
    BY <1>1, <1>2, <1>3, <1>4, <1>5
  <1>7. ASSUME NEW j \in 1..Len(x) PROVE (v \o z)[j] = x[j]
    <2>1. CASE j = 1
      BY <1>1, <1>2, <1>3, <1>4, <1>5, <2>1
    <2>2. CASE j # 1
      <3>1. j - 1 \in 1..(n - (i + 1)) /\ (i + 1) + (j - 1) = i + j
        BY <1>1, <1>2, <2>2
      <3>2. (v \o z)[j] = z[j - 1]
        BY SMTT(30), <1>1, <1>2, <1>3, <1>4, <1>5, <2>2
      <3>3. z[j - 1] = a[(i + 1) + (j - 1)]
        BY <1>3, <3>1
      <3>4. x[j] = a[i + j]
        BY <1>2
      <3> QED BY <3>1, <3>2, <3>3, <3>4, Zenon
    <2> QED BY <2>1, <2>2
  <1>8. v \o z = x
    BY <1>2, <1>5, <1>6, <1>7, SeqEqual
  <1> QED BY <1>1, <1>3, <1>8 DEF x, v, z, n

\* A service call of the command channel.
LEMMA TcpCmdServed ==
    ASSUME NEW len, NEW k, TcpOutRight(k), TcpClear("cmd", len, k) => TcpInRight("cmd", len, k),
           NEW fails \in BOOLEAN
    PROVE  TcpServed("cmd", len, k, TcpServiceCmd(k, fails))
  <1>1. CASE k.fd = "none"
    <2>1. TcpServiceCmd(k, fails) = k
      BY <1>1 DEF TcpServiceCmd
    <2>2. TcpServed("cmd", len, k, k)
      BY DEF TcpServed, TcpSameAt
    <2> QED BY <2>1, <2>2
  <1>2. CASE k.fd # "none" /\ TcpEnded(k)
    <2>1. TcpServiceCmd(k, fails) = TcpHangUp(k)
      BY <1>2 DEF TcpServiceCmd
    <2> QED BY <1>2, <2>1, TcpHangUpServed
  <1>3. CASE k.fd # "none" /\ ~TcpEnded(k)
    <2> DEFINE c == k.fd
               got == k.cli[c].up
               n == Len(got)
               x0 == [k EXCEPT !.cli[k.fd].up = <<>>]
               Solves(h) == h = [i \in 0..n |-> IF i = 0 THEN x0
                                                ELSE TcpChar(h[i - 1], got[i], fails)]
               after == CHOOSE h : Solves(h)
               D == {y \in TcpChan : TcpOutRight(y)}
               step == [p \in (1..n) \X D |-> TcpChar(p[2], got[p[1]], fails)]
               t == after[n]
    <2>1. c \in TcpClients /\ k \in TcpChan
      BY <1>3 DEF TcpOutRight, TcpChan, TcpClients
    <2>2. got \in Seq(TcpUnit) /\ n \in Nat /\ \A i \in 1..n : got[i] \in TcpUnit
      <3>1. got \in Seq(TcpUnit)
        BY <2>1 DEF TcpChan, TcpPeer
      <3> HIDE DEF got
      <3> QED BY <3>1
    <2>3. TcpServiceCmd(k, fails) = IF t.fd = "none" THEN t
                                    ELSE IF fails THEN TcpDropUnsent(t) ELSE TcpFlush(t)
      <3>1. TcpServiceCmd(k, fails) =
               IF k.fd = "none" THEN k
               ELSE IF TcpEnded(k) THEN TcpHangUp(k)
               ELSE IF t.fd = "none" THEN t
                    ELSE IF fails THEN TcpDropUnsent(t) ELSE TcpFlush(t)
        BY DEF TcpServiceCmd
      <3> HIDE DEF t
      <3> QED BY <1>3, <3>1
    <2>4. /\ TcpReading("cmd", len, k, c, x0, got, <<>>)
          /\ TcpClear("cmd", len, x0) => TcpOpenEnded(x0.in)
          /\ x0 \in D
      <3> DEFINE e == <<>>
      <3>1. e \in Seq(TcpUnit) /\ x0 = TcpUpSet(k, c, e)
        BY <2>1 DEF TcpUpSet, TcpPeerSet, TcpChan, TcpPeer
      <3> HIDE DEF e, x0, c
      <3>2. /\ TcpOutRight(x0) /\ x0.in = k.in /\ x0.did = k.did
            /\ TcpSameSt(x0, k) /\ x0.cli[c].up = e
            /\ x0.cli[c].wrote = k.cli[c].wrote /\ x0.cli[c].half = k.cli[c].half
            /\ (x0.cli[c].closed <=> k.cli[c].closed)
            /\ \A i \in TcpClients \ {c} : x0.cli[i] = k.cli[i]
        BY <2>1, <3>1, TcpUpSetKeeps
      <3>3. TcpSameAt(x0, k) /\ \A i \in TcpClients \ {c} : x0.cli[i].up = k.cli[i].up
        BY <3>2 DEF TcpSameAt
      <3>4. x0.stale <=> k.stale
        BY <3>2 DEF TcpSameSt
      <3>5. ASSUME TcpClear("cmd", len, x0)
            PROVE  /\ TcpAllWhole(x0.did) /\ TcpOpenEnded(x0.in)
                   /\ TcpWrites("cmd", len, c, k.cli[c], x0.in \o got)
        <4>1. TcpInRight("cmd", len, k)
          BY <3>4, <3>5 DEF TcpClear
        <4>2. k.cli[c].st = "open"
          BY <2>1 DEF TcpOutRight, TcpPeerRight, TcpPeerKnown, c
        <4>3. TcpWrites("cmd", len, c, k.cli[c], TcpStream(k, c))
          BY <2>1, <4>1, <4>2 DEF TcpInRight, TcpClientRight
        <4>4. TcpStream(k, c) = k.in \o got
          BY DEF TcpStream, c
        <4> QED BY <3>2, <4>1, <4>3, <4>4 DEF TcpInRight
      <3>6. x0 \in D
        BY <3>2 DEF TcpOutRight
      <3>7. TcpReading("cmd", len, k, c, x0, got, e)
        BY <3>2, <3>3, <3>4, <3>5 DEF TcpReading
      <3> QED BY <3>5, <3>6, <3>7 DEF e
    <2>5. \A i \in 1..n, y \in D : TcpChar(y, got[i], fails) \in D
      <3> TAKE i \in 1..n, y \in D
      <3> DEFINE z == TcpChar(y, got[i], fails)
      <3>1. TcpCharLeaves(y, got[i], z)
        BY <2>2, TcpCharKeeps
      <3> HIDE DEF z
      <3>2. z \in D
        BY <3>1 DEF TcpCharLeaves, TcpOutRight
      <3> QED BY <3>2 DEF z
    <2>6. step \in [(1..n) \X D -> D]
      BY <2>5
    <2>7. \A i \in 1..n, y \in D : step[<<i, y>>] = TcpChar(y, got[i], fails)
      OBVIOUS
    <2> HIDE DEF D, step, x0, n, got, c
    <2>8. PICK g : StepsFrom(g, step, n, D, x0)
      <3>1. n \in Nat /\ x0 \in D /\ StepsIn(step, n, D)
        BY <2>2, <2>4, <2>6 DEF StepsIn
      <3> QED BY <3>1, StepsExist
    <2>9. /\ g \in [0..n -> D]
          /\ g[0] = x0
          /\ \A i \in 1..n : g[i] = step[<<i, g[i - 1]>>]
      BY <2>8 DEF StepsFrom
    <2>10. Solves(g)
      <3>1. ASSUME NEW i \in 0..n
            PROVE  g[i] = IF i = 0 THEN x0 ELSE TcpChar(g[i - 1], got[i], fails)
        <4>1. CASE i = 0
          BY <2>9, <4>1
        <4>2. CASE i # 0
          <5>1. i \in 1..n /\ i - 1 \in 0..n
            BY <2>2, <4>2
          <5>2. g[i] = step[<<i, g[i - 1]>>] /\ g[i - 1] \in D
            BY <2>9, <5>1
          <5>3. step[<<i, g[i - 1]>>] = TcpChar(g[i - 1], got[i], fails)
            BY <2>7, <5>1, <5>2
          <5> QED BY <4>2, <5>2, <5>3
        <4> QED BY <4>1, <4>2
      <3> QED BY <2>9, <3>1
    <2>11. Solves(after)
      <3> HIDE DEF Solves
      <3> QED BY <2>10
    <2> HIDE DEF after
    <2>12. /\ after[0] = x0
           /\ \A i \in 1..n : after[i] = TcpChar(after[i - 1], got[i], fails)
      BY <2>2, <2>11
    <2> DEFINE Good(i) ==
                  /\ TcpReading("cmd", len, k, c, after[i], SubSeq(got, i + 1, n), <<>>)
                  /\ TcpClear("cmd", len, after[i]) => TcpOpenEnded(after[i].in)
               S == {i \in 0..n : Good(i)}
    <2>13. 0 \in S
      <3>1. SubSeq(got, 0 + 1, n) = got
        BY <2>2 DEF n
      <3>2. Good(0)
        BY <2>4, <2>12, <3>1
      <3> QED BY <2>2, <3>2
    <2>14. ASSUME NEW i \in 0..n, i \in S, i < n PROVE i + 1 \in S
      <3> DEFINE y == after[i]
                 u == got[i + 1]
                 rest == SubSeq(got, (i + 1) + 1, n)
      <3>1. /\ u \in TcpUnit /\ rest \in Seq(TcpUnit)
            /\ SubSeq(got, i + 1, n) = <<u>> \o rest
        <4>1. i \in Nat /\ i < Len(got) /\ n = Len(got)
          BY <2>2, <2>14 DEF n
        <4>2. /\ SubSeq(got, i + 1, Len(got)) = <<u>> \o SubSeq(got, (i + 1) + 1, Len(got))
              /\ SubSeq(got, (i + 1) + 1, Len(got)) \in Seq(TcpUnit) /\ u \in TcpUnit
          BY <2>2, <4>1, TcpHeadOff
        <4> HIDE DEF u
        <4> QED BY <4>1, <4>2, Zenon
      <3>2. after[i + 1] = TcpChar(y, u, fails)
        <4>1. i + 1 \in 1..n /\ (i + 1) - 1 = i
          BY <2>2, <2>14
        <4> QED BY <2>12, <4>1
      <3>3. TcpReading("cmd", len, k, c, y, <<u>> \o rest, <<>>) /\ (TcpClear("cmd", len, y) => TcpOpenEnded(y.in))
        BY <2>14, <3>1
      <3> HIDE DEF y, u, rest
      <3>4. /\ TcpReading("cmd", len, k, c, TcpChar(y, u, fails), rest, <<>>)
            /\ TcpClear("cmd", len, TcpChar(y, u, fails)) => TcpOpenEnded(TcpChar(y, u, fails).in)
        BY <2>1, <3>1, <3>3, TcpCharStep
      <3>5. Good(i + 1)
        BY <3>2, <3>4 DEF rest
      <3> QED BY <2>2, <2>14, <3>5
    <2>15. Good(n)
      <3> HIDE DEF Good
      <3>1. \A i \in 0..n : i \in S
        BY <2>2, <2>13, <2>14, UptoClosed
      <3> QED BY <2>2, <3>1
    <2>16. SubSeq(got, n + 1, n) = <<>>
      BY <2>2
    <2>17. TcpReading("cmd", len, k, c, t, <<>>, <<>>) /\ (TcpClear("cmd", len, t) => TcpOpenEnded(t.in))
      BY <2>15, <2>16
    <2> HIDE DEF t
    <2>18. TcpServed("cmd", len, k, t)
      <3> DEFINE e == <<>>
      <3>1. TcpReading("cmd", len, k, c, t, e, e)
        BY <2>17
      <3>2. k.fd = c
        BY DEF c
      <3> HIDE DEF e
      <3> QED BY <2>1, <2>17, <3>1, <3>2, TcpReadServed
    <2>19. CASE t.fd = "none"
      BY <2>3, <2>18, <2>19
    <2>20. CASE t.fd # "none"
      <3>1. TcpServed("cmd", len, k, IF fails THEN TcpDropUnsent(t) ELSE TcpFlush(t))
        BY <2>18, <2>20, TcpSent
      <3> QED BY <2>3, <2>20, <3>1
    <2> QED BY <2>19, <2>20
  <1> QED BY <1>1, <1>2, <1>3

-----------------------------------------------------------------------------
(* The frames of the data channel. *)

\* Nothing can be taken off the front of the buffer.
TcpStuck(in) == in = <<>> \/ Len(in) < TcpFrameLen(in[1])

\* The messages that ended in what was read are queued for transmission, or
\* still in the buffer, which the loop empties in time.
TcpParsed(us, y, i) ==
    /\ \A j \in 1..Len(us) :
          us[j].i = us[j].m.len =>
              TcpDone(us[j].m, y.did) \/ \E l \in 1..Len(y.in) : y.in[l] = us[j]
    /\ TcpStuck(y.in) \/ Len(y.in) + i <= TcpBuf

LEMMA TcpParseStep ==
    ASSUME NEW len, NEW k, NEW c \in TcpClients, NEW y, NEW left \in Seq(TcpUnit),
           TcpReading("data", len, k, c, y, left, left), NEW us \in Seq(TcpUnit), NEW i \in Nat
    PROVE  /\ TcpReading("data", len, k, c, TcpParseOne(y), left, left)
           /\ TcpParseOne(y).fd = y.fd /\ (TcpParseOne(y).stale <=> y.stale)
           /\ (TcpClear("data", len, y) /\ TcpParsed(us, y, i)) =>
                  TcpParsed(us, TcpParseOne(y), i + 1)
  <1> DEFINE t == TcpParseOne(y)
  <1>1. /\ y.in \in Seq(TcpUnit) /\ y.did \in Seq(Seq(TcpUnit)) /\ Len(y.in) <= TcpBuf
        /\ TcpOutRight(y) /\ TcpBuf \in Nat /\ Len(y.in) \in Nat
    BY TcpAssumption DEF TcpReading, TcpOutRight, TcpChan
  <1>2. CASE TcpStuck(y.in)
    <2>1. t = y
      BY <1>2 DEF TcpStuck, TcpParseOne
    <2>2. TcpParsed(us, y, i) => TcpParsed(us, y, i + 1)
      BY <1>2 DEF TcpParsed
    <2> HIDE DEF t
    <2>3. /\ TcpReading("data", len, k, c, t, left, left) /\ t.fd = y.fd /\ (t.stale <=> y.stale)
          /\ TcpParsed(us, y, i) => TcpParsed(us, t, i + 1)
      BY <2>1, <2>2
    <2> QED BY <2>3 DEF t
  <1>3. CASE ~TcpStuck(y.in)
    <2> DEFINE a == y.in
               n == TcpFrameLen(a[1])
               front == SubSeq(a, 1, n)
               back == SubSeq(a, n + 1, Len(a))
               did == Append(y.did, front)
    <2>1. t = TcpReadAs(y, back, did)
      BY <1>1, <1>3 DEF TcpStuck, TcpParseOne, TcpReadAs, TcpOutRight, TcpChan
    <2>2. n \in 1..Len(a) /\ a[1] \in TcpUnit /\ a # <<>> /\ Len(a) \in Nat /\ n \in 0..Len(a)
      <3>1. a # <<>> /\ ~(Len(a) < n)
        BY <1>3 DEF TcpStuck
      <3>2. a[1] \in TcpUnit
        BY <1>1, <3>1
      <3>3. n \in Nat /\ n > 0
        BY <3>2 DEF TcpFrameLen, TcpUnit, TcpMessages
      <3> QED BY <1>1, <3>1, <3>2, <3>3
    <2>3. a \in Seq(TcpUnit) /\ Len(a) <= TcpBuf
      BY <1>1
    <2> HIDE DEF a
    <2>4. /\ front \in Seq(TcpUnit) /\ back \in Seq(TcpUnit) /\ front \o back = a
          /\ Len(front) = n /\ Len(back) = Len(a) - n
          /\ \A j \in 1..n : front[j] = a[j]
          /\ \A j \in 1..(Len(a) - n) : back[j] = a[n + j]
      <3> HIDE DEF n
      <3> QED BY <2>2, <2>3, TcpCut
    <2> HIDE DEF n, front, back
    <2>5. did \in Seq(Seq(TcpUnit)) /\ Len(back) <= TcpBuf
      BY <1>1, <2>2, <2>3, <2>4
    <2>6. /\ TcpOutRight(t) /\ t.in = back /\ t.did = did /\ t.fd = y.fd /\ t.out = y.out
          /\ t.cli = y.cli /\ (t.stale <=> y.stale)
      <3> HIDE DEF t, did
      <3>1. LET x == TcpReadAs(y, back, did)
            IN  /\ TcpOutRight(x) /\ x.in = back /\ x.did = did /\ x.fd = y.fd /\ x.out = y.out
                /\ x.cli = y.cli /\ (x.stale <=> y.stale)
        BY <1>1, <2>4, <2>5, TcpReadAsKeeps
      <3> QED BY <2>1, <3>1, Zenon
    <2>7. ASSUME TcpClear("data", len, y)
          PROVE  /\ TcpSameSt(y, k) /\ TcpAllWhole(y.did)
                 /\ TcpWrites("data", len, c, k.cli[c], a \o left) /\ TcpFlow(a)
                 /\ n = a[1].m.len /\ front = TcpUnits(a[1].m)
                 /\ a[n].i = n /\ a[n].m = a[1].m
                 /\ \A j \in 1..n : a[j].m = a[1].m
      <3>1. /\ TcpSameSt(y, k) /\ TcpAllWhole(y.did)
            /\ TcpWrites("data", len, c, k.cli[c], a \o left)
        BY <2>7 DEF TcpReading, a
      <3>2. TcpFlow(a)
        BY <2>3, <3>1, TcpFlowBack DEF TcpWrites
      <3>3. n = a[1].m.len
        BY <2>2, <3>2 DEF n, TcpFrameLen, TcpFlow
      <3>4. Len(a) >= n
        BY <2>2
      <3>5. SubSeq(a, 1, n) = TcpUnits(a[1].m) /\ a[n].i = n /\ a[n].m = a[1].m
        BY <2>2, <2>3, <3>2, <3>3, <3>4, TcpFlowWhole
      <3>6. \A j \in 1..n : a[j].m = a[1].m
        <4>1. \A j \in 1..n : j \in 1..Len(a) /\ j <= a[1].m.len
          BY <2>2, <3>3
        <4> QED BY <2>2, <2>3, <3>2, <4>1, TcpFlowFirst
      <3> QED BY <3>1, <3>2, <3>3, <3>5, <3>6 DEF front
    <2> HIDE DEF t
    <2>8. TcpReading("data", len, k, c, t, left, left)
      <3>1. /\ TcpOutRight(t) /\ (k.stale => t.stale) /\ TcpSameAt(t, k)
            /\ \A e \in TcpClients \ {c} : t.cli[e].up = k.cli[e].up
            /\ t.cli[c].up = left
        BY <2>6 DEF TcpReading, TcpSameAt
      <3>2. ASSUME TcpClear("data", len, t)
            PROVE  /\ TcpSameSt(t, k) /\ TcpAllWhole(t.did)
                   /\ TcpWrites("data", len, c, k.cli[c], t.in \o left)
        <4>1. TcpClear("data", len, y)
          BY <2>6, <3>2 DEF TcpClear
        <4>2. TcpSameSt(t, k)
          BY <2>6, <2>7, <4>1 DEF TcpSameSt
        <4>3. TcpWhole(front)
          BY <2>2, <2>4, <2>7, <4>1 DEF TcpWhole
        <4>4. TcpAllWhole(did)
          <5> DEFINE d == y.did
          <5>1. d \in Seq(Seq(TcpUnit)) /\ TcpAllWhole(d) /\ did = Append(d, front)
            BY <1>1, <2>7, <4>1
          <5> HIDE DEF d, did
          <5> QED BY <2>4, <4>3, <5>1, TcpAllWholeAppend
        <4>5. TcpWrites("data", len, c, k.cli[c], back \o left)
          <5> DEFINE b == back \o left
          <5>1. b \in Seq(TcpUnit) /\ front \o b = a \o left
            <6>1. (front \o back) \o left = front \o (back \o left) /\ back \o left \in Seq(TcpUnit)
              <7>1. front \in Seq(TcpUnit) /\ back \in Seq(TcpUnit) /\ left \in Seq(TcpUnit)
                BY <2>4
              <7> QED BY <7>1, TcpCat
            <6> QED BY <2>4, <6>1
          <5>2. TcpWrites("data", len, c, k.cli[c], front \o b)
            BY <2>7, <4>1, <5>1
          <5>3. front # <<>> => front[Len(front)].i = front[Len(front)].m.len
            BY <2>2, <2>4, <2>7, <4>1
          <5> HIDE DEF b
          <5>4. TcpWrites("data", len, c, k.cli[c], b)
            BY <2>4, <5>1, <5>2, <5>3, TcpTaken
          <5> QED BY <5>4 DEF b
        <4> HIDE DEF did
        <4> QED BY <2>6, <4>2, <4>4, <4>5
      <3> QED BY <3>1, <3>2 DEF TcpReading
    <2>9. ASSUME TcpClear("data", len, y), TcpParsed(us, y, i) PROVE TcpParsed(us, t, i + 1)
      <3>1. ASSUME NEW j \in 1..Len(us), us[j].i = us[j].m.len
            PROVE  TcpDone(us[j].m, did) \/ \E l \in 1..Len(back) : back[l] = us[j]
        <4>0. /\ Len(did) = Len(y.did) + 1 /\ Len(y.did) \in Nat /\ did[Len(did)] = front
              /\ \A e \in 1..Len(y.did) : did[e] = y.did[e]
          BY <1>1
        <4> HIDE DEF did
        <4>1. CASE TcpDone(us[j].m, y.did)
          <5>1. PICK e \in 1..Len(y.did) : y.did[e] = TcpUnits(us[j].m)
            BY <4>1 DEF TcpDone
          <5>2. e \in 1..Len(did) /\ did[e] = TcpUnits(us[j].m)
            BY <4>0, <5>1
          <5> QED BY <5>2 DEF TcpDone
        <4>2. CASE \E l \in 1..Len(a) : a[l] = us[j]
          <5>1. PICK l \in 1..Len(a) : a[l] = us[j]
            BY <4>2
          <5>2. CASE l <= n
            <6>1. us[j].m = a[1].m
              BY <2>2, <2>7, <2>9, <5>1, <5>2
            <6>2. Len(did) \in 1..Len(did) /\ did[Len(did)] = TcpUnits(us[j].m)
              BY <2>7, <2>9, <4>0, <6>1
            <6> QED BY <6>2 DEF TcpDone
          <5>3. CASE l > n
            <6>1. l - n \in 1..Len(back) /\ n + (l - n) = l /\ l - n \in 1..(Len(a) - n)
              BY <2>2, <2>4, <5>3
            <6>2. back[l - n] = a[n + (l - n)]
              BY <2>4, <6>1
            <6>3. back[l - n] = us[j]
              BY <5>1, <6>1, <6>2, Zenon
            <6> QED BY <6>1, <6>3
          <5> QED BY <2>2, <5>2, <5>3
        <4> QED BY <2>9, <3>1, <4>1, <4>2 DEF TcpParsed, a
      <3>2. Len(back) + (i + 1) <= TcpBuf
        <4>1. Len(a) + i <= TcpBuf
          BY <1>3, <2>9 DEF TcpParsed, a
        <4> QED BY <1>1, <2>2, <2>4, <4>1
      <3> HIDE DEF did
      <3> QED BY <2>6, <3>1, <3>2 DEF TcpParsed
    <2>10. /\ TcpReading("data", len, k, c, t, left, left) /\ t.fd = y.fd /\ (t.stale <=> y.stale)
           /\ (TcpClear("data", len, y) /\ TcpParsed(us, y, i)) => TcpParsed(us, t, i + 1)
      BY <2>6, <2>8, <2>9
    <2> QED BY <2>10 DEF t
  <1> QED BY <1>2, <1>3

\* Sending, or failing to, leaves what was queued for transmission.
LEMMA TcpSentDid ==
    ASSUME NEW y, TcpOutRight(y), y.fd # "none"
    PROVE  TcpDropUnsent(y).did = y.did /\ TcpFlush(y).did = y.did
  <1>1. y \in TcpChan /\ Len(y.in) <= TcpBuf /\ \A c \in TcpClients : TcpPeerKnown(y, c)
    <2>1. y \in TcpChan /\ Len(y.in) <= TcpBuf /\ \A c \in TcpClients : TcpPeerRight(y, c)
      BY DEF TcpOutRight
    <2>2. \A c \in TcpClients : TcpPeerRight(y, c) => TcpPeerKnown(y, c)
      BY DEF TcpPeerRight
    <2> QED BY <2>1, <2>2
  <1>2. TcpGone(TcpDropUnsent(y), y)
    BY <1>1, TcpDropUnsentGone
  <1>3. TcpKept(TcpFlush(y), y)
    BY TcpFlushKeeps
  <1> QED BY <1>2, <1>3 DEF TcpGone, TcpKept, TcpSameIn

\* What a service call of the data channel reads.
TcpDataCut(k, c, n, up, in, left, read) ==
    /\ k.fd = c /\ up = k.cli[c].up /\ n \in 0..Len(up) /\ Len(k.in) + n <= TcpBuf
    /\ in = k.in \o SubSeq(up, 1, n) 
    /\ left = SubSeq(up, n + 1, Len(up))
    /\ read = TcpReadAs(TcpUpSet(k, c, left), in, k.did)

TcpDataIn(len, k, c, n, up, in, left, read) ==
    /\ TcpReading("data", len, k, c, read, left, left)
    /\ (read.stale <=> k.stale) /\ read.fd = k.fd /\ read.in = in
    /\ in \in Seq(TcpUnit) /\ left \in Seq(TcpUnit) /\ in \o left = k.in \o up
    /\ Len(in) = Len(k.in) + n

LEMMA TcpDataRead ==
    ASSUME NEW len, NEW k, TcpOutRight(k), TcpClear("data", len, k) => TcpInRight("data", len, k),
           NEW c \in TcpClients, NEW n, NEW up, NEW in, NEW left, NEW read, TcpDataCut(k, c, n, up, in, left, read)
    PROVE  TcpDataIn(len, k, c, n, up, in, left, read)
  <1> DEFINE had == k.in
             front == SubSeq(up, 1, n)
             set == TcpUpSet(k, c, left)
  <1>1. /\ up \in Seq(TcpUnit) /\ had \in Seq(TcpUnit) /\ k.did \in Seq(Seq(TcpUnit))
        /\ Len(had) + n <= TcpBuf /\ n \in 0..Len(up) /\ had = k.in
    BY DEF TcpOutRight, TcpChan, TcpPeer, TcpDataCut
  <1>2. TcpClear("data", len, k) => /\ TcpAllWhole(k.did)
                                    /\ TcpWrites("data", len, c, k.cli[c], had \o up)
    <2> SUFFICES ASSUME TcpClear("data", len, k)
                 PROVE  TcpAllWhole(k.did) /\ TcpWrites("data", len, c, k.cli[c], had \o up)
      OBVIOUS
    <2>1. k.cli[c].st = "open"
      BY DEF TcpOutRight, TcpPeerRight, TcpPeerKnown, TcpDataCut
    <2>2. TcpStream(k, c) = had \o up
      BY DEF TcpStream, TcpDataCut
    <2> QED BY <2>1, <2>2 DEF TcpInRight, TcpClientRight
  <1>2a. in = had \o front /\ left = SubSeq(up, n + 1, Len(up))
    BY DEF TcpDataCut
  <1> HIDE DEF had
  <1>3. /\ front \in Seq(TcpUnit) /\ left \in Seq(TcpUnit) /\ front \o left = up
        /\ Len(front) = n
    BY <1>1, <1>2a, TcpCut
  <1> HIDE DEF front
  <1>4. in \in Seq(TcpUnit) /\ in \o left = had \o up
    <2>1. (had \o front) \o left = had \o (front \o left) /\ had \o front \in Seq(TcpUnit)
      <3>1. had \in Seq(TcpUnit) /\ front \in Seq(TcpUnit) /\ left \in Seq(TcpUnit)
        BY <1>1, <1>3
      <3> QED BY <3>1, TcpCat
    <2> QED BY <1>2a, <1>3, <2>1
  <1>5. Len(in) = Len(had) + n
    <2>1. Len(had \o front) = Len(had) + Len(front)
      BY <1>1, <1>3, ConcatProperties
    <2> QED BY <1>2a, <1>3, <2>1
  <1>5a. read = TcpReadAs(set, in, k.did)
    BY DEF TcpDataCut
  <1> HIDE DEF set
  <1>6. /\ TcpOutRight(set) /\ set.in = k.in /\ set.did = k.did /\ set.out = k.out
        /\ TcpSameSt(set, k) /\ set.cli[c].up = left
        /\ set.cli[c].wrote = k.cli[c].wrote /\ set.cli[c].half = k.cli[c].half
        /\ (set.cli[c].closed <=> k.cli[c].closed)
        /\ \A e \in TcpClients \ {c} : set.cli[e] = k.cli[e]
    BY <1>3, TcpUpSetKeeps DEF set
  <1>7. /\ TcpOutRight(read) /\ read.in = in /\ read.did = k.did /\ read.fd = set.fd
        /\ read.cli = set.cli /\ (read.stale <=> set.stale)
    <2> DEFINE d == k.did
    <2>1. TcpOutRight(set) /\ in \in Seq(TcpUnit) /\ Len(in) <= TcpBuf /\ d \in Seq(Seq(TcpUnit))
      BY <1>1, <1>4, <1>5, <1>6
    <2> HIDE DEF d
    <2>2. LET x == TcpReadAs(set, in, d)
          IN  /\ TcpOutRight(x) /\ x.in = in /\ x.did = d /\ x.fd = set.fd /\ x.out = set.out
              /\ x.cli = set.cli /\ (x.stale <=> set.stale)
      BY <2>1, TcpReadAsKeeps
    <2> QED BY <1>5a, <2>2 DEF d
  <1>8. TcpSameAt(read, k) /\ TcpSameSt(read, k)
    BY <1>6, <1>7 DEF TcpSameAt, TcpSameSt
  <1>9. (read.stale <=> k.stale) /\ read.fd = k.fd
    BY <1>8 DEF TcpSameSt
  <1>10. TcpReading("data", len, k, c, read, left, left)
    <2>1. TcpClear("data", len, read) <=> TcpClear("data", len, k)
      BY <1>9 DEF TcpClear
    <2>2. /\ \A e \in TcpClients \ {c} : read.cli[e].up = k.cli[e].up
          /\ read.cli[c].up = left
      BY <1>6, <1>7
    <2>3. TcpClear("data", len, read) =>
             TcpAllWhole(read.did) /\ TcpWrites("data", len, c, k.cli[c], read.in \o left)
      BY <1>2, <1>4, <1>7, <2>1
    <2> QED BY <1>7, <1>8, <1>9, <2>2, <2>3 DEF TcpReading
  <1> QED BY <1>3, <1>4, <1>5, <1>7, <1>9, <1>10 DEF had, TcpDataIn

\* What has been written whole is in what is read.
TcpAhead(k, c, in, left) ==
    /\ k.fd = c /\ in \o left = k.in \o k.cli[c].up
    /\ Len(in) <= TcpBuf /\ (left = <<>> \/ Len(in) = TcpBuf)

LEMMA TcpWaitingIn ==
    ASSUME NEW k, NEW c \in TcpClients, NEW in \in Seq(TcpUnit), NEW left \in Seq(TcpUnit),
           TcpAhead(k, c, in, left)
    PROVE  \A m \in TcpWaiting(k) : \E j \in 1..Len(in) : in[j].m = m /\ in[j].i = in[j].m.len
  <1> DEFINE all == in \o left
             lo == Len(all)
             us == SubSeq(all, 1, Min({lo, TcpBuf}))
  <1>1. /\ Len(all) = Len(in) + Len(left) /\ Len(in) \in Nat /\ Len(left) \in Nat
        /\ \A j \in 1..Len(in) : all[j] = in[j]
        /\ left = <<>> => Len(left) = 0
        /\ all \in Seq(TcpUnit)
    OBVIOUS
  <1>2. TcpWaiting(k) = {us[i].m : i \in {j \in DOMAIN us : us[j].i = us[j].m.len}}
    <2>1. k.fd # "none" /\ k.in \o k.cli[k.fd].up = all
      BY DEF TcpClients, TcpAhead
    <2> HIDE DEF all
    <2> QED BY <2>1 DEF TcpWaiting
  <1> HIDE DEF all
  <1>3. Min({lo, TcpBuf}) \in Nat /\ Min({lo, TcpBuf}) <= lo /\ Min({lo, TcpBuf}) <= TcpBuf
        /\ (Min({lo, TcpBuf}) = lo \/ Min({lo, TcpBuf}) = TcpBuf)
    <2>1. lo \in Nat /\ TcpBuf \in Nat
      BY <1>1, TcpAssumption
    <2> HIDE DEF lo
    <2> QED BY <2>1, TcpMin
  <1>4. Min({lo, TcpBuf}) = Len(in)
    <2>1. TcpBuf \in Nat /\ Len(in) <= TcpBuf /\ (left = <<>> \/ Len(in) = TcpBuf)
      BY TcpAssumption DEF TcpAhead
    <2> QED BY <1>1, <1>3, <2>1
  <1>5. DOMAIN us = 1..Len(in) /\ \A j \in 1..Len(in) : us[j] = in[j]
    <2>1. us = SubSeq(all, 1, Len(in))
      BY <1>4
    <2>2. Len(in) \in 0..Len(all) /\ all \in Seq(TcpUnit)
      BY <1>1
    <2>3. SubSeq(all, 1, Len(in)) = [j \in 1..Len(in) |-> all[j]]
      BY <1>1, <2>2
    <2> HIDE DEF us
    <2>4. us = [j \in 1..Len(in) |-> all[j]]
      BY <2>1, <2>3, Zenon
    <2> QED BY <1>1, <2>4
  <1> HIDE DEF us
  <1> QED BY <1>2, <1>5

\* A service call of the data channel: what had been written when it began is
\* queued for transmission, as far as the buffer reaches.
LEMMA TcpDataServed ==
    ASSUME NEW len, NEW k, TcpOutRight(k), TcpClear("data", len, k) => TcpInRight("data", len, k),
           NEW fails \in BOOLEAN
    PROVE  /\ TcpServed("data", len, k, TcpServiceData(k, fails))
           /\ TcpClear("data", len, k) =>
                 \A m \in TcpWaiting(k) : TcpDone(m, TcpServiceData(k, fails).did)
  <1>1. CASE k.fd = "none"
    <2>1. TcpServiceData(k, fails) = k
      BY <1>1 DEF TcpServiceData
    <2>2. TcpServed("data", len, k, k)
      BY DEF TcpServed, TcpSameAt
    <2>3. TcpWaiting(k) = {}
      BY <1>1 DEF TcpWaiting
    <2> QED BY <2>1, <2>2, <2>3
  <1>2. CASE k.fd # "none" /\ Len(k.in) < TcpBuf /\ TcpEnded(k)
    <2>1. TcpServiceData(k, fails) = TcpHangUp(k)
      BY <1>2 DEF TcpServiceData
    <2>2. TcpServed("data", len, k, TcpHangUp(k)) /\ TcpHangUp(k).did = k.did
      BY <1>2, TcpHangUpServed
    <2>3. ASSUME TcpClear("data", len, k) PROVE TcpWaiting(k) = {}
      <3> DEFINE c == k.fd
                 in == k.in
                 left == k.cli[c].up
      <3>1. c \in TcpClients /\ left = <<>>
        BY <1>2 DEF TcpEnded, TcpOutRight, TcpChan, TcpClients
      <3>2. in \in Seq(TcpUnit) /\ left \in Seq(TcpUnit) /\ Len(in) <= TcpBuf
        BY <3>1 DEF TcpOutRight, TcpChan
      <3>3. TcpOpenEnded(in)
        BY <2>3 DEF TcpInRight
      <3>4. TcpAhead(k, c, in, left)
        BY <3>1, <3>2 DEF TcpAhead
      <3> HIDE DEF c, in, left
      <3>5. \A m \in TcpWaiting(k) : \E j \in 1..Len(in) : in[j].m = m /\ in[j].i = in[j].m.len
        <4>1. c \in TcpClients
          BY <3>1
        <4> QED BY <3>2, <3>4, <4>1, TcpWaitingIn
      <3> QED BY <3>3, <3>5 DEF TcpOpenEnded
    <2> QED BY <2>1, <2>2, <2>3
  <1>3. CASE k.fd # "none" /\ ~(Len(k.in) < TcpBuf /\ TcpEnded(k))
    <2> DEFINE c == k.fd
               up == k.cli[k.fd].up
               n == Min({Len(up), TcpBuf - Len(k.in)})
               read == [k EXCEPT !.in = @ \o SubSeq(up, 1, n),
                                 !.cli[k.fd].up = SubSeq(@, n + 1, Len(@))]
               Solves(h) == h = [i \in 0..TcpBuf |-> IF i = 0 THEN read ELSE TcpParseOne(h[i - 1])]
               parsed == CHOOSE h : Solves(h)
               t == parsed[TcpBuf]
               z == TcpResync(t)
               in == k.in \o SubSeq(up, 1, n)
               left == SubSeq(up, n + 1, Len(up))
    <2>1. /\ c \in TcpClients /\ k \in TcpChan /\ c = k.fd /\ up = k.cli[c].up
          /\ up \in Seq(TcpUnit) /\ Len(k.in) \in Nat /\ Len(k.in) <= TcpBuf /\ TcpBuf \in Nat
      BY <1>3, TcpAssumption DEF TcpOutRight, TcpChan, TcpClients, TcpPeer
    <2>2. TcpServiceData(k, fails) = IF fails THEN TcpDropUnsent(z) ELSE TcpFlush(z)
      <3>1. TcpServiceData(k, fails) =
               IF k.fd = "none" THEN k
               ELSE IF Len(k.in) < TcpBuf /\ TcpEnded(k) THEN TcpHangUp(k)
               ELSE IF fails THEN TcpDropUnsent(z) ELSE TcpFlush(z)
        BY DEF TcpServiceData
      <3> HIDE DEF z
      <3> QED BY <1>3, <3>1
    <2>3. read = TcpReadAs(TcpUpSet(k, c, left), in, k.did)
      <3> HIDE DEF n
      <3> QED BY <2>1 DEF TcpReadAs, TcpUpSet, TcpPeerSet, TcpChan, TcpPeer
    <2>4. n \in 0..Len(up) /\ Len(k.in) + n <= TcpBuf /\ (n = Len(up) \/ Len(k.in) + n = TcpBuf)
      <3> DEFINE lo == Len(up)
                 ro == TcpBuf - Len(k.in)
      <3>1. lo \in Nat /\ ro \in Nat
        BY <2>1
      <3> HIDE DEF lo, ro
      <3>2. /\ Min({lo, ro}) \in Nat /\ Min({lo, ro}) <= lo /\ Min({lo, ro}) <= ro
            /\ (Min({lo, ro}) = lo \/ Min({lo, ro}) = ro)
        BY <3>1, TcpMin
      <3>3. n = Min({lo, ro})
        BY DEF lo, ro
      <3> HIDE DEF n
      <3> QED BY <2>1, <3>1, <3>2, <3>3 DEF lo, ro
    <2> HIDE DEF n
    <2>5. TcpDataCut(k, c, n, up, in, left, read)
      BY <2>1, <2>3, <2>4 DEF TcpDataCut
    <2> HIDE DEF c, up, in, left, read
    <2>6. /\ TcpReading("data", len, k, c, read, left, left)
          /\ (read.stale <=> k.stale) /\ read.fd = k.fd /\ read.in = in
          /\ in \in Seq(TcpUnit) /\ left \in Seq(TcpUnit) /\ in \o left = k.in \o up
          /\ Len(in) = Len(k.in) + n
      <3>1. TcpDataIn(len, k, c, n, up, in, left, read)
        BY <2>1, <2>5, TcpDataRead
      <3> QED BY <3>1 DEF TcpDataIn
    <2> DEFINE D == {y \in TcpChan : TcpReading("data", len, k, c, y, left, left)}
               step == [p \in (1..TcpBuf) \X D |-> TcpParseOne(p[2])]
    <2>7. \A y \in D : /\ TcpParseOne(y) \in D /\ TcpParseOne(y).fd = y.fd
                       /\ (TcpParseOne(y).stale <=> y.stale)
      <3> TAKE y \in D
      <3> DEFINE x == TcpParseOne(y)
      <3>1. /\ TcpReading("data", len, k, c, x, left, left) /\ x.fd = y.fd /\ (x.stale <=> y.stale)
        <4>1. 0 \in Nat /\ TcpReading("data", len, k, c, y, left, left)
          OBVIOUS
        <4> QED BY <2>1, <2>6, <4>1, TcpParseStep
      <3> HIDE DEF x
      <3>2. x \in D
        BY <3>1 DEF TcpReading, TcpOutRight
      <3> QED BY <3>1, <3>2 DEF x
    <2>8. step \in [(1..TcpBuf) \X D -> D]
      BY <2>7
    <2>9. \A i \in 1..TcpBuf, y \in D : step[<<i, y>>] = TcpParseOne(y)
      OBVIOUS
    <2>9a. read \in D
      BY <2>6 DEF TcpReading, TcpOutRight
    <2>9b. \A y \in D : TcpReading("data", len, k, c, y, left, left)
      OBVIOUS
    <2> HIDE DEF D, step
    <2>10. PICK g : StepsFrom(g, step, TcpBuf, D, read)
      <3>1. TcpBuf \in Nat /\ read \in D /\ StepsIn(step, TcpBuf, D)
        BY <2>1, <2>8, <2>9a DEF StepsIn
      <3> QED BY <3>1, StepsExist
    <2>11. /\ g \in [0..TcpBuf -> D]
           /\ g[0] = read
           /\ \A i \in 1..TcpBuf : g[i] = step[<<i, g[i - 1]>>]
      BY <2>10 DEF StepsFrom
    <2>12. Solves(g)
      <3>1. ASSUME NEW i \in 0..TcpBuf
            PROVE  g[i] = IF i = 0 THEN read ELSE TcpParseOne(g[i - 1])
        <4>1. CASE i = 0
          BY <2>11, <4>1
        <4>2. CASE i # 0
          <5>1. i \in 1..TcpBuf /\ i - 1 \in 0..TcpBuf
            BY <2>1, <4>2
          <5>2. g[i] = step[<<i, g[i - 1]>>] /\ g[i - 1] \in D
            BY <2>11, <5>1
          <5>3. step[<<i, g[i - 1]>>] = TcpParseOne(g[i - 1])
            BY <2>9, <5>1, <5>2
          <5> QED BY <4>2, <5>2, <5>3
        <4> QED BY <4>1, <4>2
      <3> QED BY <2>11, <3>1
    <2>13. Solves(parsed)
      <3> HIDE DEF Solves
      <3> QED BY <2>12
    <2> HIDE DEF parsed
    <2>14. /\ parsed[0] = read
           /\ \A i \in 1..TcpBuf : parsed[i] = TcpParseOne(parsed[i - 1])
      BY <2>1, <2>13
    <2> HIDE DEF Solves
    <2> DEFINE Good(i) ==
                  /\ parsed[i] \in D /\ parsed[i].fd = k.fd /\ (parsed[i].stale <=> k.stale)
                  /\ TcpClear("data", len, k) => TcpParsed(in, parsed[i], i)
               S == {i \in 0..TcpBuf : Good(i)}
    <2>15. 0 \in S
      <3>1. TcpParsed(in, read, 0)
        <4>1. Len(in) + 0 <= TcpBuf
          BY <2>1, <2>4, <2>6
        <4>2. \A j \in 1..Len(in) : \E l \in 1..Len(read.in) : read.in[l] = in[j]
          BY <2>6
        <4> QED BY <2>6, <4>1, <4>2 DEF TcpParsed
      <3>2. Good(0)
        BY <2>6, <2>9a, <2>14, <3>1
      <3> QED BY <2>1, <3>2
    <2>16. ASSUME NEW i \in 0..TcpBuf, i \in S, i < TcpBuf PROVE i + 1 \in S
      <3> DEFINE y == parsed[i]
                 x == TcpParseOne(y)
      <3>1. parsed[i + 1] = x
        <4>1. i + 1 \in 1..TcpBuf /\ (i + 1) - 1 = i
          BY <2>1, <2>16
        <4> QED BY <2>14, <4>1
      <3>2. /\ y \in D /\ y.fd = k.fd /\ (y.stale <=> k.stale)
            /\ TcpClear("data", len, k) => TcpParsed(in, y, i)
        BY <2>16
      <3>3. x \in D /\ x.fd = y.fd /\ (x.stale <=> y.stale)
        BY <2>7, <3>2
      <3>4. ASSUME TcpClear("data", len, k) PROVE TcpParsed(in, x, i + 1)
        <4>1. TcpClear("data", len, y) /\ TcpParsed(in, y, i) /\ i \in Nat
          BY <3>2, <3>4 DEF TcpClear
        <4>2. TcpReading("data", len, k, c, y, left, left)
          BY <2>9b, <3>2
        <4> HIDE DEF y
        <4> QED BY <2>1, <2>6, <4>1, <4>2, TcpParseStep
      <3> HIDE DEF x, y
      <3>5. Good(i + 1)
        BY <3>1, <3>2, <3>3, <3>4
      <3> QED BY <2>1, <2>16, <3>5
    <2>17. Good(TcpBuf)
      <3> HIDE DEF Good
      <3>1. \A i \in 0..TcpBuf : i \in S
        BY <2>1, <2>15, <2>16, UptoClosed
      <3> QED BY <2>1, <3>1
    <2>18. /\ TcpReading("data", len, k, c, t, left, left) /\ t.fd = k.fd /\ (t.stale <=> k.stale)
           /\ TcpClear("data", len, k) => TcpParsed(in, t, TcpBuf)
      BY <2>9b, <2>17
    <2> HIDE DEF t, Good
    <2>19. ASSUME TcpClear("data", len, k)
           PROVE  /\ TcpOpenEnded(t.in) /\ Len(t.in) < TcpBuf
                  /\ \A m \in TcpWaiting(k) : TcpDone(m, t.did)
      <3>1. TcpClear("data", len, t)
        BY <2>18, <2>19 DEF TcpClear
      <3>2. t.in \in Seq(TcpUnit) /\ TcpWrites("data", len, c, k.cli[c], t.in \o left)
        BY <2>18, <3>1 DEF TcpReading, TcpOutRight, TcpChan
      <3>3. TcpFlow(t.in)
        BY <2>6, <3>2, TcpFlowBack DEF TcpWrites
      <3>4. TcpOpenEnded(t.in)
        <4>1. CASE t.in = <<>>
          BY <4>1 DEF TcpOpenEnded
        <4>2. CASE t.in # <<>>
          <5>1. TcpStuck(t.in)
            <6>1. Len(t.in) \in Nat /\ Len(t.in) > 0
              BY <3>2, <4>2
            <6>2. ~(Len(t.in) + TcpBuf <= TcpBuf)
              BY <2>1, <6>1
            <6> QED BY <2>18, <2>19, <6>2 DEF TcpParsed
          <5>2. t.in[1].i = 1
            BY <3>3, <4>2 DEF TcpFlow
          <5>3. Len(t.in) < t.in[1].m.len
            BY <4>2, <5>1, <5>2 DEF TcpStuck, TcpFrameLen
          <5> QED BY <3>2, <3>3, <4>2, <5>3, TcpFlowWhole
        <4> QED BY <4>1, <4>2
      <3>5. Len(t.in) < TcpBuf
        BY <3>2, <3>3, <3>4, TcpUnfinishedFits
      <3>6. ASSUME NEW m \in TcpWaiting(k) PROVE TcpDone(m, t.did)
        <4>1. left = <<>> \/ Len(in) = TcpBuf
          <5>1. n = Len(up) => left = <<>>
            BY <2>1 DEF left
          <5> QED BY <2>4, <2>6, <5>1
        <4>2. TcpAhead(k, c, in, left)
          BY <2>1, <2>4, <2>6, <4>1 DEF TcpAhead
        <4>3. PICK j \in 1..Len(in) : in[j].m = m /\ in[j].i = in[j].m.len
          <5>1. c \in TcpClients /\ in \in Seq(TcpUnit) /\ left \in Seq(TcpUnit)
            BY <2>1, <2>6
          <5> QED BY <4>2, <5>1, TcpWaitingIn
        <4>4. TcpDone(m, t.did) \/ \E l \in 1..Len(t.in) : t.in[l] = in[j]
          BY <2>18, <2>19, <4>3 DEF TcpParsed
        <4>5. ASSUME NEW l \in 1..Len(t.in), t.in[l] = in[j] PROVE FALSE
          BY <3>4, <4>3, <4>5 DEF TcpOpenEnded
        <4> QED BY <4>4, <4>5
      <3> QED BY <3>4, <3>5, <3>6
    <2>20. /\ TcpReading("data", len, k, c, z, left, left) /\ z.fd = k.fd /\ (z.stale <=> k.stale)
           /\ z.did = t.did
           /\ TcpClear("data", len, k) => z = t
      <3>1. CASE Len(t.in) < TcpBuf
        <4>1. z = t
          <5>1. Len(t.in) \in Nat
            BY <2>18 DEF TcpReading, TcpOutRight, TcpChan
          <5> QED BY <2>1, <3>1, <5>1 DEF TcpResync
        <4> HIDE DEF z
        <4> QED BY <2>18, <4>1
      <3>2. CASE ~(Len(t.in) < TcpBuf)
        <4> DEFINE e == <<>>
                   d == t.did
        <4>1. ~TcpClear("data", len, k) /\ TcpOutRight(t) /\ t \in TcpChan
          BY <2>18, <2>19, <3>2 DEF TcpReading, TcpOutRight
        <4>2. z = TcpReadAs(t, e, d)
          <5>1. Len(t.in) \in Nat
            BY <4>1 DEF TcpChan
          <5>2. z = [t EXCEPT !.in = <<>>]
            BY <2>1, <3>2, <5>1 DEF TcpResync
          <5> QED BY <4>1, <5>2 DEF TcpReadAs, TcpChan
        <4>3. e \in Seq(TcpUnit) /\ Len(e) <= TcpBuf /\ d \in Seq(Seq(TcpUnit)) /\ d = t.did
          BY <2>1, <4>1 DEF TcpChan
        <4> HIDE DEF e, d, z
        <4>4. LET x == TcpReadAs(t, e, d)
              IN  /\ TcpOutRight(x) /\ x.in = e /\ x.did = d /\ x.fd = t.fd /\ x.out = t.out
                  /\ x.cli = t.cli /\ (x.stale <=> t.stale)
          BY <4>1, <4>3, TcpReadAsKeeps
        <4>5. /\ TcpOutRight(z) /\ z.did = d /\ z.fd = t.fd /\ z.cli = t.cli
              /\ (z.stale <=> t.stale)
          BY <4>2, <4>4
        <4>6. ~TcpClear("data", len, z)
          BY <2>18, <4>1, <4>5 DEF TcpClear
        <4>7. TcpReading("data", len, k, c, z, left, left)
          BY <2>18, <4>5, <4>6 DEF TcpReading, TcpSameAt
        <4> QED BY <2>18, <4>1, <4>3, <4>5, <4>7
      <3> QED BY <3>1, <3>2
    <2> HIDE DEF z
    <2>21. TcpServed("data", len, k, z)
      <3>1. TcpClear("data", len, z) => TcpOpenEnded(z.in)
        BY <2>19, <2>20 DEF TcpClear
      <3>2. k.fd = c
        BY <2>1
      <3> QED BY <2>1, <2>20, <3>1, <3>2, TcpReadServed
    <2>22. z.fd # "none" /\ TcpOutRight(z)
      BY <1>3, <2>20, <2>21 DEF TcpServed
    <2>23. TcpServed("data", len, k, TcpServiceData(k, fails))
      BY <2>2, <2>21, <2>22, TcpSent
    <2>24. TcpServiceData(k, fails).did = t.did
      BY <2>2, <2>20, <2>22, TcpSentDid
    <2> QED BY <2>19, <2>23, <2>24
  <1> QED BY <1>1, <1>2, <1>3

-----------------------------------------------------------------------------
(* What the clients do. *)

\* One more unit written.
LEMMA TcpWriteOn ==
    ASSUME NEW ch, NEW len, NEW c, NEW s, NEW stream \in Seq(TcpUnit),
           TcpWrites(ch, len, c, s, stream), NEW want \in Nat \ {0},
           want = TcpLenOf(ch, len, s.wrote), want <= TcpBuf,
           s.half \in Nat, s.half < want, NEW u \in TcpUnit, NEW p
    PROVE  (/\ s.closed = FALSE
            /\ u = [m |-> TcpMsg(c, s.wrote + 1, want), i |-> s.half + 1]
            /\ p.half = IF s.half + 1 = want THEN 0 ELSE s.half + 1
            /\ p.wrote = IF s.half + 1 = want THEN s.wrote + 1 ELSE s.wrote)
           => TcpWrites(ch, len, c, p, Append(stream, u))
  <1> SUFFICES ASSUME s.closed = FALSE,
                      u = [m |-> TcpMsg(c, s.wrote + 1, want), i |-> s.half + 1],
                      p.half = IF s.half + 1 = want THEN 0 ELSE s.half + 1,
                      p.wrote = IF s.half + 1 = want THEN s.wrote + 1 ELSE s.wrote
               PROVE  TcpWrites(ch, len, c, p, Append(stream, u))
    OBVIOUS
  <1> DEFINE x == Append(stream, u)
             n == Len(stream)
  <1>1. /\ x \in Seq(TcpUnit) /\ Len(x) = n + 1 /\ n \in Nat /\ x # <<>> /\ x[n + 1] = u
        /\ \A j \in 1..n : x[j] = stream[j]
        /\ stream = <<>> => n = 0
        /\ stream # <<>> => n >= 1
    OBVIOUS
  <1>2. u.i = s.half + 1 /\ u.m.len = want /\ u.m = TcpMsg(c, s.wrote + 1, want)
    BY DEF TcpMsg
  <1>3. TcpFlow(stream) /\ TcpAtHalf(ch, len, c, s, stream)
    BY DEF TcpWrites
  <1>4. stream # <<>> =>
          IF s.half = 0 THEN stream[n].i = stream[n].m.len
          ELSE stream[n].m = u.m /\ stream[n].i = s.half
    BY <1>2, <1>3 DEF TcpAtHalf
  <1>5. stream = <<>> => s.half = 0
    BY <1>3 DEF TcpAtHalf
  <1> HIDE DEF x, n
  <1>6. TcpFlow(x)
    <2>1. x[1].i = 1
      <3>1. CASE stream = <<>>
        BY <1>1, <1>2, <1>5, <3>1
      <3>2. CASE stream # <<>>
        <4>1. 1 \in 1..n /\ stream[1].i = 1
          BY <1>1, <1>3, <3>2 DEF TcpFlow
        <4> QED BY <1>1, <4>1
      <3> QED BY <3>1, <3>2
    <2>2. ASSUME NEW j \in 1..(Len(x) - 1) PROVE TcpFollows(x[j], x[j + 1])
      <3>1. CASE j < n
        <4>1. j \in 1..(n - 1) /\ j \in 1..n /\ j + 1 \in 1..n
          BY <1>1, <3>1
        <4>2. TcpFollows(stream[j], stream[j + 1])
          BY <1>3, <4>1 DEF TcpFlow, n
        <4> QED BY <1>1, <4>1, <4>2
      <3>2. CASE j = n
        <4>1. x[j] = stream[n] /\ x[j + 1] = u /\ stream # <<>>
          BY <1>1, <3>2
        <4>2. TcpFollows(stream[n], u)
          <5>1. CASE s.half = 0
            BY <1>2, <1>4, <4>1, <5>1 DEF TcpFollows
          <5>2. CASE s.half # 0
            <6>1. stream[n].m = u.m /\ stream[n].i = s.half
              BY <1>4, <4>1, <5>2
            <6>2. stream[n].i # stream[n].m.len
              BY <1>2, <6>1
            <6> QED BY <1>2, <6>1, <6>2 DEF TcpFollows
          <5> QED BY <5>1, <5>2
        <4> QED BY <4>1, <4>2
      <3> QED BY <1>1, <3>1, <3>2
    <2>3. ASSUME NEW j \in 1..Len(x) PROVE x[j].i <= x[j].m.len /\ x[j].m.len <= TcpBuf
      <3>1. CASE j \in 1..n
        BY <1>1, <1>3, <3>1 DEF TcpFlow, n
      <3>2. CASE j = n + 1
        BY <1>1, <1>2, <3>2
      <3> QED BY <1>1, <3>1, <3>2
    <2> QED BY <2>1, <2>2, <2>3 DEF TcpFlow
  <1>7. TcpAtHalf(ch, len, c, p, x)
    <2>1. CASE s.half + 1 = want
      BY <1>1, <1>2, <2>1 DEF TcpAtHalf
    <2>2. CASE s.half + 1 # want
      <3>1. p.half = s.half + 1 /\ p.wrote = s.wrote /\ p.half # 0
        BY <2>2
      <3>2. x # <<>> /\ x[Len(x)] = u /\ p.half < want
        BY <1>1, <2>2, <3>1
      <3>3. TcpLenOf(ch, len, p.wrote) = want
        BY <3>1
      <3>4. u = [m |-> TcpMsg(c, p.wrote + 1, want), i |-> p.half]
        BY <3>1
      <3> HIDE DEF TcpLenOf
      <3> QED BY <3>1, <3>2, <3>3, <3>4 DEF TcpAtHalf
    <2> QED BY <2>1, <2>2
  <1> QED BY <1>6, <1>7 DEF TcpWrites, x

\* One client changed.
LEMMA TcpPeerSetInv ==
    ASSUME NEW ch, NEW len, NEW k, TcpChanInv(ch, len, k), NEW c \in TcpClients, NEW p \in TcpPeer,
           TcpSeesAs(p, k.cli[c]), p.half < TcpLenOf(ch, len, p.wrote),
           TcpClear(ch, len, k) => TcpClientRight(ch, len, TcpPeerSet(k, c, p), c)
    PROVE  TcpChanInv(ch, len, TcpPeerSet(k, c, p)) /\ TcpPeerSet(k, c, p).did = k.did
  <1> DEFINE t == TcpPeerSet(k, c, p)
  <1>0. TcpOutRight(k)
    BY DEF TcpChanInv
  <1>1. /\ TcpOutRight(t) /\ t.in = k.in /\ t.did = k.did /\ t.fd = k.fd /\ t.out = k.out
        /\ (t.stale <=> k.stale) /\ t.cli[c] = p
        /\ \A e \in TcpClients \ {c} : t.cli[e] = k.cli[e]
    BY <1>0, TcpPeerSetKeeps
  <1>2. TcpClear(ch, len, k) => TcpClientRight(ch, len, t, c)
    OBVIOUS
  <1> HIDE DEF t
  <1>3. TcpHalfFits(ch, len, t)
    BY <1>1 DEF TcpChanInv, TcpHalfFits
  <1>4. ASSUME TcpClear(ch, len, t) PROVE TcpInRight(ch, len, t)
    <2>1. TcpClear(ch, len, k)
      BY <1>1, <1>4 DEF TcpClear
    <2>2. TcpInRight(ch, len, k)
      BY <2>1 DEF TcpChanInv
    <2>3. ASSUME NEW e \in TcpClients \ {c} PROVE TcpClientRight(ch, len, t, e)
      <3>1. TcpClientRight(ch, len, k, e)
        BY <2>2 DEF TcpInRight
      <3>2. t.cli[e] = k.cli[e] /\ TcpStream(t, e) = TcpStream(k, e)
        BY <1>1 DEF TcpStream
      <3> QED BY <3>1, <3>2 DEF TcpClientRight
    <2> QED BY <1>1, <1>2, <2>1, <2>2, <2>3 DEF TcpInRight
  <1> QED BY <1>1, <1>3, <1>4 DEF TcpChanInv, t

LEMMA TcpWritesNothing ==
    ASSUME NEW ch, NEW len, NEW c, NEW s, s.half = 0
    PROVE  TcpWrites(ch, len, c, s, <<>>)
  BY DEF TcpWrites, TcpFlow, TcpAtHalf

LEMMA TcpPeerTypes ==
    ASSUME NEW ch, NEW len, NEW k, TcpChanInv(ch, len, k), NEW c \in TcpClients
    PROVE  /\ k \in TcpChan /\ k.cli[c] \in TcpPeer /\ TcpPeerKnown(k, c) /\ c # "none"
           /\ k.cli[c].half < TcpLenOf(ch, len, k.cli[c].wrote)
           /\ k.in \in Seq(TcpUnit)
           /\ TcpClear(ch, len, k) => TcpClientRight(ch, len, k, c)
  <1>1. k \in TcpChan /\ TcpPeerRight(k, c)
    BY DEF TcpChanInv, TcpOutRight
  <1>2. TcpClear(ch, len, k) => TcpClientRight(ch, len, k, c)
    BY DEF TcpChanInv, TcpInRight
  <1> QED BY <1>1, <1>2 DEF TcpChan, TcpPeerRight, TcpChanInv, TcpHalfFits, TcpClients

LEMMA TcpDialed ==
    ASSUME NEW ch, NEW len, NEW k, TcpChanInv(ch, len, k), NEW c \in TcpClients
    PROVE  LET t == TcpPeerSet(k, c, [k.cli[c] EXCEPT !.st = "pending"])
           IN  k.cli[c].st = "away" => TcpChanInv(ch, len, t) /\ t.did = k.did
  <1> SUFFICES ASSUME k.cli[c].st = "away"
               PROVE  LET t == TcpPeerSet(k, c, [k.cli[c] EXCEPT !.st = "pending"])
                      IN  TcpChanInv(ch, len, t) /\ t.did = k.did
    OBVIOUS
  <1> DEFINE s == k.cli[c]
             p == [s EXCEPT !.st = "pending"]
             t == TcpPeerSet(k, c, p)
  <1>1. /\ k \in TcpChan /\ s \in TcpPeer /\ TcpPeerKnown(k, c) /\ c # "none"
        /\ s.half < TcpLenOf(ch, len, s.wrote)
        /\ TcpClear(ch, len, k) => TcpClientRight(ch, len, k, c)
    BY TcpPeerTypes
  <1>2. s.saw = <<>> /\ s.down = <<>> /\ s.owed = <<>> /\ k.fd # c /\ Len(s.down) <= TcpSock
    BY <1>1 DEF TcpPeerKnown
  <1>3. /\ p \in TcpPeer /\ p.st = "pending" /\ p.up = s.up /\ p.down = s.down /\ p.saw = s.saw
        /\ p.owed = s.owed /\ p.wrote = s.wrote /\ p.half = s.half
    BY <1>1 DEF TcpPeer
  <1>4. s = k.cli[c] /\ s.st = "away"
    OBVIOUS
  <1> HIDE DEF s, p
  <1>5. TcpSeesAs(p, s)
    BY <1>2, <1>3, <1>4 DEF TcpSeesAs, TcpSeen
  <1>6. TcpClear(ch, len, k) => TcpClientRight(ch, len, t, c)
    <2> SUFFICES ASSUME TcpClear(ch, len, k) PROVE TcpClientRight(ch, len, t, c)
      OBVIOUS
    <2>1. s.up = <<>> /\ s.half = 0
      BY <1>1, <1>4 DEF TcpClientRight
    <2>2. t.cli[c] = p /\ t.fd = k.fd
      BY <1>1 DEF TcpPeerSet, TcpChan
    <2>3. TcpStream(t, c) = <<>>
      BY <1>2, <1>3, <2>1, <2>2 DEF TcpStream
    <2>4. TcpWrites(ch, len, c, p, <<>>)
      BY <1>3, <2>1, TcpWritesNothing
    <2> QED BY <1>3, <2>2, <2>3, <2>4 DEF TcpClientRight
  <1>7. p.half < TcpLenOf(ch, len, p.wrote)
    BY <1>1, <1>3
  <1>8. TcpChanInv(ch, len, t) /\ t.did = k.did
    BY <1>3, <1>4, <1>5, <1>6, <1>7, TcpPeerSetInv
  <1> QED BY <1>8 DEF t, p, s

TcpToRead(k, c) == k.cli[c].down # <<>>
TcpReadSet(k, c) == TcpPeerSet(k, c, [k.cli[c] EXCEPT !.saw = @ \o k.cli[c].down, !.down = <<>>])

LEMMA TcpReadOff ==
    ASSUME NEW ch, NEW len, NEW k, TcpChanInv(ch, len, k), NEW c \in TcpClients,
           TcpToRead(k, c)
    PROVE  TcpChanInv(ch, len, TcpReadSet(k, c)) /\ TcpReadSet(k, c).did = k.did
  <1> DEFINE s == k.cli[c]
             p == [s EXCEPT !.saw = @ \o s.down, !.down = <<>>]
             t == TcpPeerSet(k, c, p)
  <1>1. /\ k \in TcpChan /\ s \in TcpPeer /\ TcpPeerKnown(k, c) /\ c # "none"
        /\ s.half < TcpLenOf(ch, len, s.wrote)
        /\ TcpClear(ch, len, k) => TcpClientRight(ch, len, k, c)
    BY TcpPeerTypes
  <1>2. s.down \in Seq(TcpUnit) /\ s.saw \in Seq(TcpUnit) /\ TcpSeen(s) \in Seq(TcpUnit)
    BY <1>1 DEF TcpPeer, TcpSeen
  <1>3. /\ p \in TcpPeer /\ p.st = s.st /\ p.up = s.up /\ p.down = <<>> /\ p.saw = TcpSeen(s)
        /\ p.owed = s.owed /\ p.wrote = s.wrote /\ p.half = s.half /\ (p.closed <=> s.closed)
    <2>1. <<>> \in Seq(TcpUnit)
      OBVIOUS
    <2> QED BY <1>1, <1>2, <2>1 DEF TcpPeer, TcpSeen
  <1>4. s = k.cli[c] /\ s.down # <<>>
    BY DEF TcpToRead
  <1> HIDE DEF s, p
  <1>5. TcpSeen(p) = TcpSeen(s)
    <2> DEFINE x == TcpSeen(s)
    <2>1. x \in Seq(TcpUnit) /\ TcpSeen(p) = x \o <<>>
      BY <1>2, <1>3 DEF TcpSeen
    <2> HIDE DEF x
    <2>2. x \o <<>> = x
      BY <2>1, TcpCat
    <2> QED BY <2>1, <2>2 DEF x
  <1>6. s.st \notin {"away", "pending"}
    BY <1>1, <1>4 DEF TcpPeerKnown
  <1>7. TcpSeesAs(p, s)
    <2> HIDE DEF TcpSeen
    <2>1. Len(p.down) <= TcpSock
      BY <1>3, TcpAssumption
    <2> QED BY <1>3, <1>5, <1>6, <2>1 DEF TcpSeesAs
  <1>8. TcpClear(ch, len, k) => TcpClientRight(ch, len, t, c)
    <2> SUFFICES ASSUME TcpClear(ch, len, k) PROVE TcpClientRight(ch, len, t, c)
      OBVIOUS
    <2>1. t.cli[c] = p /\ t.fd = k.fd /\ t.in = k.in
      BY <1>1 DEF TcpPeerSet, TcpChan
    <2>2. TcpStream(t, c) = TcpStream(k, c)
      BY <1>3, <1>4, <2>1 DEF TcpStream
    <2>3. TcpClientRight(ch, len, k, c)
      BY <1>1
    <2> HIDE DEF TcpStream
    <2>4. TcpWrites(ch, len, c, s, TcpStream(k, c)) => TcpWrites(ch, len, c, p, TcpStream(k, c))
      BY <1>3, TcpWritesAs
    <2> QED BY <1>3, <1>4, <1>6, <2>1, <2>2, <2>3, <2>4 DEF TcpClientRight
  <1>9. p.half < TcpLenOf(ch, len, p.wrote)
    BY <1>1, <1>3
  <1>10. TcpChanInv(ch, len, t) /\ t.did = k.did
    BY <1>3, <1>4, <1>7, <1>8, <1>9, TcpPeerSetInv
  <1>11. t = TcpReadSet(k, c)
    BY DEF t, p, s, TcpReadSet
  <1> HIDE DEF t
  <1> QED BY <1>10, <1>11

TcpGoes(k, c, yes, up) ==
    /\ k.cli[c].st \in {"pending", "open"} /\ yes \in BOOLEAN /\ yes
    /\ up \in {<<>>, k.cli[c].up}

TcpLeaveSet(k, c, yes, up) == TcpPeerSet(k, c, [k.cli[c] EXCEPT !.closed = yes, !.up = up])

LEMMA TcpLeft ==
    ASSUME NEW ch, NEW len, NEW k, TcpChanInv(ch, len, k), NEW c \in TcpClients,
           NEW yes, NEW up, TcpGoes(k, c, yes, up)
    PROVE  LET t == TcpLeaveSet(k, c, yes, up)
           IN  TcpChanInv(ch, len, t) /\ t.did = k.did
  <1> DEFINE s == k.cli[c]
             p == [s EXCEPT !.closed = yes, !.up = up]
             t == TcpPeerSet(k, c, p)
  <1>1. /\ k \in TcpChan /\ s \in TcpPeer /\ TcpPeerKnown(k, c) /\ c # "none"
        /\ s.half < TcpLenOf(ch, len, s.wrote) /\ k.in \in Seq(TcpUnit)
        /\ TcpClear(ch, len, k) => TcpClientRight(ch, len, k, c)
    BY TcpPeerTypes
  <1>2. up \in Seq(TcpUnit) /\ s.up \in Seq(TcpUnit)
    <2>1. s.up \in Seq(TcpUnit)
      BY <1>1 DEF TcpPeer
    <2>2. up = <<>> \/ up = s.up
      BY DEF TcpGoes
    <2>3. <<>> \in Seq(TcpUnit)
      OBVIOUS
    <2> HIDE DEF s
    <2> QED BY <2>1, <2>2, <2>3, Zenon
  <1>3. /\ p \in TcpPeer /\ p.st = s.st /\ p.up = up /\ p.down = s.down /\ p.saw = s.saw
        /\ p.owed = s.owed /\ p.wrote = s.wrote /\ p.half = s.half /\ p.closed
    BY <1>1, <1>2 DEF TcpPeer, TcpGoes
  <1>4. s = k.cli[c] /\ s.st \in {"pending", "open"} /\ up \in {<<>>, s.up}
    BY DEF TcpGoes
  <1> HIDE DEF s, p
  <1>5. TcpSeesAs(p, s)
    <2>1. TcpSeen(p) = TcpSeen(s)
      BY <1>3 DEF TcpSeen
    <2> HIDE DEF TcpSeen
    <2> QED BY <1>1, <1>3, <1>4, <2>1 DEF TcpSeesAs, TcpPeerKnown
  <1>6. TcpClear(ch, len, k) => TcpClientRight(ch, len, t, c)
    <2> SUFFICES ASSUME TcpClear(ch, len, k) PROVE TcpClientRight(ch, len, t, c)
      OBVIOUS
    <2>1. t.cli[c] = p /\ t.fd = k.fd /\ t.in = k.in
      BY <1>1 DEF TcpPeerSet, TcpChan
    <2>2. TcpFlow(TcpStream(k, c))
      BY <1>1, <1>4 DEF TcpClientRight, TcpWrites
    <2>3. TcpFlow(TcpStream(t, c))
      <3>1. CASE up = s.up
        <4>1. TcpStream(t, c) = TcpStream(k, c)
          BY <1>3, <1>4, <2>1, <3>1 DEF TcpStream
        <4> QED BY <2>2, <4>1
      <3>2. CASE up = <<>> /\ k.fd = c
        <4>1. TcpStream(t, c) = k.in \o <<>> /\ TcpStream(k, c) = k.in \o s.up
          BY <1>3, <1>4, <2>1, <3>2 DEF TcpStream
        <4> DEFINE in == k.in
        <4>2. in \in Seq(TcpUnit) /\ TcpFlow(in \o s.up)
          BY <1>1, <2>2, <4>1
        <4> HIDE DEF in
        <4>3. TcpFlow(in) /\ in \o <<>> = in
          BY <1>2, <4>2, TcpFlowBack, TcpCat
        <4> QED BY <4>1, <4>3 DEF in
      <3>3. CASE up = <<>> /\ k.fd # c
        <4>1. TcpStream(t, c) = <<>>
          BY <1>3, <2>1, <3>3 DEF TcpStream
        <4> QED BY <4>1 DEF TcpFlow
      <3> QED BY <1>4, <3>1, <3>2, <3>3
    <2>4. TcpWrites(ch, len, c, p, TcpStream(t, c))
      BY <1>3, <2>3 DEF TcpWrites
    <2> QED BY <1>3, <1>4, <2>1, <2>4 DEF TcpClientRight
  <1>7. p.half < TcpLenOf(ch, len, p.wrote)
    BY <1>1, <1>3
  <1>8. TcpChanInv(ch, len, t) /\ t.did = k.did
    BY <1>3, <1>4, <1>5, <1>6, <1>7, TcpPeerSetInv
  <1> QED BY <1>8 DEF t, p, s, TcpLeaveSet

TcpUnitWritten(ch, len, c, s, want, u, up, half, wrote) ==
    /\ s.st \in {"pending", "open"} /\ s.closed = FALSE
    /\ want = TcpLenOf(ch, len, s.wrote)
    /\ u = TcpUnits(TcpMsg(c, s.wrote + 1, want))[s.half + 1]
    /\ up = Append(s.up, u)
    /\ half = IF s.half + 1 = want THEN 0 ELSE s.half + 1
    /\ wrote = IF s.half + 1 = want THEN s.wrote + 1 ELSE s.wrote

TcpWriteSet(k, c, up, half, wrote) ==
    TcpPeerSet(k, c, [k.cli[c] EXCEPT !.up = up, !.half = half, !.wrote = wrote])

LEMMA TcpWrote ==
    ASSUME NEW ch \in TcpChannels, NEW len \in Nat \ {0}, NEW k, TcpChanInv(ch, len, k),
           NEW c \in TcpClients, NEW want, NEW u, NEW half, NEW wrote, NEW up,
           TcpUnitWritten(ch, len, c, k.cli[c], want, u, up, half, wrote)
    PROVE  LET t == TcpWriteSet(k, c, up, half, wrote)
           IN  TcpChanInv(ch, len, t) /\ t.did = k.did
  <1> DEFINE s == k.cli[c]
             p == [s EXCEPT !.up = up, !.half = half, !.wrote = wrote]
             t == TcpPeerSet(k, c, p)
  <1>0. /\ s.st \in {"pending", "open"} /\ s.closed = FALSE
        /\ want = TcpLenOf(ch, len, s.wrote)
        /\ u = TcpUnits(TcpMsg(c, s.wrote + 1, want))[s.half + 1]
        /\ up = Append(s.up, u)
        /\ half = IF s.half + 1 = want THEN 0 ELSE s.half + 1
        /\ wrote = IF s.half + 1 = want THEN s.wrote + 1 ELSE s.wrote
    BY DEF TcpUnitWritten
  <1>1. /\ k \in TcpChan /\ s \in TcpPeer /\ TcpPeerKnown(k, c) /\ c # "none"
        /\ s.half < TcpLenOf(ch, len, s.wrote) /\ k.in \in Seq(TcpUnit)
        /\ TcpClear(ch, len, k) => TcpClientRight(ch, len, k, c)
    BY TcpPeerTypes
  <1>2. want \in Nat \ {0} /\ s.half \in Nat /\ s.half < want /\ s.wrote \in Nat
    BY <1>0, <1>1 DEF TcpLenOf, TcpPeer
  <1> DEFINE m == TcpMsg(c, s.wrote + 1, want)
  <1>3. m \in TcpMessages /\ m.len = want
    BY <1>2 DEF TcpMsg, TcpMessages, TcpClients
  <1>4. u = [m |-> m, i |-> s.half + 1] /\ u \in TcpUnit
    <2>1. s.half + 1 \in 1..m.len
      <3> DEFINE h == s.half
      <3>1. h \in Nat /\ h < want /\ want \in Nat
        BY <1>2
      <3> HIDE DEF h, m
      <3>2. h + 1 \in 1..want
        BY <3>1
      <3> QED BY <1>3, <3>2 DEF h
    <2>2. u = TcpUnits(m)[s.half + 1]
      BY <1>0
    <2> HIDE DEF m
    <2>3. u = [m |-> m, i |-> s.half + 1]
      BY <1>3, <2>1, <2>2, TcpUnitsSeq
    <2> QED BY <1>2, <1>3, <2>3 DEF TcpUnit
  <1>5. half \in Nat /\ wrote \in Nat
    <2>1. half \in {0, s.half + 1} /\ wrote \in {s.wrote, s.wrote + 1}
      BY <1>0
    <2> HIDE DEF s
    <2> QED BY <1>2, <2>1
  <1>6. s.up \in Seq(TcpUnit) /\ up \in Seq(TcpUnit) /\ up = Append(s.up, u)
    <2>1. s.up \in Seq(TcpUnit)
      BY <1>1 DEF TcpPeer
    <2> HIDE DEF s
    <2> QED BY <1>0, <1>4, <2>1
  <1>7. /\ p \in TcpPeer /\ p.st = s.st /\ p.up = up /\ p.down = s.down /\ p.saw = s.saw
        /\ p.owed = s.owed /\ p.wrote = wrote /\ p.half = half /\ p.closed = s.closed
    BY <1>1, <1>5, <1>6 DEF TcpPeer
  <1>8. s = k.cli[c] /\ s.st \in {"pending", "open"}
    BY <1>0
  <1>9. /\ s.closed = FALSE /\ want = TcpLenOf(ch, len, s.wrote)
        /\ half = IF s.half + 1 = want THEN 0 ELSE s.half + 1
        /\ wrote = IF s.half + 1 = want THEN s.wrote + 1 ELSE s.wrote
    BY <1>0
  <1> HIDE DEF s, p, m
  <1>10. TcpSeesAs(p, s)
    <2>1. TcpSeen(p) = TcpSeen(s)
      BY <1>7 DEF TcpSeen
    <2> HIDE DEF TcpSeen
    <2> QED BY <1>1, <1>7, <1>8, <2>1 DEF TcpSeesAs, TcpPeerKnown
  <1>11. p.half < TcpLenOf(ch, len, p.wrote)
    <2>1. CASE s.half + 1 = want
      <3>1. p.half = 0 /\ TcpLenOf(ch, len, p.wrote) \in Nat \ {0}
        BY <1>5, <1>7, <1>9, <2>1 DEF TcpLenOf
      <3> QED BY <3>1
    <2>2. CASE s.half + 1 # want
      BY <1>2, <1>7, <1>9, <2>2
    <2> QED BY <2>1, <2>2
  <1>12. TcpClear(ch, len, k) => TcpClientRight(ch, len, t, c)
    <2> SUFFICES ASSUME TcpClear(ch, len, k) PROVE TcpClientRight(ch, len, t, c)
      OBVIOUS
    <2> DEFINE x == TcpStream(k, c)
    <2>1. t.cli[c] = p /\ t.fd = k.fd /\ t.in = k.in
      BY <1>1 DEF TcpPeerSet, TcpChan
    <2>2. x \in Seq(TcpUnit) /\ TcpStream(t, c) = Append(x, u)
      <3>1. CASE k.fd # c
        BY <1>6, <1>7, <1>8, <2>1, <3>1 DEF TcpStream
      <3>2. CASE k.fd = c
        <4> DEFINE in == k.in
                   a == s.up
                   v == <<u>>
        <4>1. x = in \o a /\ TcpStream(t, c) = in \o up
          BY <1>7, <1>8, <2>1, <3>2 DEF TcpStream
        <4>2. in \in Seq(TcpUnit) /\ a \in Seq(TcpUnit) /\ v \in Seq(TcpUnit)
          BY <1>1, <1>4, <1>6
        <4>3. up = a \o v
          BY <1>4, <1>6, AppendIsConcat
        <4> HIDE DEF in, a, v, x
        <4>4. (in \o a) \o v = in \o (a \o v) /\ in \o a \in Seq(TcpUnit)
          BY <4>2, TcpCat
        <4>5. Append(x, u) = x \o v /\ x \in Seq(TcpUnit)
          BY <1>4, <4>1, <4>4, AppendIsConcat DEF v
        <4> QED BY <4>1, <4>3, <4>4, <4>5
      <3> QED BY <3>1, <3>2
    <2>3. TcpWrites(ch, len, c, s, x)
      BY <1>1, <1>8 DEF TcpClientRight
    <2>4. want <= TcpBuf
      BY <1>2, <1>9, TcpAssumption DEF TcpClear, TcpLenOf
    <2> HIDE DEF x
    <2>5. TcpWrites(ch, len, c, p, Append(x, u))
      <3>1. /\ s.closed = FALSE
            /\ u = [m |-> TcpMsg(c, s.wrote + 1, want), i |-> s.half + 1]
            /\ p.half = IF s.half + 1 = want THEN 0 ELSE s.half + 1
            /\ p.wrote = IF s.half + 1 = want THEN s.wrote + 1 ELSE s.wrote
        BY <1>4, <1>7, <1>9 DEF m
      <3>2. want = TcpLenOf(ch, len, s.wrote)
        BY <1>9
      <3> HIDE DEF TcpLenOf
      <3> QED BY <1>2, <1>4, <2>2, <2>3, <2>4, <3>1, <3>2, TcpWriteOn
    <2> QED BY <1>7, <1>8, <2>1, <2>2, <2>5 DEF TcpClientRight
  <1>13. TcpChanInv(ch, len, t) /\ t.did = k.did
    BY <1>7, <1>8, <1>10, <1>11, <1>12, TcpPeerSetInv
  <1> QED BY <1>13 DEF t, p, s, TcpWriteSet

\* The second client to come is refused.
LEMMA TcpRefused ==
    ASSUME NEW ch, NEW len, NEW k, TcpChanInv(ch, len, k), NEW c \in TcpClients,
           k.cli[c].st = "pending"
    PROVE  LET t == TcpPeerSet(k, c, [k.cli[c] EXCEPT !.st = "refused"])
           IN  TcpChanInv(ch, len, t) /\ (t.stale <=> k.stale) /\ TcpWaiting(t) = TcpWaiting(k)
  <1> DEFINE s == k.cli[c]
             p == [s EXCEPT !.st = "refused"]
             t == TcpPeerSet(k, c, p)
  <1>1. k \in TcpChan /\ s \in TcpPeer /\ TcpPeerKnown(k, c) /\ s.half < TcpLenOf(ch, len, s.wrote)
    BY TcpPeerTypes
  <1>2. /\ p \in TcpPeer /\ p.st = "refused" /\ p.up = s.up /\ p.down = s.down /\ p.saw = s.saw
        /\ p.owed = s.owed /\ p.wrote = s.wrote /\ p.half = s.half
    BY <1>1 DEF TcpPeer
  <1>3. s = k.cli[c] /\ s.st = "pending"
    OBVIOUS
  <1> HIDE DEF s, p
  <1>4. TcpSeesAs(p, s) /\ k.fd # c
    <2>1. TcpSeen(p) = TcpSeen(s)
      BY <1>2 DEF TcpSeen
    <2> HIDE DEF TcpSeen
    <2> QED BY <1>1, <1>2, <1>3, <2>1 DEF TcpSeesAs, TcpPeerKnown
  <1>5. /\ t.cli[c] = p /\ t.fd = k.fd /\ t.in = k.in /\ (t.stale <=> k.stale)
        /\ \A e \in TcpClients \ {c} : t.cli[e] = k.cli[e]
    BY <1>1 DEF TcpPeerSet, TcpChan
  <1>6. TcpClientRight(ch, len, t, c)
    BY <1>2, <1>5 DEF TcpClientRight
  <1>7. p.half < TcpLenOf(ch, len, p.wrote)
    BY <1>1, <1>2
  <1>8. TcpChanInv(ch, len, t)
    BY <1>2, <1>3, <1>4, <1>6, <1>7, TcpPeerSetInv
  <1>9. TcpWaiting(t) = TcpWaiting(k)
    <2>1. t.fd # "none" => t.cli[t.fd] = k.cli[k.fd]
      BY <1>1, <1>4, <1>5 DEF TcpChan, TcpClients
    <2> HIDE DEF t
    <2>2. CASE t.fd = "none"
      BY <1>5, <2>2 DEF TcpWaiting
    <2>3. CASE t.fd # "none"
      <3>1. t.in \o t.cli[t.fd].up = k.in \o k.cli[k.fd].up
        BY <1>5, <2>1, <2>3
      <3> QED BY <1>5, <2>3, <3>1 DEF TcpWaiting
    <2> QED BY <2>2, <2>3
  <1> QED BY <1>5, <1>8, <1>9 DEF t, p, s

\* The first is attached: it has its stream to itself.
TcpAttach(k, c) ==
    [k EXCEPT !.fd = c, !.cli = [k.cli EXCEPT ![c] = [k.cli[c] EXCEPT !.st = "open"]]]

LEMMA TcpAttached ==
    ASSUME NEW ch, NEW len, NEW k, TcpChanInv(ch, len, k), NEW c \in TcpClients,
           k.cli[c].st = "pending"
    PROVE  k.fd = "none" => /\ TcpChanInv(ch, len, TcpAttach(k, c))
                            /\ TcpAttach(k, c).stale <=> k.stale
  <1> DEFINE s == k.cli[c]
             p == [s EXCEPT !.st = "open"]
             t == TcpAttach(k, c)
  <1> SUFFICES ASSUME k.fd = "none" PROVE TcpChanInv(ch, len, t) /\ (t.stale <=> k.stale)
    OBVIOUS
  <1>1. /\ k \in TcpChan /\ s \in TcpPeer /\ TcpPeerKnown(k, c) /\ TcpHalfFits(ch, len, k)
        /\ TcpOutRight(k)
        /\ TcpClear(ch, len, k) => TcpInRight(ch, len, k)
    BY TcpPeerTypes DEF TcpChanInv
  <1>2. /\ p \in TcpPeer /\ p.st = "open" /\ p.up = s.up /\ p.down = s.down /\ p.saw = s.saw
        /\ p.owed = s.owed /\ p.wrote = s.wrote /\ p.half = s.half /\ (p.closed <=> s.closed)
    BY <1>1 DEF TcpPeer
  <1>3. /\ t \in TcpChan /\ t.fd = c /\ t.cli[c] = p /\ t.in = k.in /\ (t.stale <=> k.stale)
        /\ t.out = k.out /\ t.did = k.did
        /\ \A e \in TcpClients \ {c} : t.cli[e] = k.cli[e]
    BY <1>1, <1>2 DEF TcpChan, TcpClients, TcpAttach
  <1>4. s = k.cli[c] /\ s.st = "pending" /\ c # "none"
    BY DEF TcpClients
  <1> HIDE DEF s, p, t
  <1>5. k.out = <<>> /\ s.saw = <<>> /\ s.down = <<>> /\ s.owed = <<>>
    BY <1>1, <1>4 DEF TcpOutRight, TcpPeerKnown
  <1>6. TcpPeerRight(t, c)
    <2>1. TcpSeen(p) = <<>> /\ p.owed = <<>> /\ t.out = <<>> /\ Len(p.down) <= TcpSock
      BY <1>2, <1>3, <1>5, TcpAssumption DEF TcpSeen
    <2>2. <<>> \o <<>> = <<>> /\ <<>> \in Seq(TcpUnit)
      OBVIOUS
    <2> HIDE DEF TcpSeen
    <2> QED BY <1>2, <1>3, <2>1, <2>2 DEF TcpPeerRight, TcpPeerKnown
  <1>7. ASSUME NEW e \in TcpClients \ {c} PROVE TcpPeerRight(t, e)
    <2>1. TcpPeerRight(k, e) /\ t.cli[e] = k.cli[e] /\ t.fd # e /\ k.fd # e
      BY <1>1, <1>3, <1>4 DEF TcpOutRight, TcpClients
    <2> QED BY <2>1 DEF TcpPeerRight, TcpPeerKnown
  <1>8. TcpOutRight(t)
    BY <1>1, <1>3, <1>4, <1>6, <1>7 DEF TcpOutRight
  <1>9. TcpHalfFits(ch, len, t)
    BY <1>1, <1>2, <1>3, <1>4 DEF TcpHalfFits
  <1>10. ASSUME TcpClear(ch, len, t) PROVE TcpInRight(ch, len, t)
    <2>1. TcpClear(ch, len, k)
      BY <1>3, <1>10 DEF TcpClear
    <2>2. TcpInRight(ch, len, k) /\ k.in = <<>>
      BY <1>1, <2>1 DEF TcpInRight
    <2>3. ASSUME NEW e \in TcpClients \ {c} PROVE TcpClientRight(ch, len, t, e)
      <3>1. TcpClientRight(ch, len, k, e)
        BY <2>2 DEF TcpInRight
      <3>2. t.cli[e] = k.cli[e] /\ TcpStream(t, e) = TcpStream(k, e)
        <4>1. t.fd # e /\ k.fd # e
          BY <1>3 DEF TcpClients
        <4> QED BY <1>3, <4>1 DEF TcpStream
      <3> QED BY <3>1, <3>2 DEF TcpClientRight
    <2>4. TcpClientRight(ch, len, t, c)
      <3>1. TcpWrites(ch, len, c, s, TcpStream(k, c))
        BY <1>4, <2>2 DEF TcpInRight, TcpClientRight
      <3>2. TcpStream(k, c) = s.up
        BY <1>4 DEF TcpStream
      <3>3. TcpStream(t, c) = s.up
        <4> DEFINE a == s.up
        <4>1. a \in Seq(TcpUnit)
          BY <1>1 DEF TcpPeer
        <4>2. TcpStream(t, c) = <<>> \o a
          BY <1>2, <1>3, <2>2 DEF TcpStream
        <4> HIDE DEF a
        <4>3. <<>> \o a = a
          BY <4>1, TcpCat
        <4> QED BY <4>2, <4>3 DEF a
      <3>4. TcpWrites(ch, len, c, s, s.up)
        BY <3>1, <3>2
      <3>5. TcpWrites(ch, len, c, p, s.up)
        BY <1>2, <3>4, TcpWritesAs
      <3> QED BY <1>2, <1>3, <3>3, <3>5 DEF TcpClientRight
    <2> QED BY <1>3, <1>4, <2>2, <2>3, <2>4 DEF TcpInRight
  <1> QED BY <1>3, <1>8, <1>9, <1>10 DEF TcpChanInv, t

LEMMA TcpAcceptsKeep ==
    ASSUME NEW ch, NEW len, NEW k, TcpChanInv(ch, len, k), NEW q \in TcpAccepts(k)
    PROVE  TcpChanInv(ch, len, q) /\ (q.stale <=> k.stale) /\ TcpWaiting(k) \subseteq TcpWaiting(q)
  <1>1. CASE q = k
    BY <1>1
  <1>2. CASE \E c \in TcpPending(k) : q = TcpAccept(k, c)
    <2>1. PICK c \in TcpPending(k) : q = TcpAccept(k, c)
      BY <1>2
    <2>2. c \in TcpClients /\ k.cli[c].st = "pending"
      BY DEF TcpPending
    <2>3. k \in TcpChan /\ k.cli[c] \in TcpPeer /\ k.cli \in [TcpClients -> TcpPeer]
      BY <2>2, TcpPeerTypes DEF TcpChan
    <2>4. CASE k.fd = "none"
      <3> DEFINE t == TcpAttach(k, c)
      <3>1. q = t
        BY <2>1, <2>2, <2>3, <2>4 DEF TcpAccept, TcpChan, TcpPeer, TcpAttach
      <3> HIDE DEF t
      <3>2. TcpChanInv(ch, len, t) /\ (t.stale <=> k.stale)
        BY <2>2, <2>4, TcpAttached DEF t
      <3>3. TcpWaiting(k) = {}
        BY <2>4 DEF TcpWaiting
      <3> QED BY <3>1, <3>2, <3>3
    <2>5. CASE k.fd # "none"
      <3> DEFINE t == TcpPeerSet(k, c, [k.cli[c] EXCEPT !.st = "refused"])
      <3>1. q = t
        BY <2>1, <2>2, <2>3, <2>5 DEF TcpAccept, TcpChan, TcpPeer, TcpPeerSet
      <3>2. TcpChanInv(ch, len, t) /\ (t.stale <=> k.stale) /\ TcpWaiting(t) = TcpWaiting(k)
        BY <2>2, TcpRefused
      <3> HIDE DEF t
      <3> QED BY <3>1, <3>2
    <2> QED BY <2>4, <2>5
  <1> QED BY <1>1, <1>2 DEF TcpAccepts

LEMMA TcpServedInv ==
    ASSUME NEW ch, NEW len, NEW k, TcpChanInv(ch, len, k), NEW t, TcpServed(ch, len, k, t)
    PROVE  TcpChanInv(ch, len, t)
  BY DEF TcpChanInv, TcpServed, TcpSameAt, TcpHalfFits

\* The modem tells the host something.
LEMMA TcpTold ==
    ASSUME NEW ch, NEW len, NEW k, TcpChanInv(ch, len, k), k.fd # "none",
           NEW m \in TcpMessages, NEW fails \in BOOLEAN
    PROVE  TcpChanInv(ch, len, TcpEmit(k, m, fails)) /\ TcpEmit(k, m, fails).did = k.did
  <1> DEFINE t == TcpEmit(k, m, fails)
  <1>1. TcpOutRight(k) /\ (TcpClear(ch, len, k) => TcpInRight(ch, len, k))
    BY DEF TcpChanInv
  <1>2. TcpKept(t, k) \/ TcpGone(t, k)
    BY <1>1, TcpEmitKeeps
  <1> HIDE DEF t
  <1>3. TcpOutRight(t) /\ TcpSameIn(t, k)
    BY <1>2 DEF TcpKept, TcpGone
  <1>4. TcpSameAt(t, k) /\ t.in = k.in /\ t.did = k.did
    BY <1>3 DEF TcpSameIn, TcpSameAt
  <1>5. TcpHalfFits(ch, len, t)
    BY <1>4 DEF TcpHalfFits, TcpSameAt, TcpChanInv
  <1>6. ASSUME TcpClear(ch, len, t) PROVE TcpInRight(ch, len, t)
    <2>1. /\ TcpKept(t, k) /\ t.fd = k.fd /\ (t.stale <=> k.stale)
          /\ \A c \in TcpClients : t.cli[c].st = k.cli[c].st
      BY <1>2, <1>6 DEF TcpKept, TcpGone, TcpClear
    <2>2. TcpInRight(ch, len, k)
      BY <1>1, <1>6, <2>1 DEF TcpClear
    <2>3. ASSUME NEW e \in TcpClients PROVE TcpClientRight(ch, len, t, e)
      <3>1. TcpClientRight(ch, len, k, e)
        BY <2>2 DEF TcpInRight
      <3>2. /\ t.cli[e].wrote = k.cli[e].wrote /\ t.cli[e].half = k.cli[e].half
            /\ (t.cli[e].closed <=> k.cli[e].closed) /\ t.cli[e].up = k.cli[e].up
            /\ t.cli[e].st = k.cli[e].st
        BY <1>3, <2>1 DEF TcpSameIn
      <3>3. TcpStream(t, e) = TcpStream(k, e)
        BY <1>4, <2>1, <3>2 DEF TcpStream
      <3>4. TcpWrites(ch, len, e, k.cli[e], TcpStream(k, e)) =>
                TcpWrites(ch, len, e, t.cli[e], TcpStream(k, e))
        BY <3>2, TcpWritesAs
      <3> HIDE DEF TcpStream
      <3> QED BY <3>1, <3>2, <3>3, <3>4 DEF TcpClientRight
    <2> QED BY <1>4, <2>1, <2>2, <2>3 DEF TcpInRight
  <1>7. TcpChanInv(ch, len, t) /\ t.did = k.did
    BY <1>3, <1>4, <1>5, <1>6 DEF TcpChanInv
  <1> QED BY <1>7 DEF t

-----------------------------------------------------------------------------
(* The steps. *)

LEMMA TcpInitRight == TcpInit => TcpInv
  <1> SUFFICES ASSUME TcpInit PROVE TcpInv
    OBVIOUS
  <1> DEFINE no == FALSE
             e == <<>>
             s == [st |-> "away", up |-> e, down |-> e, saw |-> e,
                   owed |-> e, wrote |-> 0, half |-> 0, closed |-> no]
             k == [fd |-> "none", in |-> e, out |-> e, did |-> e,
                   stale |-> no, cli |-> [c \in TcpClients |-> s]]
  <1>1. tcpLeft \in TcpAllowed /\ tcpTurn = "data" /\ tcpOwed = {}
        /\ tcp = [ch \in TcpChannels |-> k]
    <2>1. TcpClient = s
      BY DEF TcpClient
    <2> HIDE DEF s
    <2>2. TcpChannel = k
      BY <2>1 DEF TcpChannel
    <2> HIDE DEF k
    <2> QED BY <2>2, TcpAssumption DEF TcpInit, TcpAllowed
  <1>2. /\ e \in Seq(TcpUnit) /\ e \in Seq(Seq(TcpUnit)) /\ Len(e) = 0 /\ e = <<>>
        /\ no \in BOOLEAN /\ ~no /\ e \o e = e
    OBVIOUS
  <1> HIDE DEF no, e
  <1>3. /\ s \in TcpPeer /\ s.st = "away" /\ s.up = e /\ s.down = e /\ s.saw = e
        /\ s.owed = e /\ s.half = 0 /\ s.wrote = 0
    BY <1>2 DEF TcpPeer
  <1> HIDE DEF s
  <1>4. /\ k \in TcpChan /\ k.fd = "none" /\ k.in = e /\ k.out = e /\ k.did = e
        /\ \A c \in TcpClients : k.cli[c] = s
    BY <1>2, <1>3 DEF TcpChan
  <1> HIDE DEF k
  <1>5. ASSUME NEW ch \in TcpChannels PROVE TcpChanInv(ch, tcpLeft.len, k)
    <2>1. \A c \in TcpClients : TcpPeerRight(k, c)
      <3> TAKE c \in TcpClients
      <3>1. TcpSeen(s) = e /\ TcpSeen(s) \o e = s.owed
        BY <1>2, <1>3 DEF TcpSeen
      <3>2. Len(s.down) <= TcpSock /\ c # "none"
        BY <1>2, <1>3, TcpAssumption DEF TcpClients
      <3>3. /\ s.st # "open" /\ k.cli[c] = s /\ s.saw = <<>> /\ s.down = <<>> /\ s.owed = <<>>
            /\ k.fd # c /\ e \in Seq(TcpUnit)
        BY <1>2, <1>3, <1>4, <3>2
      <3> HIDE DEF TcpSeen
      <3> QED BY <3>1, <3>2, <3>3 DEF TcpPeerRight, TcpPeerKnown
    <2>2. TcpOutRight(k)
      <3>1. Len(k.in) <= TcpBuf /\ k.out = <<>>
        BY <1>2, <1>4, TcpAssumption
      <3> QED BY <1>4, <2>1, <3>1 DEF TcpOutRight
    <2>3. TcpHalfFits(ch, tcpLeft.len, k)
      <3>1. tcpLeft.len \in Nat /\ tcpLeft.len > 0
        BY <1>1 DEF TcpAllowed
      <3> QED BY <1>3, <1>4, <3>1 DEF TcpHalfFits, TcpLenOf
    <2>4. TcpInRight(ch, tcpLeft.len, k)
      <3>1. TcpOpenEnded(k.in) /\ TcpAllWhole(k.did)
        BY <1>2, <1>4 DEF TcpOpenEnded, TcpAllWhole
      <3>2. \A c \in TcpClients : TcpClientRight(ch, tcpLeft.len, k, c)
        BY <1>2, <1>3, <1>4 DEF TcpClientRight
      <3> QED BY <1>2, <1>4, <3>1, <3>2 DEF TcpInRight
    <2> QED BY <2>2, <2>3, <2>4 DEF TcpChanInv
  <1>6. tcp \in [TcpChannels -> TcpChan] /\ \A ch \in TcpChannels : tcp[ch] = k
    BY <1>1, <1>4
  <1> QED BY <1>1, <1>5, <1>6 DEF TcpInv, TcpChannels

\* A step of one channel.
TcpOnly(ch, t) ==
    /\ TcpChanInv(ch, tcpLeft.len, t)
    /\ tcp' = [tcp EXCEPT ![ch] = t]
    /\ tcpLeft' \in TcpAllowed /\ tcpLeft'.len = tcpLeft.len

LEMMA TcpOneChannel ==
    ASSUME TcpInv, NEW ch \in TcpChannels, NEW t, TcpOnly(ch, t)
    PROVE  /\ tcp' \in [TcpChannels -> TcpChan] /\ tcpLeft' \in TcpAllowed
           /\ \A e \in TcpChannels : TcpChanInv(e, tcpLeft'.len, tcp'[e])
           /\ tcp'[ch] = t
           /\ \A e \in TcpChannels \ {ch} : tcp'[e] = tcp[e]
  <1>1. t \in TcpChan
    BY DEF TcpOnly, TcpChanInv, TcpOutRight
  <1>2. tcp \in [TcpChannels -> TcpChan] /\ \A e \in TcpChannels : TcpChanInv(e, tcpLeft.len, tcp[e])
    BY DEF TcpInv
  <1>3. /\ tcp' \in [TcpChannels -> TcpChan] /\ tcp'[ch] = t
        /\ \A e \in TcpChannels \ {ch} : tcp'[e] = tcp[e]
    BY <1>1, <1>2 DEF TcpOnly
  <1>4. tcpLeft'.len = tcpLeft.len /\ tcpLeft' \in TcpAllowed /\ TcpChanInv(ch, tcpLeft.len, t)
    BY DEF TcpOnly
  <1> HIDE DEF TcpChanInv
  <1>5. \A e \in TcpChannels : TcpChanInv(e, tcpLeft.len, tcp'[e])
    BY <1>2, <1>3, <1>4
  <1> QED BY <1>3, <1>4, <1>5

LEMMA TcpSpendAllows ==
    ASSUME tcpLeft \in TcpAllowed, NEW what \in {"told", "writes", "leaves"}, TcpSpend(what)
    PROVE  tcpLeft' \in TcpAllowed /\ tcpLeft'.len = tcpLeft.len
  BY DEF TcpAllowed, TcpSpend

\* What a step leaves: the invariant; and only the second half of a service
\* call runs commands, while the data channel rests.
TcpStepOk ==
    /\ TcpInv'
    /\ tcp'["cmd"].did = tcp["cmd"].did \/ (tcpTurn = "cmd" /\ tcp'["data"] = tcp["data"])

\* A step of a client.
LEMMA TcpClientStep ==
    ASSUME TcpInv, NEW ch \in TcpChannels, NEW t, TcpOnly(ch, t), t.did = tcp[ch].did,
           t.stale <=> tcp[ch].stale, UNCHANGED <<tcpTurn, tcpOwed>>
    PROVE  TcpStepOk
  <1>1. /\ tcp' \in [TcpChannels -> TcpChan] /\ tcpLeft' \in TcpAllowed
        /\ \A e \in TcpChannels : TcpChanInv(e, tcpLeft'.len, tcp'[e])
        /\ tcp'[ch] = t
        /\ \A e \in TcpChannels \ {ch} : tcp'[e] = tcp[e]
    BY TcpOneChannel
  <1>2. tcpLeft'.len = tcpLeft.len
    BY DEF TcpOnly
  <1>3. \A e \in TcpChannels : tcp'[e].did = tcp[e].did /\ (tcp'[e].stale <=> tcp[e].stale)
    BY <1>1
  <1>4. (tcpTurn' = "cmd" /\ TcpClear("data", tcpLeft'.len, tcp'["data"])) =>
            \A m \in tcpOwed' : TcpDone(m, tcp'["data"].did)
    <2>1. "data" \in TcpChannels
      BY DEF TcpChannels
    <2>2. TcpClear("data", tcpLeft'.len, tcp'["data"]) <=> TcpClear("data", tcpLeft.len, tcp["data"])
      BY <1>2, <1>3, <2>1 DEF TcpClear
    <2>3. tcp'["data"].did = tcp["data"].did
      BY <1>3, <2>1
    <2> QED BY <2>2, <2>3 DEF TcpInv
  <1>5. TcpInv'
    BY <1>1, <1>4 DEF TcpInv
  <1> QED BY <1>3, <1>5 DEF TcpStepOk, TcpChannels

LEMMA TcpSetStale ==
    ASSUME NEW k \in TcpChan, NEW c, NEW p
    PROVE  TcpPeerSet(k, c, p).stale = k.stale
  BY DEF TcpChan, TcpPeerSet

LEMMA TcpChanOf ==
    ASSUME TcpInv, NEW ch \in TcpChannels
    PROVE  /\ TcpChanInv(ch, tcpLeft.len, tcp[ch]) /\ tcp[ch] \in TcpChan
           /\ tcpLeft \in TcpAllowed /\ tcpLeft.len \in Nat \ {0} /\ tcpLeft.told \in Nat
           /\ tcp \in [TcpChannels -> TcpChan]
           /\ \A c \in TcpClients : tcp[ch].cli[c] \in TcpPeer
           /\ tcp[ch].cli \in [TcpClients -> TcpPeer]
  BY DEF TcpInv, TcpAllowed, TcpChan

LEMMA TcpDialStep ==
    ASSUME TcpInv, NEW ch \in TcpChannels, NEW c \in TcpClients, TcpDial(c, ch)
    PROVE  TcpStepOk
  <1> DEFINE k == tcp[ch]
             t == TcpPeerSet(k, c, [k.cli[c] EXCEPT !.st = "pending"])
  <1>1. /\ TcpChanInv(ch, tcpLeft.len, k) /\ k \in TcpChan /\ k.cli[c] \in TcpPeer
        /\ tcp \in [TcpChannels -> TcpChan] /\ tcpLeft \in TcpAllowed
    BY TcpChanOf
  <1>2. tcp' = [tcp EXCEPT ![ch] = t] /\ UNCHANGED <<tcpTurn, tcpOwed>> /\ tcpLeft' = tcpLeft
    BY <1>1 DEF TcpDial, TcpPeerSet, TcpChan, TcpPeer
  <1>3. TcpChanInv(ch, tcpLeft.len, t) /\ t.did = k.did
    <2>1. k.cli[c].st = "away"
      BY DEF TcpDial
    <2> HIDE DEF k
    <2> QED BY <1>1, <2>1, TcpDialed
  <1>4. t.stale <=> k.stale
    BY <1>1, TcpSetStale
  <1> HIDE DEF t
  <1>5. TcpOnly(ch, t)
    BY <1>1, <1>2, <1>3 DEF TcpOnly
  <1> QED BY <1>2, <1>3, <1>4, <1>5, TcpClientStep

LEMMA TcpReadStep ==
    ASSUME TcpInv, NEW ch \in TcpChannels, NEW c \in TcpClients, TcpRead(c, ch)
    PROVE  TcpStepOk
  <1> DEFINE k == tcp[ch]
             t == TcpReadSet(k, c)
  <1>1. /\ TcpChanInv(ch, tcpLeft.len, k) /\ k \in TcpChan /\ k.cli[c] \in TcpPeer
        /\ tcp \in [TcpChannels -> TcpChan] /\ tcpLeft \in TcpAllowed
    BY TcpChanOf
  <1>2. tcp' = [tcp EXCEPT ![ch] = t] /\ UNCHANGED <<tcpTurn, tcpOwed>> /\ tcpLeft' = tcpLeft
    BY <1>1 DEF TcpRead, TcpReadSet, TcpPeerSet, TcpChan, TcpPeer
  <1>3. TcpChanInv(ch, tcpLeft.len, t) /\ t.did = k.did
    <2>1. TcpToRead(k, c)
      BY DEF TcpRead, TcpToRead
    <2> HIDE DEF k
    <2> QED BY <1>1, <2>1, TcpReadOff
  <1>4. t.stale <=> k.stale
    BY <1>1, TcpSetStale DEF TcpReadSet
  <1> HIDE DEF t
  <1>5. TcpOnly(ch, t)
    BY <1>1, <1>2, <1>3 DEF TcpOnly
  <1> QED BY <1>2, <1>3, <1>4, <1>5, TcpClientStep

LEMMA TcpLeaveStep ==
    ASSUME TcpInv, NEW ch \in TcpChannels, NEW c \in TcpClients, NEW reset \in BOOLEAN,
           TcpLeave(c, ch, reset)
    PROVE  TcpStepOk
  <1> DEFINE k == tcp[ch]
             yes == TRUE
             up == IF reset THEN <<>> ELSE k.cli[c].up
             t == TcpLeaveSet(k, c, yes, up)
  <1>1. /\ TcpChanInv(ch, tcpLeft.len, k) /\ k \in TcpChan /\ k.cli[c] \in TcpPeer
        /\ tcp \in [TcpChannels -> TcpChan] /\ tcpLeft \in TcpAllowed
    BY TcpChanOf
  <1>2. tcp' = [tcp EXCEPT ![ch] = t] /\ UNCHANGED <<tcpTurn, tcpOwed>> /\ TcpSpend("leaves")
    <2> DEFINE s == k.cli[c]
               p == [s EXCEPT !.closed = yes, !.up = up]
    <2>1. /\ tcp' = [tcp EXCEPT ![ch].cli[c] =
                       [s EXCEPT !.closed = yes, !.up = IF reset THEN <<>> ELSE @]]
          /\ UNCHANGED <<tcpTurn, tcpOwed>> /\ TcpSpend("leaves")
      BY DEF TcpLeave
    <2>2. s \in TcpPeer /\ yes \in BOOLEAN
      BY <1>1
    <2> HIDE DEF yes
    <2>3. [s EXCEPT !.closed = yes, !.up = IF reset THEN <<>> ELSE @] = p
      BY <2>2 DEF TcpPeer
    <2>4. tcp' = [tcp EXCEPT ![ch].cli[c] = p]
      BY <2>1, <2>3, Zenon
    <2>5. t = TcpPeerSet(k, c, p)
      BY DEF TcpLeaveSet
    <2> HIDE DEF p, t
    <2>6. tcp' = [tcp EXCEPT ![ch] = t]
      BY <1>1, <2>4, <2>5 DEF TcpPeerSet, TcpChan
    <2> QED BY <2>1, <2>6
  <1>3. tcpLeft' \in TcpAllowed /\ tcpLeft'.len = tcpLeft.len
    BY <1>1, <1>2, TcpSpendAllows
  <1>4. TcpChanInv(ch, tcpLeft.len, t) /\ t.did = k.did
    <2>1. TcpGoes(k, c, yes, up)
      BY DEF TcpLeave, TcpAlive, TcpGoes, yes
    <2> HIDE DEF k, up, yes
    <2> QED BY <1>1, <2>1, TcpLeft
  <1>5. t.stale <=> k.stale
    BY <1>1, TcpSetStale DEF TcpLeaveSet
  <1> HIDE DEF t
  <1>6. TcpOnly(ch, t)
    BY <1>2, <1>3, <1>4 DEF TcpOnly
  <1> QED BY <1>2, <1>4, <1>5, <1>6, TcpClientStep

LEMMA TcpWriteStep ==
    ASSUME TcpInv, NEW ch \in TcpChannels, NEW c \in TcpClients, TcpWrite(c, ch)
    PROVE  TcpStepOk
  <1> DEFINE k == tcp[ch]
             s == k.cli[c]
             want == TcpLenOf(ch, tcpLeft.len, s.wrote)
             u == TcpUnits(TcpMsg(c, s.wrote + 1, want))[s.half + 1]
             up == Append(s.up, u)
             half == IF s.half + 1 = want THEN 0 ELSE s.half + 1
             wrote == IF s.half + 1 = want THEN s.wrote + 1 ELSE s.wrote
             t == TcpWriteSet(k, c, up, half, wrote)
  <1>1. /\ TcpChanInv(ch, tcpLeft.len, k) /\ k \in TcpChan /\ k.cli[c] \in TcpPeer
        /\ tcp \in [TcpChannels -> TcpChan] /\ tcpLeft \in TcpAllowed
        /\ tcpLeft.len \in Nat \ {0}
    BY TcpChanOf
  <1>2. tcp' = [tcp EXCEPT ![ch] = t] /\ UNCHANGED <<tcpTurn, tcpOwed>>
    <2>1. tcp' = [tcp EXCEPT ![ch].cli[c] =
                     [s EXCEPT !.up = Append(@, u),
                               !.half = IF s.half + 1 = want THEN 0 ELSE @ + 1,
                               !.wrote = IF s.half + 1 = want THEN @ + 1 ELSE @]]
      BY DEF TcpWrite, TcpLenOf
    <2>2. s \in TcpPeer
      BY <1>1
    <2> HIDE DEF u, want
    <2>3. [s EXCEPT !.up = Append(@, u),
                    !.half = IF s.half + 1 = want THEN 0 ELSE @ + 1,
                    !.wrote = IF s.half + 1 = want THEN @ + 1 ELSE @]
          = [s EXCEPT !.up = up, !.half = half, !.wrote = wrote]
      BY <2>2 DEF TcpPeer
    <2>4. UNCHANGED <<tcpTurn, tcpOwed>>
      BY DEF TcpWrite
    <2> DEFINE p == [s EXCEPT !.up = up, !.half = half, !.wrote = wrote]
    <2>5. tcp' = [tcp EXCEPT ![ch].cli[c] = p]
      BY <2>1, <2>3, Zenon
    <2>7. t = TcpPeerSet(k, c, p)
      BY DEF TcpWriteSet
    <2> HIDE DEF p, t
    <2>6. tcp' = [tcp EXCEPT ![ch] = t]
      BY <1>1, <2>5, <2>7 DEF TcpPeerSet, TcpChan
    <2> QED BY <2>4, <2>6
  <1>3. tcpLeft' \in TcpAllowed /\ tcpLeft'.len = tcpLeft.len
    <2>1. TcpSpend("writes") \/ tcpLeft' = tcpLeft
      BY DEF TcpWrite
    <2> QED BY <1>1, <2>1, TcpSpendAllows
  <1>4. TcpChanInv(ch, tcpLeft.len, t) /\ t.did = k.did
    <2>1. s.st \in {"pending", "open"} /\ s.closed = FALSE
      BY <1>1 DEF TcpWrite, TcpAlive, TcpPeer
    <2>2. TcpUnitWritten(ch, tcpLeft.len, c, k.cli[c], want, u, up, half, wrote)
      BY <2>1 DEF TcpUnitWritten
    <2>3. TcpChanInv(ch, tcpLeft.len, k) /\ tcpLeft.len \in Nat \ {0}
      BY <1>1
    <2> HIDE DEF k, u, want, up, half, wrote
    <2> QED BY <2>2, <2>3, TcpWrote
  <1>5. t.stale <=> k.stale
    BY <1>1, TcpSetStale DEF TcpWriteSet
  <1> HIDE DEF t
  <1>6. TcpOnly(ch, t)
    BY <1>2, <1>3, <1>4 DEF TcpOnly
  <1> QED BY <1>2, <1>4, <1>5, <1>6, TcpClientStep

LEMMA TcpTellStep ==
    ASSUME TcpInv, NEW ch \in TcpChannels, TcpTell(ch)
    PROVE  TcpStepOk
  <1> DEFINE k == tcp[ch]
             m == TcpMsg("modem", tcpLeft.told, 2)
  <1>1. /\ TcpChanInv(ch, tcpLeft.len, k) /\ k \in TcpChan /\ tcpLeft \in TcpAllowed
        /\ tcpLeft.told \in Nat
    BY TcpChanOf
  <1>2. PICK fails \in TcpMayFail(k) : tcp' = [tcp EXCEPT ![ch] = TcpEmit(@, m, fails)]
    BY DEF TcpTell
  <1>3. /\ k.fd # "none" /\ tcpTurn = "data" /\ TcpSpend("told")
        /\ UNCHANGED <<tcpTurn, tcpOwed>>
    BY DEF TcpTell, TcpOrder
  <1>4. m \in TcpMessages /\ fails \in BOOLEAN
    <2>1. m \in TcpMessages
      BY <1>1 DEF TcpMsg, TcpMessages
    <2>2. fails \in BOOLEAN
      BY DEF TcpMayFail
    <2> QED BY <2>1, <2>2
  <1> DEFINE t == TcpEmit(k, m, fails)
  <1>5. tcp' = [tcp EXCEPT ![ch] = t]
    <2>1. tcp \in [TcpChannels -> TcpChan]
      BY DEF TcpInv
    <2> HIDE DEF m
    <2> QED BY <1>2, <2>1
  <1>6. TcpChanInv(ch, tcpLeft.len, t) /\ t.did = k.did
    <2> HIDE DEF k, m
    <2> QED BY <1>1, <1>3, <1>4, TcpTold
  <1>7. tcpLeft' \in TcpAllowed /\ tcpLeft'.len = tcpLeft.len
    BY <1>1, <1>3, TcpSpendAllows
  <1> HIDE DEF t
  <1>8. TcpOnly(ch, t)
    BY <1>5, <1>6, <1>7 DEF TcpOnly
  <1>9. /\ tcp' \in [TcpChannels -> TcpChan] /\ tcpLeft' \in TcpAllowed
        /\ \A e \in TcpChannels : TcpChanInv(e, tcpLeft'.len, tcp'[e])
        /\ tcp'[ch] = t
        /\ \A e \in TcpChannels \ {ch} : tcp'[e] = tcp[e]
    BY <1>8, TcpOneChannel
  <1>10. TcpInv'
    BY <1>3, <1>9 DEF TcpInv, TcpChannels
  <1>11. tcp'["cmd"].did = tcp["cmd"].did
    BY <1>6, <1>9 DEF TcpChannels
  <1> QED BY <1>10, <1>11 DEF TcpStepOk

\* The first half of a service call.
LEMMA TcpServiceDataStep ==
    ASSUME TcpInv, TcpService("data")
    PROVE  TcpStepOk
  <1> DEFINE k == tcp["data"]
             len == tcpLeft.len
  <1>0. "data" \in TcpChannels /\ "cmd" \in TcpChannels
    BY DEF TcpChannels
  <1>1. TcpChanInv("data", len, k) /\ k \in TcpChan /\ tcpLeft \in TcpAllowed
    BY <1>0, TcpChanOf
  <1>2. PICK q \in TcpAccepts(k) : \E fails \in TcpMayFail(q) :
            tcp' = [tcp EXCEPT !["data"] = TcpServiceData(q, fails)]
    BY DEF TcpService
  <1>3. PICK fails \in TcpMayFail(q) : tcp' = [tcp EXCEPT !["data"] = TcpServiceData(q, fails)]
    BY <1>2
  <1>4. /\ tcpTurn' = "cmd" /\ tcpOwed' = TcpWaiting(k) /\ tcpLeft' = tcpLeft
        /\ fails \in BOOLEAN
    BY DEF TcpService, TcpOrder, TcpAfter, TcpMayFail
  <1> DEFINE t == TcpServiceData(q, fails)
  <1>5. /\ TcpChanInv("data", len, q) /\ (q.stale <=> k.stale)
        /\ TcpWaiting(k) \subseteq TcpWaiting(q)
    <2> HIDE DEF k, len
    <2> QED BY <1>1, TcpAcceptsKeep
  <1>6. /\ TcpServed("data", len, q, t)
        /\ TcpClear("data", len, q) => \A m \in TcpWaiting(q) : TcpDone(m, t.did)
    <2>1. TcpOutRight(q) /\ (TcpClear("data", len, q) => TcpInRight("data", len, q))
      BY <1>5 DEF TcpChanInv
    <2> HIDE DEF len
    <2> QED BY <1>4, <2>1, TcpDataServed
  <1>7. TcpChanInv("data", len, t)
    <2> HIDE DEF t, len
    <2> QED BY <1>5, <1>6, TcpServedInv
  <1>8. tcp' = [tcp EXCEPT !["data"] = t]
    BY <1>3
  <1> HIDE DEF t
  <1>9. TcpOnly("data", t)
    BY <1>1, <1>4, <1>7, <1>8 DEF TcpOnly
  <1>10. /\ tcp' \in [TcpChannels -> TcpChan] /\ tcpLeft' \in TcpAllowed
         /\ \A e \in TcpChannels : TcpChanInv(e, tcpLeft'.len, tcp'[e])
         /\ tcp'["data"] = t
         /\ \A e \in TcpChannels \ {"data"} : tcp'[e] = tcp[e]
    BY <1>0, <1>9, TcpOneChannel
  <1>11. ASSUME TcpClear("data", tcpLeft'.len, tcp'["data"]), NEW m \in tcpOwed'
         PROVE  TcpDone(m, tcp'["data"].did)
    <2>1. TcpClear("data", len, q)
      BY <1>4, <1>6, <1>10, <1>11 DEF TcpClear, TcpServed
    <2>2. m \in TcpWaiting(q)
      BY <1>4, <1>5, <1>11
    <2> QED BY <1>6, <1>10, <2>1, <2>2
  <1>12. TcpInv'
    BY <1>0, <1>4, <1>10, <1>11 DEF TcpInv
  <1>13. tcp'["cmd"] = tcp["cmd"]
    BY <1>0, <1>10
  <1> QED BY <1>12, <1>13 DEF TcpStepOk

\* The second half.
LEMMA TcpServiceCmdStep ==
    ASSUME TcpInv, TcpService("cmd")
    PROVE  TcpStepOk
  <1> DEFINE k == tcp["cmd"]
             len == tcpLeft.len
  <1>0. "data" \in TcpChannels /\ "cmd" \in TcpChannels
    BY DEF TcpChannels
  <1>1. TcpChanInv("cmd", len, k) /\ k \in TcpChan /\ tcpLeft \in TcpAllowed
    BY <1>0, TcpChanOf
  <1>2. PICK q \in TcpAccepts(k) : \E fails \in TcpMayFail(q) :
            tcp' = [tcp EXCEPT !["cmd"] = TcpServiceCmd(q, fails)]
    BY DEF TcpService
  <1>3. PICK fails \in TcpMayFail(q) : tcp' = [tcp EXCEPT !["cmd"] = TcpServiceCmd(q, fails)]
    BY <1>2
  <1>4. /\ tcpTurn = "cmd" /\ tcpTurn' = "data" /\ tcpLeft' = tcpLeft /\ fails \in BOOLEAN
    BY DEF TcpService, TcpOrder, TcpAfter, TcpMayFail
  <1> DEFINE t == TcpServiceCmd(q, fails)
  <1>5. TcpChanInv("cmd", len, q)
    <2> HIDE DEF k, len
    <2> QED BY <1>1, TcpAcceptsKeep
  <1>6. TcpServed("cmd", len, q, t)
    <2>1. TcpOutRight(q) /\ (TcpClear("cmd", len, q) => TcpInRight("cmd", len, q))
      BY <1>5 DEF TcpChanInv
    <2> HIDE DEF len
    <2> QED BY <1>4, <2>1, TcpCmdServed
  <1>7. TcpChanInv("cmd", len, t)
    <2> HIDE DEF t, len
    <2> QED BY <1>5, <1>6, TcpServedInv
  <1>8. tcp' = [tcp EXCEPT !["cmd"] = t]
    BY <1>3
  <1> HIDE DEF t
  <1>9. TcpOnly("cmd", t)
    BY <1>1, <1>4, <1>7, <1>8 DEF TcpOnly
  <1>10. /\ tcp' \in [TcpChannels -> TcpChan] /\ tcpLeft' \in TcpAllowed
         /\ \A e \in TcpChannels : TcpChanInv(e, tcpLeft'.len, tcp'[e])
         /\ \A e \in TcpChannels \ {"cmd"} : tcp'[e] = tcp[e]
    BY <1>0, <1>9, TcpOneChannel
  <1>11. TcpInv'
    BY <1>0, <1>4, <1>10 DEF TcpInv
  <1>12. tcp'["data"] = tcp["data"]
    BY <1>0, <1>10
  <1> QED BY <1>4, <1>11, <1>12 DEF TcpStepOk

LEMMA TcpNextOk == TcpInv /\ [TcpNext]_tcpVars => TcpStepOk
  <1> SUFFICES ASSUME TcpInv, [TcpNext]_tcpVars PROVE TcpStepOk
    OBVIOUS
  <1>1. CASE UNCHANGED tcpVars
    BY <1>1 DEF tcpVars, TcpStepOk, TcpInv, TcpOrder
  <1>2. CASE TcpNext
    <2>1. PICK ch \in TcpChannels :
            \/ TcpService(ch)
            \/ TcpTell(ch)
            \/ \E c \in TcpClients :
                  \/ TcpDial(c, ch)
                  \/ TcpWrite(c, ch)
                  \/ TcpRead(c, ch)
                  \/ \E reset \in BOOLEAN : TcpLeave(c, ch, reset)
      BY <1>2 DEF TcpNext
    <2>2. CASE TcpService(ch)
      <3>1. ch = "data" \/ ch = "cmd"
        BY DEF TcpChannels
      <3> QED BY <2>2, <3>1, TcpServiceDataStep, TcpServiceCmdStep
    <2>3. CASE TcpTell(ch)
      BY <2>3, TcpTellStep
    <2>4. ASSUME NEW c \in TcpClients, TcpDial(c, ch) PROVE TcpStepOk
      BY <2>4, TcpDialStep
    <2>5. ASSUME NEW c \in TcpClients, TcpWrite(c, ch) PROVE TcpStepOk
      BY <2>5, TcpWriteStep
    <2>6. ASSUME NEW c \in TcpClients, TcpRead(c, ch) PROVE TcpStepOk
      BY <2>6, TcpReadStep
    <2>7. ASSUME NEW c \in TcpClients, NEW reset \in BOOLEAN, TcpLeave(c, ch, reset)
          PROVE  TcpStepOk
      BY <2>7, TcpLeaveStep
    <2> QED BY <2>1, <2>2, <2>3, <2>4, <2>5, <2>6, <2>7
  <1> QED BY <1>1, <1>2

-----------------------------------------------------------------------------
(* What the TCP server promises. *)

\* Every reachable state keeps the invariant, whatever the clients do, however
\* large the queues, the buffers and the sockets are.
THEOREM TcpInvariant == TcpSpec => []TcpInv
  <1>1. TcpInv /\ [TcpNext]_tcpVars => TcpInv'
    BY TcpNextOk DEF TcpStepOk
  <1> QED BY <1>1, TcpInitRight, PTL DEF TcpSpec

LEMMA TcpPrefix ==
    ASSUME NEW a \in Seq(TcpUnit), NEW b \in Seq(TcpUnit)
    PROVE  IsPrefix(a, a \o b)
  <1> DEFINE s == a \o b
  <1>1. /\ s \in Seq(TcpUnit) /\ Len(s) = Len(a) + Len(b) /\ Len(a) \in Nat /\ Len(b) \in Nat
        /\ \A j \in 1..Len(a) : s[j] = a[j]
    OBVIOUS
  <1> HIDE DEF s
  <1>2. SubSeq(s, 1, Len(a)) = SubSeq(a, 1, Len(a))
    BY <1>1
  <1>3. Len(a) <= Len(s)
    BY <1>1
  <1> QED BY <1>2, <1>3 DEF IsPrefix, s

\* A client that attaches to a channel has it to itself (emit_cmd,
\* ardop_host_tcp_send_data, process_line, ardop_host_data_parse): it reads
\* what was meant for it and nothing else, and every line that is run and every
\* frame that is queued was written whole by one client.
THEOREM TcpChannelsAreWhole == TcpSpec => []TcpChannelsWhole
  <1>1. TcpInv => TcpChannelsWhole
    <2> SUFFICES ASSUME TcpInv PROVE TcpStreamsWhole /\ TcpRunsWhole
      BY DEF TcpChannelsWhole
    <2>1. TcpStreamsWhole
      <3> SUFFICES ASSUME NEW ch \in TcpChannels, NEW c \in TcpClients
                   PROVE  IF tcp[ch].fd = c
                          THEN TcpSeen(tcp[ch].cli[c]) \o tcp[ch].out = tcp[ch].cli[c].owed
                          ELSE IsPrefix(TcpSeen(tcp[ch].cli[c]), tcp[ch].cli[c].owed)
        BY DEF TcpStreamsWhole, TcpSeen
      <3>1. TcpPeerRight(tcp[ch], c) /\ tcp[ch].cli[c] \in TcpPeer
        BY TcpChanOf DEF TcpChanInv, TcpOutRight
      <3> DEFINE a == TcpSeen(tcp[ch].cli[c])
      <3>2. a \in Seq(TcpUnit)
        BY <3>1 DEF TcpSeen, TcpPeer
      <3>3. PICK rest \in Seq(TcpUnit) : a \o rest = tcp[ch].cli[c].owed
        BY <3>1 DEF TcpPeerRight, TcpPeerKnown
      <3>4. tcp[ch].fd = c => a \o tcp[ch].out = tcp[ch].cli[c].owed
        BY <3>1 DEF TcpPeerRight
      <3> HIDE DEF a
      <3>5. IsPrefix(a, a \o rest)
        BY <3>2, TcpPrefix
      <3>6. IsPrefix(a, tcp[ch].cli[c].owed)
        BY <3>3, <3>5
      <3> QED BY <3>4, <3>6 DEF a
    <2>2. TcpRunsWhole
      <3> SUFFICES ASSUME NEW ch \in TcpChannels, ~tcp[ch].stale,
                          ch = "data" => tcpLeft.len <= TcpBuf,
                          NEW i \in DOMAIN tcp[ch].did
                   PROVE  TcpWhole(tcp[ch].did[i])
        BY DEF TcpRunsWhole
      <3>1. TcpAllWhole(tcp[ch].did) /\ tcp[ch].did \in Seq(Seq(TcpUnit))
        BY TcpChanOf DEF TcpChanInv, TcpClear, TcpInRight, TcpChan
      <3> DEFINE did == tcp[ch].did
      <3>2. TcpAllWhole(did) /\ did \in Seq(Seq(TcpUnit)) /\ i \in DOMAIN did
        BY <3>1
      <3> HIDE DEF did
      <3>3. i \in 1..Len(did)
        BY <3>2
      <3>4. TcpWhole(did[i])
        BY <3>2, <3>3 DEF TcpAllWhole
      <3> QED BY <3>4 DEF did
    <2> QED BY <2>1, <2>2
  <1> QED BY <1>1, TcpInvariant, PTL

\* A command never overtakes the data its host wrote before the service call
\* began (ardop_host_tcp_service serves the data channel first).
THEOREM TcpDataGoesFirst == TcpSpec => TcpDataFirst
  <1> DEFINE A == (tcp'["cmd"].did # tcp["cmd"].did /\ tcpLeft.len <= TcpBuf
                      /\ ~tcp["data"].stale) =>
                     \A m \in TcpOwedNow : \E i \in DOMAIN tcp'["data"].did :
                        tcp'["data"].did[i] = TcpUnits(m)
  <1>1. TcpInv /\ [TcpNext]_tcpVars => [A]_tcpVars
    <2> SUFFICES ASSUME TcpInv, [TcpNext]_tcpVars, tcp'["cmd"].did # tcp["cmd"].did,
                        tcpLeft.len <= TcpBuf, ~tcp["data"].stale, NEW m \in TcpOwedNow
                 PROVE  \E i \in DOMAIN tcp'["data"].did : tcp'["data"].did[i] = TcpUnits(m)
      OBVIOUS
    <2>1. tcpTurn = "cmd" /\ tcp'["data"] = tcp["data"]
      BY TcpNextOk DEF TcpStepOk
    <2>2. m \in tcpOwed
      BY <2>1 DEF TcpOwedNow, TcpOrder
    <2>3. TcpDone(m, tcp["data"].did)
      BY <2>1, <2>2 DEF TcpInv, TcpClear
    <2>4. tcp["data"].did \in Seq(Seq(TcpUnit))
      BY DEF TcpInv, TcpChan, TcpChannels
    <2> QED BY <2>1, <2>3, <2>4 DEF TcpDone
  <1> QED BY <1>1, TcpInvariant, PTL DEF TcpSpec, TcpDataFirst
=============================================================================
