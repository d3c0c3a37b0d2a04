-------------------------- MODULE TraceIngestProofs --------------------------
(***************************************************************************)
(* Proofs, for every value of the constants, of the safety properties of   *)
(* TraceIngest.  What a session holds stays true of the tables however     *)
(* many requests overlap (Basics); that it is also up to date, and that    *)
(* nothing is stored twice, lowered or missed, needs that none does.       *)
(*                                                                         *)
(* The usage of a trace is a sum over a table that grows: that the sum is  *)
(* defined and how it grows are shown along the behaviour, one row at a    *)
(* time (SumsFit).                                                         *)
(***************************************************************************)
EXTENDS TraceIngest, SequenceTheorems, TLAPS

-----------------------------------------------------------------------------
(* Sums over a table of calls *)

Adds(u, made, in, t, n) ==
  u = [k \in 0 .. n |->
         IF k = 0 THEN NoUsage
         ELSE IF in[made[k].span].trace = t THEN UsageWith(u[k - 1], made[k].call)
         ELSE u[k - 1]]

(* The usage of t is defined over the first n calls, in one way. *)
Defined(made, in, t, n) ==
  \E u \in [0 .. n -> Usage] : Adds(u, made, in, t, n) /\ \A v : Adds(v, made, in, t, n) => v = u

SumOf(made, in, t, n) ==
  LET used[k \in 0 .. n] ==
        IF k = 0 THEN NoUsage
        ELSE IF in[made[k].span].trace = t THEN UsageWith(used[k - 1], made[k].call)
        ELSE used[k - 1]
  IN  used[n]

LEMMA UsageIsSum ==
  ASSUME NEW t, NEW n
  PROVE  /\ UsageOf(t, n) = SumOf(calls, spans, t, n)
         /\ UsageOf(t, n)' = SumOf(calls', spans', t, n)
BY DEF UsageOf, SumOf

LEMMA SumIs ==
  ASSUME NEW made, NEW in, NEW t, NEW n, NEW u, Adds(u, made, in, t, n),
         \A v : Adds(v, made, in, t, n) => v = u
  PROVE  SumOf(made, in, t, n) = u[n]
<1>1. u = [k \in 0 .. n |->
             IF k = 0 THEN NoUsage
             ELSE IF in[made[k].span].trace = t THEN UsageWith(u[k - 1], made[k].call)
             ELSE u[k - 1]]
  BY DEF Adds
<1>2. \A v :
        v = [k \in 0 .. n |->
               IF k = 0 THEN NoUsage
               ELSE IF in[made[k].span].trace = t THEN UsageWith(v[k - 1], made[k].call)
               ELSE v[k - 1]]
        => v = u
  BY DEF Adds
<1> QED
  BY <1>1, <1>2 DEF SumOf

LEMMA UsageWithType ==
  ASSUME NEW u \in Usage, NEW m \in ModelCall
  PROVE  UsageWith(u, m) \in Usage
BY DEF Usage, ModelCall, UsageWith

LEMMA SumType ==
  ASSUME NEW made, NEW in, NEW t, NEW n \in Nat, Defined(made, in, t, n)
  PROVE  SumOf(made, in, t, n) \in Usage
<1>1. PICK u \in [0 .. n -> Usage] : Adds(u, made, in, t, n) /\ \A v : Adds(v, made, in, t, n) => v = u
  BY DEF Defined
<1>2. SumOf(made, in, t, n) = u[n]
  BY <1>1, SumIs
<1> QED
  BY <1>1, <1>2

LEMMA NoCallsNoUsage ==
  ASSUME NEW made, NEW in, NEW t
  PROVE  Defined(made, in, t, 0) /\ SumOf(made, in, t, 0) = NoUsage
<1> DEFINE u == [k \in 0 .. 0 |-> NoUsage]
<1>1. u \in [0 .. 0 -> Usage]
  BY DEF NoUsage, Usage
<1>2. Adds(u, made, in, t, 0)
  BY DEF Adds
<1>3. ASSUME NEW v, Adds(v, made, in, t, 0) PROVE v = u
  BY <1>3 DEF Adds
<1>4. u[0] = NoUsage
  OBVIOUS
<1> HIDE DEF u
<1>5. Defined(made, in, t, 0)
  BY <1>1, <1>2, <1>3 DEF Defined
<1>6. SumOf(made, in, t, 0) = u[0]
  BY <1>2, <1>3, SumIs
<1> QED
  BY <1>4, <1>5, <1>6

(* The sum over n calls depends on these calls and their traces alone.     *)
LEMMA SumSame ==
  ASSUME NEW made, NEW in, NEW made2, NEW in2, NEW t, NEW n \in Nat,
         \A k \in 1 .. n : made2[k] = made[k] /\ in2[made[k].span].trace = in[made[k].span].trace,
         Defined(made, in, t, n)
  PROVE  Defined(made2, in2, t, n) /\ SumOf(made2, in2, t, n) = SumOf(made, in, t, n)
<1>1. ASSUME NEW u PROVE Adds(u, made2, in2, t, n) <=> Adds(u, made, in, t, n)
  <2>1. [k \in 0 .. n |->
           IF k = 0 THEN NoUsage
           ELSE IF in2[made2[k].span].trace = t THEN UsageWith(u[k - 1], made2[k].call)
           ELSE u[k - 1]]
        = [k \in 0 .. n |->
             IF k = 0 THEN NoUsage
             ELSE IF in[made[k].span].trace = t THEN UsageWith(u[k - 1], made[k].call)
             ELSE u[k - 1]]
    OBVIOUS
  <2> QED
    BY <2>1 DEF Adds
<1>2. PICK u \in [0 .. n -> Usage] : Adds(u, made, in, t, n) /\ \A v : Adds(v, made, in, t, n) => v = u
  BY DEF Defined
<1>3. Adds(u, made2, in2, t, n) /\ \A v : Adds(v, made2, in2, t, n) => v = u
  BY <1>1, <1>2
<1>4. SumOf(made, in, t, n) = u[n] /\ SumOf(made2, in2, t, n) = u[n]
  BY <1>2, <1>3, SumIs
<1> QED
  BY <1>3, <1>4 DEF Defined

(* One more call adds its own usage, if it is of the trace.                *)
LEMMA SumOneMore ==
  ASSUME NEW made, NEW in, NEW t, NEW n \in Nat, Defined(made, in, t, n), made[n + 1].call \in ModelCall
  PROVE  /\ Defined(made, in, t, n + 1)
         /\ SumOf(made, in, t, n + 1) =
              IF in[made[n + 1].span].trace = t
                THEN UsageWith(SumOf(made, in, t, n), made[n + 1].call) ELSE SumOf(made, in, t, n)
<1>1. PICK u \in [0 .. n -> Usage] : Adds(u, made, in, t, n) /\ \A v : Adds(v, made, in, t, n) => v = u
  BY DEF Defined
<1> DEFINE last == IF in[made[n + 1].span].trace = t THEN UsageWith(u[n], made[n + 1].call) ELSE u[n]
           w == [k \in 0 .. n + 1 |-> IF k = n + 1 THEN last ELSE u[k]]
<1>2. last \in Usage
  BY <1>1, UsageWithType
<1> HIDE DEF last
<1>3. w \in [0 .. n + 1 -> Usage] /\ w[n + 1] = last
  BY <1>1, <1>2
<1>4. \A k \in 0 .. n :
        u[k] = IF k = 0 THEN NoUsage
               ELSE IF in[made[k].span].trace = t THEN UsageWith(u[k - 1], made[k].call)
               ELSE u[k - 1]
  BY <1>1 DEF Adds
<1>5. Adds(w, made, in, t, n + 1)
  <2>1. \A k \in 0 .. n + 1 :
          w[k] = IF k = 0 THEN NoUsage
                 ELSE IF in[made[k].span].trace = t THEN UsageWith(w[k - 1], made[k].call)
                 ELSE w[k - 1]
    <3> TAKE k \in 0 .. n + 1
    <3>1. CASE k = n + 1
      <4>1. w[n] = u[n] /\ k # 0 /\ k - 1 = n
        BY <3>1
      <4> QED
        BY <3>1, <4>1, <1>3 DEF last
    <3>2. CASE k # n + 1
      <4>1. k \in 0 .. n /\ w[k] = u[k] /\ (k # 0 => w[k - 1] = u[k - 1])
        BY <3>2
      <4> QED
        BY <1>4, <4>1
    <3> QED
      BY <3>1, <3>2
  <2> QED
    BY <2>1, <1>3 DEF Adds
<1>6. ASSUME NEW v, Adds(v, made, in, t, n + 1) PROVE v = w
  <2> DEFINE p == [k \in 0 .. n |-> v[k]]
  <2>1. /\ v = [k \in 0 .. n + 1 |-> v[k]]
        /\ \A k \in 0 .. n + 1 :
             v[k] = IF k = 0 THEN NoUsage
                    ELSE IF in[made[k].span].trace = t THEN UsageWith(v[k - 1], made[k].call)
                    ELSE v[k - 1]
    BY <1>6 DEF Adds
  <2>2. Adds(p, made, in, t, n)
    <3>1. \A k \in 0 .. n :
            p[k] = IF k = 0 THEN NoUsage
                   ELSE IF in[made[k].span].trace = t THEN UsageWith(p[k - 1], made[k].call)
                   ELSE p[k - 1]
      <4> TAKE k \in 0 .. n
      <4>1. k \in 0 .. n + 1 /\ p[k] = v[k] /\ (k # 0 => p[k - 1] = v[k - 1])
        OBVIOUS
      <4> QED
        BY <2>1, <4>1
    <3> QED
      BY <3>1 DEF Adds
  <2>3. p = u
    BY <1>1, <2>2
  <2>4. \A k \in 0 .. n : v[k] = u[k]
    BY <2>3
  <2>5. v[n + 1] = last
    <3>1. n + 1 # 0 /\ n + 1 \in 0 .. n + 1 /\ (n + 1) - 1 = n /\ v[n] = u[n]
      BY <2>4
    <3> QED
      BY <2>1, <3>1 DEF last
  <2>6. \A k \in 0 .. n + 1 : v[k] = w[k]
    BY <2>4, <2>5
  <2> QED
    BY <2>1, <2>6
<1> HIDE DEF w
<1>7. SumOf(made, in, t, n) = u[n] /\ SumOf(made, in, t, n + 1) = w[n + 1]
  BY <1>1, <1>5, <1>6, SumIs
<1> QED
  BY <1>3, <1>5, <1>6, <1>7 DEF Defined, last

-----------------------------------------------------------------------------
(* Tables and sessions *)

References ==
  /\ \A s \in DOMAIN spans :
       LET row == spans[s] IN
       /\ row.trace \in DOMAIN traces
       /\ row.parent # Null =>
            /\ row.parent \in DOMAIN spans /\ row.parent < s
            /\ spans[row.parent].trace = row.trace
  /\ \A c \in DOMAIN calls : calls[c].span \in DOMAIN spans
  /\ \A f \in findings : f.trace \in DOMAIN traces /\ f.span \in DOMAIN spans \cup {Null}

Tables ==
  /\ traces \in Seq(TraceRow) /\ spans \in Seq(SpanRow) /\ calls \in Seq(CallRow)
  /\ \A e \in events : e.trace \in DOMAIN traces /\ e.span \in DOMAIN spans \cup {Null}
  /\ findings \subseteq FindingRow
  /\ References

(* What the session w of a request with body q relies on at label l.       *)
Fits(q, l, w) ==
  /\ l # "check"
  /\ l = "scan" => q.op \in {"finish", "update", "model", "event"}
  /\ l \in {"scan", "commit"} /\ q.op # "start" =>
       /\ w \in Session /\ w.trace \in DOMAIN traces
       /\ q.op = "finish" => w.span = Null
       /\ q.op = "span" /\ w.parent # Null =>
            w.parent \in DOMAIN spans /\ spans[w.parent].trace = w.trace
       /\ q.op \in {"update", "model"} => w.span \in DOMAIN spans /\ spans[w.span].trace = w.trace
       /\ q.op = "event" => w.span \in DOMAIN spans \cup {Null}

SessionsFit ==
  \A h \in Handler : (pc[h] # "idle" => req[h] \in Requests) /\ Fits(req[h], pc[h], work[h])

Basics == Tables /\ HandlersTypeOK(Session) /\ SessionsFit

(* The usage of every trace is defined over all prefixes of the calls, and *)
(* a trace that is not there has none.                                     *)
SumsFit ==
  \A t \in Nat, n \in 0 .. Len(calls) :
    /\ Defined(calls, spans, t, n)
    /\ t \notin DOMAIN traces => SumOf(calls, spans, t, n) = NoUsage

(* Rows stay, and a span stays in its trace. *)
Grow ==
  /\ DOMAIN traces \subseteq DOMAIN traces'
  /\ DOMAIN spans \subseteq DOMAIN spans'
  /\ \A s \in DOMAIN spans : spans'[s].trace = spans[s].trace

(* What the body of each operation names.                                  *)
LEMMA OpFacts ==
  ASSUME NEW q \in Requests
  PROVE  /\ q.op \in {"start", "finish", "span", "update", "model", "event"}
         /\ q.op \in {"start", "finish", "span", "event"} => q.trace \in TraceId
         /\ q.op # "model" => q.hits \subseteq Match
         /\ q.op = "finish" => q.status \in TraceStatus /\ q.risk \in Severity
         /\ q.op = "span" => q.span \in SpanId /\ q.status \in SpanStatus
         /\ q.op = "update" => q.status \in SpanStatus \cup {Null}
         /\ q.op = "model" => q.call \in ModelCall
BY IngestAssumption DEF Body

(* The worst of some severities is one of them, and above the others.      *)
LEMMA MaxOfSeverities ==
  ASSUME NEW S \in SUBSET Severity, S # {}
  PROVE  Max(S) \in S /\ \A y \in S : Max(S) >= y
<1>1. \E x \in S : \A y \in S : x >= y
  <2>1. CASE 4 \in S
    BY <2>1 DEF Severity
  <2>2. CASE 4 \notin S /\ 3 \in S
    BY <2>2 DEF Severity
  <2>3. CASE 4 \notin S /\ 3 \notin S /\ 2 \in S
    BY <2>3 DEF Severity
  <2>4. CASE 4 \notin S /\ 3 \notin S /\ 2 \notin S /\ 1 \in S
    BY <2>4 DEF Severity
  <2>5. CASE 4 \notin S /\ 3 \notin S /\ 2 \notin S /\ 1 \notin S
    <3>1. \A y \in S : y = 0
      BY <2>5 DEF Severity
    <3> QED
      BY <3>1
  <2> QED
    BY <2>1, <2>2, <2>3, <2>4, <2>5
<1> QED
  BY <1>1 DEF Max

LEMMA WorstOf ==
  ASSUME NEW risk \in Severity, NEW S \in SUBSET (Match \cup LimitMatch)
  PROVE  /\ Worst(risk, S) \in Severity /\ Worst(risk, S) >= risk
         /\ \A m \in S : SeverityOf(m) \in Severity /\ Worst(risk, S) >= SeverityOf(m)
<1> DEFINE all == {risk} \cup {SeverityOf(m) : m \in S}
<1>1. \A m \in S : SeverityOf(m) \in Severity
  BY IngestAssumption DEF SeverityOf, Severity
<1>2. all \in SUBSET Severity /\ all # {} /\ risk \in all /\ \A m \in S : SeverityOf(m) \in all
  BY <1>1
<1>3. Worst(risk, S) = Max(all)
  BY DEF Worst
<1> HIDE DEF all
<1> QED
  BY <1>1, <1>2, <1>3, MaxOfSeverities

LEMMA RiskIs ==
  ASSUME NEW h \in Handler, work[h].risk \in Severity, NEW S \in SUBSET (Match \cup LimitMatch),
         NEW reported \in Severity
  PROVE  /\ RiskAfter(h, S, reported) \in Severity /\ RiskAfter(h, S, reported) >= work[h].risk
         /\ \A m \in S : RiskAfter(h, S, reported) >= SeverityOf(m)
<1> DEFINE both == {work[h].risk, reported}
<1>1. both \in SUBSET Severity /\ both # {} /\ work[h].risk \in both
  OBVIOUS
<1>2. RiskAfter(h, S, reported) = Worst(Max(both), S)
  BY DEF RiskAfter
<1> HIDE DEF both
<1>3. Max(both) \in Severity /\ Max(both) >= work[h].risk
  BY <1>1, MaxOfSeverities
<1> DEFINE m0 == Max(both)
<1>4. /\ Worst(m0, S) \in Severity /\ Worst(m0, S) >= m0
      /\ \A m \in S : Worst(m0, S) >= SeverityOf(m)
  BY <1>3, WorstOf
<1>5. m0 >= work[h].risk /\ m0 \in Severity
  BY <1>3
<1>6. RiskAfter(h, S, reported) = Worst(m0, S)
  BY <1>2
<1> HIDE DEF m0
<1>7. Worst(m0, S) >= work[h].risk
  BY <1>4, <1>5 DEF Severity
<1> QED
  BY <1>4, <1>6, <1>7

-----------------------------------------------------------------------------
(* The steps of a request *)

(* A step of a request moves that request alone: on with a session, or to  *)
(* its answer; only a commit writes.                                       *)
LEMMA ServeMovesOne ==
  ASSUME NEW h \in Handler, Serve(h)
  PROVE  /\ Busy(h) /\ req' = req /\ overlap' = overlap
         /\ \/ \E l \in {"scan", "commit"} : \E w : Continue(h, l, w) /\ UNCHANGED tables
            \/ \E c \in {200, 201, 404, 500} : \E row : Respond(h, c, row)
<1> DEFINE Moved == \/ \E l \in {"scan", "commit"} : \E w : Continue(h, l, w) /\ UNCHANGED tables
                    \/ \E c \in {200, 201, 404, 500} : \E row : Respond(h, c, row)
<1>0. Moved => req' = req /\ overlap' = overlap
  BY DEF Continue, Respond
<1>1. \A t, s, p, l : Hold(h, t, s, p, l) /\ l \in {"scan", "commit"} /\ UNCHANGED tables => Moved
  BY DEF Hold
<1>2. \A c, row : Respond(h, c, row) /\ c \in {200, 201, 404, 500} => Moved
  OBVIOUS
<1> HIDE DEF Moved
<1> USE DEF Busy, Missing, Ambiguous, Single
<1>3. StartLoad(h) => Busy(h) /\ Moved
  BY <1>2 DEF StartLoad, Moved
<1>4. FinishLoad(h) => Busy(h) /\ Moved
  BY <1>1, <1>2 DEF FinishLoad
<1>5. SpanLoad(h) => Busy(h) /\ Moved
  BY <1>1, <1>2 DEF SpanLoad
<1>6. ChildLoad(h) => Busy(h) /\ Moved
  BY <1>1, <1>2 DEF ChildLoad
<1>7. EventLoad(h) => Busy(h) /\ Moved
  BY <1>1, <1>2 DEF EventLoad
<1>8. Scan(h) => Busy(h) /\ Moved
  BY <1>2 DEF Scan, Moved
<1>9. StartCommit(h) => Busy(h) /\ Moved
  BY <1>2 DEF StartCommit
<1>10. FinishCommit(h) => Busy(h) /\ Moved
  BY <1>2 DEF FinishCommit
<1>11. SpanCommit(h) => Busy(h) /\ Moved
  BY <1>2 DEF SpanCommit
<1>12. ChildCommit(h) => Busy(h) /\ Moved
  BY <1>2 DEF ChildCommit
<1>13. Abort(h) => Busy(h) /\ Moved
  BY <1>2 DEF Abort, Die
<1> QED
  BY <1>0, <1>3, <1>4, <1>5, <1>6, <1>7, <1>8, <1>9, <1>10, <1>11, <1>12, <1>13 DEF Serve, Moved

LEMMA At ==
  ASSUME Basics, NEW h \in Handler, Busy(h)
  PROVE  req[h] \in Requests /\ Fits(req[h], pc[h], work[h]) /\ Tables
BY DEF Basics, SessionsFit, Busy

LEMMA TablesStay ==
  ASSUME Tables, UNCHANGED tables
  PROVE  Tables' /\ Grow
BY DEF tables, Tables, References, Grow

(* A request moves on: what it then relies on is all that is left to show. *)
LEMMA MoveOn ==
  ASSUME Basics, NEW h \in Handler, Busy(h), NEW l \in {"scan", "commit"}, NEW w, Continue(h, l, w),
         UNCHANGED tables, w \in Session \cup {Null}, Fits(req[h], l, w)
  PROVE  Basics'
<1>1. /\ pc' = [pc EXCEPT ![h] = l] /\ work' = [work EXCEPT ![h] = w]
      /\ UNCHANGED <<req, resp, overlap>>
  BY DEF Continue
<1>2. Tables' /\ HandlersTypeOK(Session)'
  BY <1>1, TablesStay DEF Basics, HandlersTypeOK
<1>3. /\ pc'[h] = l /\ work'[h] = w
      /\ \A g \in Handler : g # h => pc'[g] = pc[g] /\ work'[g] = work[g]
  BY <1>1 DEF Basics, HandlersTypeOK
<1>4. UNCHANGED <<traces, spans>>
  BY DEF tables
<1>5. ASSUME NEW g \in Handler
      PROVE  (pc'[g] # "idle" => req'[g] \in Requests) /\ Fits(req[g], pc[g], work[g])'
  BY <1>1, <1>3, <1>4 DEF Basics, SessionsFit, Fits, Busy
<1> QED
  BY <1>2, <1>5 DEF Basics, SessionsFit

(* A request is answered. *)
LEMMA Done ==
  ASSUME Basics, NEW h \in Handler, Busy(h), NEW c \in {200, 201, 404, 500}, NEW row, Respond(h, c, row),
         row = Null \/ row \in Nat, Tables', Grow
  PROVE  Basics'
<1>1. /\ pc' = [pc EXCEPT ![h] = "done"] /\ work' = [work EXCEPT ![h] = Null]
      /\ resp' = [resp EXCEPT ![h] = [http |-> c, row |-> row]]
      /\ UNCHANGED <<req, overlap>>
  BY DEF Respond
<1>2. HandlersTypeOK(Session)'
  BY <1>1 DEF Basics, HandlersTypeOK, Answer
<1>3. /\ pc'[h] = "done"
      /\ \A g \in Handler : g # h => pc'[g] = pc[g] /\ work'[g] = work[g]
  BY <1>1 DEF Basics, HandlersTypeOK
<1>4. ASSUME NEW g \in Handler, g # h
      PROVE  (pc'[g] # "idle" => req'[g] \in Requests) /\ Fits(req[g], pc[g], work[g])'
  BY <1>1, <1>3, <1>4 DEF Basics, SessionsFit, Fits, Grow
<1>5. (pc'[h] # "idle" => req'[h] \in Requests) /\ Fits(req[h], pc[h], work[h])'
  BY <1>1, <1>3 DEF Basics, SessionsFit, Fits, Busy
<1> QED
  BY <1>2, <1>4, <1>5 DEF Basics, SessionsFit

(* Where a lookup of the request q leads: to the trace t, its span s or    *)
(* the parent p of a new one, and to the step l.                           *)
Loaded(q, t, s, p, l) ==
  /\ t \in DOMAIN traces
  /\ \/ q.op = "finish" /\ s = Null /\ p = Null /\ l = "scan" /\ traces[t].status = "RUNNING"
     \/ /\ q.op = "span" /\ s = Null /\ l = "commit" /\ SpansIn(t, q.span) = {}
        /\ p # Null => p \in DOMAIN spans /\ spans[p].trace = t
     \/ q.op \in {"update", "model"} /\ s \in DOMAIN spans /\ t = spans[s].trace /\ p = Null /\ l = "scan"
     \/ q.op = "event" /\ s \in DOMAIN spans \cup {Null} /\ p = Null /\ l = "scan"

LEMMA Loads ==
  ASSUME Basics, NEW h \in Handler, StartLoad(h) \/ FinishLoad(h) \/ SpanLoad(h) \/ ChildLoad(h) \/ EventLoad(h)
  PROVE  /\ Busy(h) /\ UNCHANGED tables
         /\ \/ \E c \in {200, 201, 404, 500} : \E row : Respond(h, c, row) /\ (row = Null \/ row \in Nat)
            \/ req[h].op = "start" /\ TracesOf(req[h].trace) = {} /\ Continue(h, "commit", Null)
            \/ \E t, s, p, l : Loaded(req[h], t, s, p, l) /\ Hold(h, t, s, p, l)
<1> DEFINE Answered == \E c \in {200, 201, 404, 500} : \E row : Respond(h, c, row) /\ (row = Null \/ row \in Nat)
           Goal == \/ Answered
                   \/ req[h].op = "start" /\ TracesOf(req[h].trace) = {} /\ Continue(h, "commit", Null)
                   \/ \E t, s, p, l : Loaded(req[h], t, s, p, l) /\ Hold(h, t, s, p, l)
<1>1. \A rows : Missing(h, rows) \/ Ambiguous(h, rows) => Answered
  BY DEF Missing, Ambiguous
<1>2. \A c, row : Respond(h, c, row) /\ c \in {200, 201, 404, 500} /\ row \in Nat => Answered
  OBVIOUS
<1>3. /\ DOMAIN traces \subseteq Nat /\ DOMAIN spans \subseteq Nat
      /\ \A s \in DOMAIN spans : spans[s].trace \in DOMAIN traces
      /\ \A ext : TracesOf(ext) \subseteq DOMAIN traces /\ SpansOf(ext) \subseteq DOMAIN spans
      /\ \A t, ext, s : s \in SpansIn(t, ext) => s \in DOMAIN spans /\ spans[s].trace = t
  BY DEF Basics, Tables, References, TracesOf, SpansOf, SpansIn
<1> HIDE DEF Answered
<1>4. StartLoad(h) => Busy(h) /\ UNCHANGED tables /\ Goal
  BY <1>1, <1>2, <1>3 DEF StartLoad, Busy
<1>5. FinishLoad(h) => Busy(h) /\ UNCHANGED tables /\ Goal
  <2> SUFFICES ASSUME FinishLoad(h) PROVE Goal
    BY DEF FinishLoad, Busy
  <2>1. ASSUME NEW t \in TracesOf(req[h].trace), Hold(h, t, Null, Null, "scan"), traces[t].status = "RUNNING"
        PROVE  Goal
    BY <1>3, <2>1 DEF FinishLoad, Loaded
  <2> QED
    BY <1>1, <1>2, <1>3, <2>1 DEF FinishLoad
<1>6. SpanLoad(h) => Busy(h) /\ UNCHANGED tables /\ Goal
  <2> SUFFICES ASSUME SpanLoad(h) PROVE Goal
    BY DEF SpanLoad, Busy
  <2>1. ASSUME NEW t \in TracesOf(req[h].trace), SpansIn(t, req[h].span) = {}, NEW p,
               p = Null \/ p \in SpansIn(t, req[h].parent), Hold(h, t, Null, p, "commit")
        PROVE  Goal
    <3>1. Loaded(req[h], t, Null, p, "commit")
      BY <1>3, <2>1 DEF SpanLoad, Loaded
    <3> QED
      BY <2>1, <3>1
  <2> HIDE DEF Goal
  <2>2. ASSUME NEW t \in TracesOf(req[h].trace), NEW s \in SpansIn(t, req[h].span), Respond(h, 201, s)
        PROVE  Goal
    BY <1>2, <1>3, <2>2 DEF Goal
  <2>3. Answered => Goal
    BY DEF Goal
  <2>4. CASE req[h].parent = Null
    BY <1>1, <2>1, <2>2, <2>3, <2>4 DEF SpanLoad
  <2>5. CASE req[h].parent # Null
    BY <1>1, <2>1, <2>2, <2>3, <2>5 DEF SpanLoad
  <2> QED
    BY <2>4, <2>5
<1>7. ChildLoad(h) => Busy(h) /\ UNCHANGED tables /\ Goal
  <2> SUFFICES ASSUME ChildLoad(h) PROVE Goal
    BY DEF ChildLoad, Busy
  <2>1. ASSUME NEW s \in SpansOf(req[h].span), Hold(h, spans[s].trace, s, Null, "scan")
        PROVE  Goal
    <3>1. Loaded(req[h], spans[s].trace, s, Null, "scan")
      BY <1>3, <2>1 DEF ChildLoad, Loaded
    <3> QED
      BY <2>1, <3>1
  <2> QED
    BY <1>1, <2>1 DEF ChildLoad
<1>8. EventLoad(h) => Busy(h) /\ UNCHANGED tables /\ Goal
  <2> SUFFICES ASSUME EventLoad(h) PROVE Goal
    BY DEF EventLoad, Busy
  <2>1. ASSUME NEW t \in TracesOf(req[h].trace), NEW s,
               s = Null \/ s \in SpansIn(t, req[h].span), Hold(h, t, s, Null, "scan")
        PROVE  Goal
    <3>1. Loaded(req[h], t, s, Null, "scan")
      BY <1>3, <2>1 DEF EventLoad, Loaded
    <3> QED
      BY <2>1, <3>1
  <2> HIDE DEF Goal
  <2>2. Answered => Goal
    BY DEF Goal
  <2>3. CASE req[h].span = Null
    BY <1>1, <2>1, <2>2, <2>3 DEF EventLoad
  <2>4. CASE req[h].span # Null
    BY <1>1, <2>1, <2>2, <2>4 DEF EventLoad
  <2> QED
    BY <2>3, <2>4
<1> QED
  BY <1>4, <1>5, <1>6, <1>7, <1>8 DEF Answered

Held(t, s, p) ==
  [trace |-> t, risk |-> traces[t].risk, span |-> s,
   status |-> IF s = Null THEN Null ELSE spans[s].status,
   parent |-> p, new |-> {}, totals |-> traces[t].totals]

LEMMA HoldFits ==
  ASSUME Basics, NEW h \in Handler, NEW t, NEW s, NEW p, NEW l, Loaded(req[h], t, s, p, l), Hold(h, t, s, p, l)
  PROVE  /\ Continue(h, l, Held(t, s, p)) /\ l \in {"scan", "commit"}
         /\ Held(t, s, p) \in Session /\ Fits(req[h], l, Held(t, s, p))
<1>1. Continue(h, l, Held(t, s, p))
  BY DEF Hold, Held
<1>2. l \in {"scan", "commit"} /\ t \in DOMAIN traces /\ traces[t] \in TraceRow /\ t \in Nat
  BY DEF Loaded, Basics, Tables
<1>3. s = Null \/ (s \in DOMAIN spans /\ spans[s] \in SpanRow /\ s \in Nat)
  BY DEF Loaded, Basics, Tables
<1>4. p = Null \/ p \in Nat
  BY DEF Loaded, Basics, Tables
<1>5. Held(t, s, p) \in Session
  BY <1>2, <1>3, <1>4 DEF Held, Session, TraceRow, SpanRow
<1>6. Held(t, s, p).trace = t /\ Held(t, s, p).span = s /\ Held(t, s, p).parent = p
  BY DEF Held
<1> DEFINE w == Held(t, s, p)
<1> HIDE DEF w
<1>7. w.trace = t /\ w.span = s /\ w.parent = p /\ w \in Session
  BY <1>5, <1>6 DEF w
<1>8. Fits(req[h], l, w)
  BY <1>2, <1>7 DEF Fits, Loaded
<1> QED
  BY <1>1, <1>2, <1>5, <1>8 DEF w

LEMMA LoadBasics ==
  ASSUME Basics, NEW h \in Handler, StartLoad(h) \/ FinishLoad(h) \/ SpanLoad(h) \/ ChildLoad(h) \/ EventLoad(h)
  PROVE  Basics'
<1>1. Busy(h) /\ UNCHANGED tables /\ Tables' /\ Grow
  BY Loads, TablesStay DEF Basics
<1>2. CASE \E c \in {200, 201, 404, 500} : \E row : Respond(h, c, row) /\ (row = Null \/ row \in Nat)
  BY <1>1, <1>2, Done
<1>3. CASE req[h].op = "start" /\ Continue(h, "commit", Null)
  <2>1. Fits(req[h], "commit", Null)
    BY <1>3 DEF Fits
  <2> QED
    BY <1>1, <1>3, <2>1, MoveOn
<1>4. CASE \E t, s, p, l : Loaded(req[h], t, s, p, l) /\ Hold(h, t, s, p, l)
  <2>1. PICK t, s, p, l : Loaded(req[h], t, s, p, l) /\ Hold(h, t, s, p, l)
    BY <1>4
  <2> DEFINE w == Held(t, s, p)
  <2>2. Continue(h, l, w) /\ l \in {"scan", "commit"} /\ w \in Session /\ Fits(req[h], l, w)
    BY <2>1, HoldFits
  <2> HIDE DEF w
  <2> QED
    BY <1>1, <2>2, MoveOn
<1> QED
  BY <1>2, <1>3, <1>4, Loads

-----------------------------------------------------------------------------
(* What a scan leaves in the session, and what a commit leaves in the      *)
(* tables                                                                  *)

Scanned(h) ==
  [work[h] EXCEPT !.new = {m \in Reported(h) : ~ Known(work[h].trace, Subject(h), m)},
                  !.totals = Totals(work[h].trace)]

LEMMA ReportedMatches ==
  ASSUME Basics, NEW h \in Handler, Busy(h), req[h].op # "start"
  PROVE  Reported(h) \subseteq Match \cup LimitMatch
<1>1. req[h] \in Requests
  BY At
<1>2. \A u : Exceeded(u) \subseteq LimitMatch
  BY DEF Exceeded, LimitMatch
<1> QED
  BY <1>1, <1>2, OpFacts DEF Reported

LEMMA ScanSets ==
  ASSUME Basics, SumsFit, NEW h \in Handler, Scan(h)
  PROVE  /\ Busy(h) /\ pc[h] = "scan" /\ Continue(h, "commit", Scanned(h)) /\ UNCHANGED tables
         /\ req[h] \in Requests /\ req[h].op \in {"finish", "update", "model", "event"}
         /\ work[h] \in Session /\ work[h].trace \in DOMAIN traces
         /\ Scanned(h) \in Session
         /\ Scanned(h).new = {m \in Reported(h) : ~ Known(work[h].trace, Subject(h), m)}
         /\ Scanned(h).totals = Totals(work[h].trace)
         /\ Scanned(h).trace = work[h].trace /\ Scanned(h).risk = work[h].risk
         /\ Scanned(h).span = work[h].span /\ Scanned(h).parent = work[h].parent
<1>1. Busy(h) /\ pc[h] = "scan" /\ Continue(h, "commit", Scanned(h)) /\ UNCHANGED tables
  BY DEF Scan, Busy, Scanned
<1>2. /\ req[h] \in Requests /\ req[h].op \in {"finish", "update", "model", "event"}
      /\ work[h] \in Session /\ work[h].trace \in DOMAIN traces
  BY <1>1, At DEF Fits
<1>3. Totals(work[h].trace) \in Usage
  <2>1. PICK t, n : t = work[h].trace /\ n = Len(calls)
    OBVIOUS
  <2>2. t \in Nat /\ n \in Nat /\ Defined(calls, spans, t, n)
    BY <1>2, <2>1 DEF Basics, Tables, SumsFit
  <2>3. SumOf(calls, spans, t, n) \in Usage /\ UsageOf(t, n) = SumOf(calls, spans, t, n)
    BY <2>2, SumType, UsageIsSum
  <2> QED
    BY <2>1, <2>3 DEF Totals
<1> DEFINE found == {m \in Reported(h) : ~ Known(work[h].trace, Subject(h), m)}
           sum == Totals(work[h].trace)
<1>4. found \in SUBSET (Match \cup LimitMatch) /\ sum \in Usage
  BY <1>1, <1>2, <1>3, ReportedMatches
<1>5. Scanned(h) = [work[h] EXCEPT !.new = found, !.totals = sum]
  BY DEF Scanned
<1> HIDE DEF found, sum
<1>6. PICK w : w = work[h]
  OBVIOUS
<1>7. w \in Session /\ Scanned(h) = [w EXCEPT !.new = found, !.totals = sum]
  BY <1>2, <1>5, <1>6
<1>8. /\ Scanned(h) \in Session /\ Scanned(h).new = found /\ Scanned(h).totals = sum
      /\ Scanned(h).trace = w.trace /\ Scanned(h).risk = w.risk
      /\ Scanned(h).span = w.span /\ Scanned(h).parent = w.parent
  BY <1>4, <1>7 DEF Session
<1> QED
  BY <1>1, <1>2, <1>6, <1>8 DEF found, sum

LEMMA ScanBasics ==
  ASSUME Basics, SumsFit, NEW h \in Handler, Scan(h)
  PROVE  Basics'
<1>1. PICK w : w = Scanned(h)
  OBVIOUS
<1>2. /\ Busy(h) /\ pc[h] = "scan" /\ Continue(h, "commit", w) /\ UNCHANGED tables /\ w \in Session
      /\ req[h].op \in {"finish", "update", "model", "event"}
      /\ w.trace = work[h].trace /\ w.span = work[h].span /\ w.parent = work[h].parent
  BY <1>1, ScanSets
<1>3. Fits(req[h], pc[h], work[h])
  BY <1>2, At
<1>4. Fits(req[h], "commit", w)
  BY <1>2, <1>3 DEF Fits
<1> QED
  BY <1>2, <1>4, MoveOn

LEMMA SetTrace ==
  ASSUME traces \in Seq(TraceRow), NEW t \in DOMAIN traces, NEW row \in TraceRow,
         traces' = [traces EXCEPT ![t] = row]
  PROVE  /\ traces' \in Seq(TraceRow) /\ DOMAIN traces' = DOMAIN traces /\ traces'[t] = row
         /\ \A k \in DOMAIN traces : k # t => traces'[k] = traces[k]
<1>1. t \in 1 .. Len(traces)
  OBVIOUS
<1>2. traces' \in Seq(TraceRow) /\ Len(traces') = Len(traces)
  BY <1>1, ExceptSeq
<1>3. DOMAIN traces' = DOMAIN traces
  OBVIOUS
<1> QED
  BY <1>2, <1>3

(* What Store adds are the findings in new, by request h.                  *)
Records(h, t, s, new) ==
  /\ findings' \subseteq FindingRow /\ findings \subseteq findings'
  /\ \A f \in findings' : f \in findings \/ (f.trace = t /\ f.span = s /\ f.by = h /\ f.match \in new)
  /\ \A m \in new : \E f \in findings' : f.trace = t /\ f.span = s /\ f.match = m

LEMMA Stored ==
  ASSUME findings \subseteq FindingRow, NEW h \in Handler, NEW t, t \in Nat,
         NEW s, s = Null \/ s \in Nat, NEW new \in SUBSET (Match \cup LimitMatch), Store(h, t, s, new)
  PROVE  Records(h, t, s, new)
<1> DEFINE row(m) == [trace |-> t, span |-> s, match |-> m, by |-> h]
<1>1. \A m \in new : row(m) \in FindingRow
  BY DEF FindingRow
<1>2. \A m : row(m).trace = t /\ row(m).span = s /\ row(m).match = m /\ row(m).by = h
  OBVIOUS
<1>3. findings' = findings \cup {row(m) : m \in new}
  BY DEF Store
<1> HIDE DEF row
<1> QED
  BY <1>1, <1>2, <1>3 DEF Records

(* What a commit leaves: of a start, the trace n, ...                      *)
StartLeaves(h, n) ==
  /\ Busy(h) /\ req[h] \in Requests /\ req[h].hits \subseteq Match /\ n \in Nat
  /\ traces' \in Seq(TraceRow) /\ DOMAIN traces' = DOMAIN traces \cup {n} /\ n \notin DOMAIN traces
  /\ \A t \in DOMAIN traces : traces'[t] = traces[t]
  /\ traces'[n].ext = req[h].trace /\ traces'[n].status = "RUNNING"
  /\ traces'[n].risk = Worst(0, req[h].hits) /\ traces'[n].totals = NoUsage
  /\ Store(h, n, Null, req[h].hits) /\ Respond(h, 201, n)
  /\ UNCHANGED <<spans, calls, events>>

LEMMA StartSets ==
  ASSUME Basics, NEW h \in Handler, StartCommit(h), NEW n, n = Len(traces) + 1
  PROVE  StartLeaves(h, n)
<1> DEFINE row == [ext |-> req[h].trace, status |-> "RUNNING", risk |-> Worst(0, req[h].hits), totals |-> NoUsage]
<1>1. /\ Busy(h) /\ req[h] \in Requests /\ req[h].op = "start"
      /\ traces \in Seq(TraceRow) /\ traces' = Append(traces, row)
      /\ UNCHANGED <<spans, calls, events>>
      /\ Store(h, Len(traces'), Null, req[h].hits) /\ Respond(h, 201, Len(traces'))
  BY At DEF StartCommit, Busy, Basics, Tables
<1>2. req[h].hits \subseteq Match /\ req[h].trace \in TraceId
  BY <1>1, OpFacts
<1>3. Worst(0, req[h].hits) \in Severity
  BY <1>2, WorstOf DEF Severity
<1>4. row \in TraceRow
  BY <1>2, <1>3 DEF TraceRow, TraceStatus, NoUsage, Usage
<1>5. row.ext = req[h].trace /\ row.status = "RUNNING" /\ row.risk = Worst(0, req[h].hits) /\ row.totals = NoUsage
  OBVIOUS
<1> HIDE DEF row
<1>6. /\ traces' \in Seq(TraceRow) /\ Len(traces') = n /\ DOMAIN traces' = DOMAIN traces \cup {n}
      /\ n \notin DOMAIN traces /\ n \in Nat
      /\ traces'[n] = row /\ \A t \in DOMAIN traces : traces'[t] = traces[t]
  BY <1>1, <1>4
<1> QED
  BY <1>1, <1>2, <1>5, <1>6 DEF StartLeaves

(* The part of a session that a request writes of.                         *)
LEMMA AtCommit ==
  ASSUME Basics, NEW h \in Handler, pc[h] = "commit", req[h].op # "start"
  PROVE  /\ Busy(h) /\ req[h] \in Requests /\ work[h] \in Session
         /\ work[h].trace \in DOMAIN traces /\ work[h].trace \in Nat
         /\ work[h].risk \in Severity /\ work[h].totals \in Usage
         /\ work[h].new \in SUBSET (Match \cup LimitMatch)
         /\ Tables /\ Fits(req[h], pc[h], work[h])
         /\ traces[work[h].trace] \in TraceRow
BY At DEF Busy, Fits, Session, Basics, Tables

(* ... of a finish, the trace t as it ended, ...                           *)
FinishLeaves(h, t) ==
  /\ Busy(h) /\ t \in DOMAIN traces /\ t \in Nat /\ traces' \in Seq(TraceRow)
  /\ DOMAIN traces' = DOMAIN traces
  /\ \A k \in DOMAIN traces : k # t => traces'[k] = traces[k]
  /\ traces'[t].ext = traces[t].ext /\ traces'[t].totals = work[h].totals
  /\ traces'[t].risk = RiskColumn(h, work[h].new, req[h].risk)
  /\ Store(h, t, Null, work[h].new) /\ Respond(h, 200, t)
  /\ UNCHANGED <<spans, calls, events>>

LEMMA FinishSets ==
  ASSUME Basics, NEW h \in Handler, FinishCommit(h), NEW t, t = work[h].trace
  PROVE  FinishLeaves(h, t)
<1> DEFINE status == IF req[h].status = "RUNNING" THEN traces[t].status ELSE req[h].status
           risk == RiskColumn(h, work[h].new, req[h].risk)
           totals == work[h].totals
<1>1. pc[h] = "commit" /\ req[h].op = "finish"
  BY DEF FinishCommit
<1>2. /\ Busy(h) /\ t \in DOMAIN traces /\ t \in Nat /\ traces[t] \in TraceRow /\ totals \in Usage
      /\ work[h].risk \in Severity /\ work[h].new \in SUBSET (Match \cup LimitMatch)
      /\ req[h].status \in TraceStatus /\ req[h].risk \in Severity
  BY <1>1, AtCommit, OpFacts
<1>3. risk \in Severity
  <2>1. RiskAfter(h, work[h].new, req[h].risk) \in Severity /\ traces[t].risk \in Severity
    BY <1>2, RiskIs DEF TraceRow
  <2> QED
    BY <2>1 DEF RiskColumn
<1>4. status \in TraceStatus
  BY <1>2 DEF TraceRow
<1>5. traces' = [traces EXCEPT ![t].status = status, ![t].risk = risk, ![t].totals = totals]
  BY <1>1 DEF FinishCommit
<1>6. traces \in Seq(TraceRow)
  BY DEF Basics, Tables
<1> HIDE DEF status, risk, totals
<1> DEFINE row == [traces[t] EXCEPT !.status = status, !.risk = risk, !.totals = totals]
<1>7. row \in TraceRow /\ row.ext = traces[t].ext /\ row.totals = totals /\ row.risk = risk
  BY <1>2, <1>3, <1>4 DEF TraceRow
<1>8. traces' = [traces EXCEPT ![t] = row]
  BY <1>2, <1>5, <1>6
<1> HIDE DEF row
<1>9. /\ traces' \in Seq(TraceRow) /\ DOMAIN traces' = DOMAIN traces /\ traces'[t] = row
      /\ \A k \in DOMAIN traces : k # t => traces'[k] = traces[k]
  BY <1>2, <1>6, <1>7, <1>8, SetTrace
<1>10. Store(h, t, Null, work[h].new) /\ Respond(h, 200, t) /\ UNCHANGED <<spans, calls, events>>
  BY DEF FinishCommit
<1> QED
  BY <1>2, <1>7, <1>9, <1>10 DEF risk, totals, FinishLeaves

LEMMA RiskSets ==
  ASSUME traces \in Seq(TraceRow), NEW t \in DOMAIN traces, NEW risk \in Severity,
         traces' = [traces EXCEPT ![t].risk = risk]
  PROVE  /\ traces' \in Seq(TraceRow) /\ DOMAIN traces' = DOMAIN traces
         /\ traces'[t].risk = risk /\ traces'[t].ext = traces[t].ext
         /\ traces'[t].status = traces[t].status /\ traces'[t].totals = traces[t].totals
         /\ \A k \in DOMAIN traces : k # t => traces'[k] = traces[k]
<1> DEFINE row == [traces[t] EXCEPT !.risk = risk]
<1>1. traces[t] \in TraceRow
  OBVIOUS
<1>2. row \in TraceRow /\ row.risk = risk /\ row.ext = traces[t].ext
      /\ row.status = traces[t].status /\ row.totals = traces[t].totals
  BY <1>1 DEF TraceRow
<1>3. traces' = [traces EXCEPT ![t] = row]
  OBVIOUS
<1> HIDE DEF row
<1> QED
  BY <1>2, <1>3, SetTrace

(* ... of a span creation, the span n of trace t, ...                      *)
SpanLeaves(h, t, n) ==
  /\ Busy(h) /\ t \in DOMAIN traces /\ t \in Nat /\ traces' \in Seq(TraceRow)
  /\ DOMAIN traces' = DOMAIN traces
  /\ \A k \in DOMAIN traces : k # t => traces'[k] = traces[k]
  /\ traces'[t].ext = traces[t].ext /\ traces'[t].totals = traces[t].totals
  /\ traces'[t].status = traces[t].status
  /\ traces'[t].risk = RiskColumn(h, req[h].hits, 0) /\ req[h].hits \subseteq Match
  /\ spans' \in Seq(SpanRow) /\ DOMAIN spans' = DOMAIN spans \cup {n} /\ n \notin DOMAIN spans /\ n \in Nat
  /\ \A s \in DOMAIN spans : spans'[s] = spans[s] /\ s < n
  /\ spans'[n].ext = req[h].span /\ spans'[n].trace = t /\ spans'[n].parent = work[h].parent
  /\ work[h].parent # Null => work[h].parent \in DOMAIN spans /\ spans[work[h].parent].trace = t
  /\ Store(h, t, n, req[h].hits) /\ Respond(h, 201, n)
  /\ UNCHANGED <<calls, events>>

LEMMA SpanSets ==
  ASSUME Basics, NEW h \in Handler, SpanCommit(h), NEW t, t = work[h].trace, NEW n, n = Len(spans) + 1
  PROVE  SpanLeaves(h, t, n)
<1> DEFINE risk == RiskColumn(h, req[h].hits, 0)
           row == NewSpan(req[h], work[h])
<1>1. pc[h] = "commit" /\ req[h].op = "span"
  BY DEF SpanCommit
<1>2. /\ Busy(h) /\ t \in DOMAIN traces /\ t \in Nat /\ traces[t] \in TraceRow
      /\ work[h].risk \in Severity /\ work[h] \in Session
      /\ req[h].hits \subseteq Match /\ req[h].span \in SpanId /\ req[h].status \in SpanStatus
      /\ work[h].parent # Null => work[h].parent \in DOMAIN spans /\ spans[work[h].parent].trace = t
      /\ spans \in Seq(SpanRow) /\ traces \in Seq(TraceRow)
  BY <1>1, AtCommit, OpFacts DEF Fits, Tables
<1>3. risk \in Severity
  <2>1. RiskAfter(h, req[h].hits, 0) \in Severity /\ traces[t].risk \in Severity
    BY <1>2, RiskIs DEF TraceRow, Severity
  <2> QED
    BY <2>1 DEF RiskColumn
<1>4. row \in SpanRow
  BY <1>2 DEF NewSpan, SpanRow, Session
<1>5. row.ext = req[h].span /\ row.trace = t /\ row.parent = work[h].parent
  BY DEF NewSpan
<1>6. /\ traces' = [traces EXCEPT ![t].risk = risk] /\ spans' = Append(spans, row)
      /\ Store(h, t, Len(spans'), req[h].hits) /\ Respond(h, 201, Len(spans')) /\ UNCHANGED <<calls, events>>
  BY DEF SpanCommit
<1> HIDE DEF risk, row
<1>7. /\ traces' \in Seq(TraceRow) /\ DOMAIN traces' = DOMAIN traces
      /\ traces'[t].risk = risk /\ traces'[t].ext = traces[t].ext
      /\ traces'[t].status = traces[t].status /\ traces'[t].totals = traces[t].totals
      /\ \A k \in DOMAIN traces : k # t => traces'[k] = traces[k]
  BY <1>2, <1>3, <1>6, RiskSets
<1>8. /\ spans' \in Seq(SpanRow) /\ Len(spans') = n /\ DOMAIN spans' = DOMAIN spans \cup {n}
      /\ n \notin DOMAIN spans /\ n \in Nat /\ spans'[n] = row
      /\ \A s \in DOMAIN spans : spans'[s] = spans[s] /\ s < n
  BY <1>2, <1>4, <1>6
<1> QED
  BY <1>2, <1>5, <1>6, <1>7, <1>8 DEF risk, SpanLeaves

(* ... and of an update, a model call or an event, what it adds to t.      *)
ChildLeaves(h, t) ==
  /\ Busy(h) /\ t \in DOMAIN traces /\ t \in Nat /\ traces' \in Seq(TraceRow)
  /\ DOMAIN traces' = DOMAIN traces
  /\ \A k \in DOMAIN traces : k # t => traces'[k] = traces[k]
  /\ traces'[t].ext = traces[t].ext /\ traces'[t].totals = traces[t].totals
  /\ traces'[t].status = traces[t].status
  /\ traces'[t].risk = RiskColumn(h, work[h].new, 0)
  /\ spans' \in Seq(SpanRow) /\ DOMAIN spans' = DOMAIN spans
  /\ \A s \in DOMAIN spans :
       spans'[s].ext = spans[s].ext /\ spans'[s].trace = spans[s].trace /\ spans'[s].parent = spans[s].parent
  /\ \/ req[h].op # "model" /\ calls' = calls
     \/ /\ req[h].op = "model" /\ work[h].span \in DOMAIN spans /\ spans[work[h].span].trace = t
        /\ req[h].call \in ModelCall
        /\ calls' = Append(calls, [span |-> work[h].span, call |-> req[h].call])
  /\ \A e \in events' : e \in events \/ (e.trace = t /\ e.span = work[h].span)
  /\ Store(h, t, Subject(h), work[h].new)
  /\ work[h].span = Null \/ work[h].span \in DOMAIN spans
  /\ \E c \in {200, 201} : Respond(h, c, work[h].span)

LEMMA ChildSets ==
  ASSUME Basics, NEW h \in Handler, ChildCommit(h), NEW t, t = work[h].trace
  PROVE  ChildLeaves(h, t)
<1> DEFINE risk == RiskColumn(h, work[h].new, 0)
           q == req[h]
<1>1. pc[h] = "commit" /\ q.op \in {"update", "model", "event"}
  BY DEF ChildCommit
<1>2. /\ Busy(h) /\ t \in DOMAIN traces /\ t \in Nat /\ traces[t] \in TraceRow
      /\ work[h].risk \in Severity /\ work[h].new \in SUBSET (Match \cup LimitMatch)
      /\ q.op = "update" => q.status \in SpanStatus \cup {Null}
      /\ q.op = "model" => q.call \in ModelCall
      /\ q.op \in {"update", "model"} => work[h].span \in DOMAIN spans /\ spans[work[h].span].trace = t
      /\ work[h].span = Null \/ work[h].span \in DOMAIN spans
      /\ spans \in Seq(SpanRow) /\ traces \in Seq(TraceRow)
  BY <1>1, AtCommit, OpFacts DEF Fits, Tables
<1>3. risk \in Severity
  <2>1. RiskAfter(h, work[h].new, 0) \in Severity /\ traces[t].risk \in Severity
    BY <1>2, RiskIs DEF TraceRow, Severity
  <2> QED
    BY <2>1 DEF RiskColumn
<1>4. /\ traces' = [traces EXCEPT ![t].risk = risk] /\ Store(h, t, Subject(h), work[h].new)
      /\ \E c \in {200, 201} : Respond(h, c, work[h].span)
  BY DEF ChildCommit
<1> HIDE DEF risk
<1>5. /\ traces' \in Seq(TraceRow) /\ DOMAIN traces' = DOMAIN traces
      /\ traces'[t].risk = risk /\ traces'[t].ext = traces[t].ext
      /\ traces'[t].status = traces[t].status /\ traces'[t].totals = traces[t].totals
      /\ \A k \in DOMAIN traces : k # t => traces'[k] = traces[k]
  <2>1. t \in DOMAIN traces /\ traces \in Seq(TraceRow) /\ traces' = [traces EXCEPT ![t].risk = risk]
    BY <1>2, <1>4
  <2> QED
    BY <1>3, <2>1, RiskSets
<1>6. /\ spans' \in Seq(SpanRow) /\ DOMAIN spans' = DOMAIN spans
      /\ \A s \in DOMAIN spans :
           spans'[s].ext = spans[s].ext /\ spans'[s].trace = spans[s].trace /\ spans'[s].parent = spans[s].parent
  <2>1. CASE spans' = spans
    BY <1>2, <2>1
  <2>2. CASE q.op = "update"
    <3>1. PICK s, status : s = work[h].span
            /\ status = IF q.status \in {Null, work[h].status} THEN spans[s].status ELSE q.status
      OBVIOUS
    <3>2. s \in DOMAIN spans /\ spans[s] \in SpanRow
      BY <1>2, <2>2, <3>1
    <3>3. status \in SpanStatus
      BY <1>2, <2>2, <3>1, <3>2 DEF SpanRow
    <3>4. spans' = [spans EXCEPT ![s].status = status]
      BY <2>2, <3>1 DEF ChildCommit
    <3> DEFINE row == [spans[s] EXCEPT !.status = status]
    <3>5. row \in SpanRow /\ row.ext = spans[s].ext /\ row.trace = spans[s].trace /\ row.parent = spans[s].parent
      BY <3>2, <3>3 DEF SpanRow
    <3>6. spans' = [spans EXCEPT ![s] = row]
      BY <3>4
    <3> HIDE DEF row
    <3>7. s \in 1 .. Len(spans)
      BY <1>2, <3>2
    <3>8. spans' \in Seq(SpanRow) /\ DOMAIN spans' = DOMAIN spans
      BY <1>2, <3>5, <3>6, <3>7, ExceptSeq
    <3>9. spans'[s] = row /\ \A k \in DOMAIN spans : k # s => spans'[k] = spans[k]
      BY <3>2, <3>6
    <3> QED
      BY <3>5, <3>8, <3>9
  <2> QED
    BY <1>1, <2>1, <2>2 DEF ChildCommit
<1>7. \/ q.op # "model" /\ calls' = calls
      \/ q.op = "model" /\ calls' = Append(calls, [span |-> work[h].span, call |-> q.call])
  BY <1>1 DEF ChildCommit
<1>8. \A e \in events' : e \in events \/ (e.trace = t /\ e.span = work[h].span)
  BY <1>1 DEF ChildCommit
<1> QED
  BY <1>2, <1>4, <1>5, <1>6, <1>7, <1>8 DEF risk, ChildLeaves

-----------------------------------------------------------------------------
(* The tables hold together, and every usage is defined *)

LEMMA StartBasics ==
  ASSUME Basics, NEW h \in Handler, StartCommit(h)
  PROVE  Basics'
<1>1. PICK n : n = Len(traces) + 1
  OBVIOUS
<1>2. StartLeaves(h, n)
  BY <1>1, StartSets
<1>3. Tables
  BY DEF Basics
<1>4. Records(h, n, Null, req[h].hits)
  <2>1. /\ findings \subseteq FindingRow /\ n \in Nat /\ req[h].hits \in SUBSET (Match \cup LimitMatch)
        /\ Store(h, n, Null, req[h].hits)
    BY <1>2, <1>3 DEF StartLeaves, Tables
  <2> QED
    BY <2>1, Stored
<1>5. Tables' /\ Grow
  BY <1>2, <1>3, <1>4 DEF StartLeaves, Records, Tables, References, Grow
<1>6. Busy(h) /\ Respond(h, 201, n) /\ n \in Nat
  BY <1>2 DEF StartLeaves
<1> QED
  BY <1>5, <1>6, Done

LEMMA FinishBasics ==
  ASSUME Basics, NEW h \in Handler, FinishCommit(h)
  PROVE  Basics'
<1>1. PICK t : t = work[h].trace
  OBVIOUS
<1>2. FinishLeaves(h, t)
  BY <1>1, FinishSets
<1>3. Tables
  BY DEF Basics
<1>4. Records(h, t, Null, work[h].new)
  <2>1. /\ findings \subseteq FindingRow /\ t \in Nat /\ work[h].new \in SUBSET (Match \cup LimitMatch)
        /\ Store(h, t, Null, work[h].new)
    BY <1>2, <1>3, AtCommit DEF FinishCommit, FinishLeaves, Tables
  <2> QED
    BY <2>1, Stored
<1>5. Tables' /\ Grow
  BY <1>2, <1>3, <1>4 DEF FinishLeaves, Records, Tables, References, Grow
<1>6. Busy(h) /\ Respond(h, 200, t) /\ t \in Nat
  BY <1>2 DEF FinishLeaves
<1> QED
  BY <1>5, <1>6, Done

LEMMA SpanBasics ==
  ASSUME Basics, NEW h \in Handler, SpanCommit(h)
  PROVE  Basics'
<1>1. PICK t, n : t = work[h].trace /\ n = Len(spans) + 1
  OBVIOUS
<1>2. SpanLeaves(h, t, n)
  BY <1>1, SpanSets
<1>3. Tables /\ References
  BY DEF Basics, Tables
<1>4. Records(h, t, n, req[h].hits)
  <2>1. /\ findings \subseteq FindingRow /\ t \in Nat /\ n \in Nat
        /\ req[h].hits \in SUBSET (Match \cup LimitMatch) /\ Store(h, t, n, req[h].hits)
    BY <1>2, <1>3 DEF SpanLeaves, Tables
  <2> QED
    BY <2>1, Stored
<1>5. Grow
  BY <1>2 DEF SpanLeaves, Grow
<1>6. ASSUME NEW s \in DOMAIN spans'
      PROVE  /\ spans'[s].trace \in DOMAIN traces'
             /\ spans'[s].parent # Null =>
                  /\ spans'[s].parent \in DOMAIN spans' /\ spans'[s].parent < s
                  /\ spans'[spans'[s].parent].trace = spans'[s].trace
  <2>1. CASE s \in DOMAIN spans
    BY <1>2, <1>3, <2>1 DEF SpanLeaves, References
  <2>2. CASE s = n
    BY <1>2, <2>2 DEF SpanLeaves
  <2> QED
    BY <1>2, <1>6, <2>1, <2>2 DEF SpanLeaves
<1>7. \A c \in DOMAIN calls' : calls'[c].span \in DOMAIN spans'
  BY <1>2, <1>3 DEF SpanLeaves, References
<1>8. \A f \in findings' : f.trace \in DOMAIN traces' /\ f.span \in DOMAIN spans' \cup {Null}
  BY <1>2, <1>3, <1>4 DEF SpanLeaves, Records, References
<1>9. References'
  BY <1>6, <1>7, <1>8 DEF References
<1>10. Tables'
  BY <1>2, <1>3, <1>4, <1>9 DEF SpanLeaves, Records, Tables
<1>11. Busy(h) /\ Respond(h, 201, n) /\ n \in Nat
  BY <1>2 DEF SpanLeaves
<1> QED
  BY <1>5, <1>10, <1>11, Done

LEMMA ChildBasics ==
  ASSUME Basics, NEW h \in Handler, ChildCommit(h)
  PROVE  Basics'
<1>1. PICK t, s : t = work[h].trace /\ s = Subject(h)
  OBVIOUS
<1>2. ChildLeaves(h, t)
  BY <1>1, ChildSets
<1>3. Tables /\ References /\ DOMAIN spans \subseteq Nat
  BY DEF Basics, Tables
<1>4. s = Null \/ s \in DOMAIN spans
  BY <1>1, <1>2 DEF Subject, ChildLeaves
<1>5. Records(h, t, s, work[h].new)
  <2>1. /\ findings \subseteq FindingRow /\ t \in Nat /\ (s = Null \/ s \in Nat)
        /\ work[h].new \in SUBSET (Match \cup LimitMatch) /\ Store(h, t, s, work[h].new)
    BY <1>1, <1>2, <1>3, <1>4, AtCommit DEF ChildCommit, ChildLeaves, Tables
  <2> QED
    BY <2>1, Stored
<1>6. calls' \in Seq(CallRow) /\ \A c \in DOMAIN calls' : calls'[c].span \in DOMAIN spans
  <2>1. CASE calls' = calls
    BY <1>3, <2>1 DEF Tables, References
  <2>2. ASSUME work[h].span \in DOMAIN spans, req[h].call \in ModelCall,
               calls' = Append(calls, [span |-> work[h].span, call |-> req[h].call])
        PROVE  calls' \in Seq(CallRow) /\ \A c \in DOMAIN calls' : calls'[c].span \in DOMAIN spans
    <3> DEFINE row == [span |-> work[h].span, call |-> req[h].call]
    <3>1. row \in CallRow /\ row.span \in DOMAIN spans
      BY <1>3, <2>2 DEF CallRow
    <3>2. calls' = Append(calls, row) /\ calls \in Seq(CallRow)
      BY <1>3, <2>2 DEF Tables
    <3> HIDE DEF row
    <3>3. /\ calls' \in Seq(CallRow) /\ DOMAIN calls' = DOMAIN calls \cup {Len(calls) + 1}
          /\ calls'[Len(calls) + 1] = row /\ \A c \in DOMAIN calls : calls'[c] = calls[c]
      BY <3>1, <3>2
    <3> QED
      BY <1>3, <3>1, <3>3 DEF References
  <2> QED
    BY <1>2, <2>1, <2>2 DEF ChildLeaves
<1>7. Grow
  BY <1>2 DEF ChildLeaves, Grow
<1>8. ASSUME NEW k \in DOMAIN spans'
      PROVE  /\ spans'[k].trace \in DOMAIN traces'
             /\ spans'[k].parent # Null =>
                  /\ spans'[k].parent \in DOMAIN spans' /\ spans'[k].parent < k
                  /\ spans'[spans'[k].parent].trace = spans'[k].trace
  <2>1. PICK up : up = spans[k].parent
    OBVIOUS
  <2>2. k \in DOMAIN spans /\ spans'[k].trace = spans[k].trace /\ spans'[k].parent = up
    BY <1>2, <1>8, <2>1 DEF ChildLeaves
  <2>3. spans[k].trace \in DOMAIN traces /\ DOMAIN traces' = DOMAIN traces
    BY <1>2, <1>3, <2>2 DEF ChildLeaves, References
  <2>4. up # Null => up \in DOMAIN spans /\ up < k /\ spans[up].trace = spans[k].trace
    BY <1>3, <2>1, <2>2 DEF References
  <2>5. up # Null => up \in DOMAIN spans' /\ spans'[up].trace = spans[k].trace
    BY <1>2, <2>4 DEF ChildLeaves
  <2> QED
    BY <2>2, <2>3, <2>4, <2>5
<1>9. \A f \in findings' : f.trace \in DOMAIN traces' /\ f.span \in DOMAIN spans' \cup {Null}
  BY <1>2, <1>3, <1>4, <1>5, SMTT(30) DEF ChildLeaves, Records, References
<1>10. References'
  BY <1>2, <1>6, <1>8, <1>9 DEF ChildLeaves, References
<1>11. Tables'
  BY <1>2, <1>3, <1>5, <1>6, <1>10 DEF ChildLeaves, Records, Tables
<1>12. PICK c \in {200, 201} : Busy(h) /\ Respond(h, c, work[h].span)
  BY <1>2 DEF ChildLeaves
<1>13. work[h].span = Null \/ work[h].span \in Nat
  BY <1>2, <1>3 DEF ChildLeaves
<1> QED
  BY <1>7, <1>11, <1>12, <1>13, Done

LEMMA ArriveBasics ==
  ASSUME Basics, NEW h \in Handler, NEW q \in Requests, Receive(h, q), UNCHANGED tables
  PROVE  Basics'
<1>1. /\ pc[h] = "idle" /\ pc' = [pc EXCEPT ![h] = "load"] /\ req' = [req EXCEPT ![h] = q]
      /\ UNCHANGED <<work, resp>> /\ overlap' \in BOOLEAN
  BY DEF Receive, Basics, HandlersTypeOK
<1>2. Tables' /\ HandlersTypeOK(Session)'
  BY <1>1, TablesStay DEF Basics, HandlersTypeOK
<1>3. UNCHANGED <<traces, spans>>
  BY DEF tables
<1>4. ASSUME NEW g \in Handler
      PROVE  (pc'[g] # "idle" => req'[g] \in Requests) /\ Fits(req[g], pc[g], work[g])'
  <2>1. CASE g = h
    BY <1>1, <2>1 DEF Basics, HandlersTypeOK, Fits
  <2>2. CASE g # h
    BY <1>1, <1>3, <2>2 DEF Basics, HandlersTypeOK, SessionsFit, Fits
  <2> QED
    BY <2>1, <2>2
<1> QED
  BY <1>2, <1>4 DEF Basics, SessionsFit

LEMMA NextBasics == Basics /\ SumsFit /\ [Next]_vars => Basics'
<1> SUFFICES ASSUME Basics, SumsFit, [Next]_vars PROVE Basics'
  OBVIOUS
<1>1. ASSUME NEW h \in Handler, Abort(h) PROVE Basics'
  <2>1. Busy(h) /\ Respond(h, 500, Null) /\ UNCHANGED tables
    BY <1>1 DEF Abort, Die
  <2>2. Tables' /\ Grow
    BY <2>1, TablesStay DEF Basics
  <2> QED
    BY <2>1, <2>2, Done
<1>2. ASSUME NEW h \in Handler, Serve(h) PROVE Basics'
  BY <1>1, <1>2, LoadBasics, ScanBasics, StartBasics, FinishBasics, SpanBasics, ChildBasics DEF Serve
<1>3. CASE UNCHANGED vars
  <2>1. UNCHANGED tables /\ UNCHANGED <<pc, req, work, resp, overlap, traces, spans>>
    BY <1>3 DEF vars, tables
  <2>2. Tables'
    BY <2>1, TablesStay DEF Basics
  <2> QED
    BY <2>1, <2>2 DEF Basics, HandlersTypeOK, SessionsFit, Fits
<1> QED
  BY <1>2, <1>3, ArriveBasics DEF Next

LEMMA InitBasics == Init => Basics
<1> SUFFICES ASSUME Init PROVE Basics
  OBVIOUS
<1>1. traces \in Seq(TraceRow)
  <2> DEFINE New == [ext : TraceId, status : TraceStatus, risk : Severity, totals : {NoUsage}]
  <2>1. New \subseteq TraceRow
    BY DEF TraceRow, NoUsage, Usage
  <2>2. StoredTraces \in Seq(New) /\ traces = StoredTraces
    BY StoredAssumption DEF Init
  <2> HIDE DEF New
  <2> QED
    BY <2>1, <2>2
<1>2. Tables
  BY <1>1, StoredAssumption DEF Init, Tables, References
<1>3. HandlersTypeOK(Session) /\ SessionsFit
  BY DEF Init, HandlersInit, HandlersTypeOK, SessionsFit, Fits
<1> QED
  BY <1>2, <1>3 DEF Basics

(* Only a model call changes what the sums are over.                       *)
LEMMA CallSteps ==
  ASSUME Basics, [Next]_vars
  PROVE  /\ DOMAIN traces \subseteq DOMAIN traces' /\ DOMAIN spans \subseteq DOMAIN spans'
         /\ \A s \in DOMAIN spans : spans'[s].trace = spans[s].trace
         /\ \/ calls' = calls
            \/ \E h \in Handler : ChildCommit(h) /\ req[h].op = "model"
<1>1. ASSUME UNCHANGED tables PROVE Grow /\ calls' = calls
  BY <1>1, TablesStay DEF Basics, tables
<1>2. ASSUME NEW h \in Handler, Serve(h)
      PROVE  Grow /\ (calls' = calls \/ (ChildCommit(h) /\ req[h].op = "model"))
  <2>1. CASE StartLoad(h) \/ FinishLoad(h) \/ SpanLoad(h) \/ ChildLoad(h) \/ EventLoad(h) \/ Scan(h) \/ Abort(h)
    BY <1>1, <2>1 DEF StartLoad, FinishLoad, SpanLoad, ChildLoad, EventLoad, Scan, Abort
  <2>2. CASE StartCommit(h)
    BY <2>2, StartSets DEF StartLeaves, Grow
  <2>3. CASE FinishCommit(h)
    BY <2>3, FinishSets DEF FinishLeaves, Grow
  <2>4. CASE SpanCommit(h)
    <3>1. PICK t, n : t = work[h].trace /\ n = Len(spans) + 1
      OBVIOUS
    <3>2. SpanLeaves(h, t, n)
      BY <2>4, <3>1, SpanSets
    <3> QED
      BY <3>2 DEF SpanLeaves, Grow
  <2>5. CASE ChildCommit(h)
    BY <2>5, ChildSets, ZenonT(60) DEF ChildLeaves, Grow
  <2> QED
    BY <1>2, <2>1, <2>2, <2>3, <2>4, <2>5 DEF Serve
<1>3. CASE UNCHANGED vars
  BY <1>1, <1>3 DEF Grow, vars, tables
<1> QED
  BY <1>1, <1>2, <1>3 DEF Next, Grow

(* A model call adds its usage to that of its trace, and what was counted  *)
(* stays.                                                                  *)
LEMMA CallAdds ==
  ASSUME Basics, [Next]_vars, NEW h \in Handler, ChildCommit(h), req[h].op = "model", NEW n, n = Len(calls)
  PROVE  /\ n \in Nat /\ Len(calls') = n + 1 /\ \A k \in 1 .. n : calls'[k] = calls[k]
         /\ calls'[n + 1].call = req[h].call /\ req[h].call \in ModelCall
         /\ spans'[calls'[n + 1].span].trace = work[h].trace /\ work[h].trace \in DOMAIN traces
<1> DEFINE row == [span |-> work[h].span, call |-> req[h].call]
<1>1. PICK t : t = work[h].trace
  OBVIOUS
<1>2. /\ t \in DOMAIN traces /\ work[h].span \in DOMAIN spans /\ spans[work[h].span].trace = t
      /\ req[h].call \in ModelCall /\ calls' = Append(calls, row)
      /\ \A s \in DOMAIN spans : spans'[s].trace = spans[s].trace
  BY <1>1, ChildSets DEF ChildLeaves
<1>3. calls \in Seq(CallRow)
  BY DEF Basics, Tables
<1>4. row.span = work[h].span /\ row.call = req[h].call
  OBVIOUS
<1> HIDE DEF row
<1>5. n \in Nat /\ Len(calls') = n + 1 /\ calls'[n + 1] = row /\ \A k \in 1 .. n : calls'[k] = calls[k]
  BY <1>2, <1>3
<1> QED
  BY <1>1, <1>2, <1>4, <1>5

(* The usage over the calls there were stays what it was. *)
LEMMA SumStays ==
  ASSUME Basics, SumsFit, [Next]_vars, NEW t \in Nat, NEW n \in 0 .. Len(calls)
  PROVE  /\ Defined(calls', spans', t, n)
         /\ SumOf(calls', spans', t, n) = SumOf(calls, spans, t, n)
         /\ n \in 0 .. Len(calls')
<1>1. calls \in Seq(CallRow) /\ \A c \in DOMAIN calls : calls[c].span \in DOMAIN spans
  BY DEF Basics, Tables, References
<1>2. Len(calls) <= Len(calls') /\ Len(calls') \in Nat /\ \A k \in 1 .. n : calls'[k] = calls[k]
  <2>1. CASE calls' = calls
    BY <1>1, <2>1
  <2>2. ASSUME NEW h \in Handler, ChildCommit(h), req[h].op = "model"
        PROVE  Len(calls) <= Len(calls') /\ Len(calls') \in Nat /\ \A k \in 1 .. n : calls'[k] = calls[k]
    <3>1. PICK m : m = Len(calls)
      OBVIOUS
    <3>2. m \in Nat /\ Len(calls') = m + 1 /\ \A k \in 1 .. m : calls'[k] = calls[k]
      BY <2>2, <3>1, CallAdds
    <3> QED
      BY <3>1, <3>2
  <2> QED
    BY <2>1, <2>2, CallSteps
<1>3. \A k \in 1 .. n : calls'[k] = calls[k] /\ spans'[calls[k].span].trace = spans[calls[k].span].trace
  <2>1. \A k \in 1 .. n : k \in DOMAIN calls
    BY <1>1
  <2> QED
    BY <1>1, <1>2, <2>1, CallSteps
<1>4. Defined(calls, spans, t, n) /\ n \in Nat
  BY DEF SumsFit
<1>5. Defined(calls', spans', t, n) /\ SumOf(calls', spans', t, n) = SumOf(calls, spans, t, n)
  BY <1>3, <1>4, SumSame
<1> QED
  BY <1>1, <1>2, <1>5

LEMMA NextSums == Basics /\ SumsFit /\ [Next]_vars => SumsFit'
<1> SUFFICES ASSUME Basics, SumsFit, [Next]_vars, NEW t \in Nat, NEW n \in 0 .. Len(calls')
             PROVE  /\ Defined(calls', spans', t, n)
                    /\ t \notin DOMAIN traces' => SumOf(calls', spans', t, n) = NoUsage
  BY DEF SumsFit
<1>1. DOMAIN traces \subseteq DOMAIN traces'
  BY CallSteps
<1>2. ASSUME NEW k \in 0 .. Len(calls)
      PROVE  /\ Defined(calls', spans', t, k)
             /\ t \notin DOMAIN traces' => SumOf(calls', spans', t, k) = NoUsage
  BY <1>1, SumStays DEF SumsFit
<1>3. ASSUME NEW h \in Handler, ChildCommit(h), req[h].op = "model"
      PROVE  /\ Defined(calls', spans', t, n)
             /\ t \notin DOMAIN traces' => SumOf(calls', spans', t, n) = NoUsage
  <2>1. PICK m : m = Len(calls)
    OBVIOUS
  <2>2. /\ m \in Nat /\ Len(calls') = m + 1
        /\ calls'[m + 1].call \in ModelCall
        /\ spans'[calls'[m + 1].span].trace = work[h].trace /\ work[h].trace \in DOMAIN traces
    BY <1>3, <2>1, CallAdds
  <2>3. /\ Defined(calls', spans', t, m)
        /\ t \notin DOMAIN traces' => SumOf(calls', spans', t, m) = NoUsage
    BY <1>2, <2>1, <2>2
  <2>4. CASE n = m + 1
    BY <1>1, <2>2, <2>3, <2>4, SumOneMore
  <2>5. CASE n # m + 1
    <3>1. n \in 0 .. Len(calls)
      BY <2>1, <2>2, <2>5
    <3> QED
      BY <1>2, <3>1
  <2> QED
    BY <2>4, <2>5
<1> QED
  BY <1>2, <1>3, CallSteps

LEMMA InitSums == Init => SumsFit
<1> SUFFICES ASSUME Init, NEW t \in Nat, NEW n \in 0 .. Len(calls)
             PROVE  Defined(calls, spans, t, n) /\ SumOf(calls, spans, t, n) = NoUsage
  BY DEF SumsFit
<1>1. n = 0
  BY DEF Init
<1> QED
  BY <1>1, NoCallsNoUsage

LEMMA AlwaysBasics == Spec => [](Basics /\ SumsFit)
BY InitBasics, InitSums, NextBasics, NextSums, PTL DEF Spec

(* Spans form a forest inside their trace, and every row refers to rows    *)
(* that exist, in every interleaving of the requests.                      *)
THEOREM SpansFormForest == Spec => []SpanForest
<1>1. Basics => SpanForest
  BY DEF Basics, Tables, References, SpanForest, IngestTypeOK
<1> QED
  BY <1>1, AlwaysBasics, PTL

-----------------------------------------------------------------------------
(* Totals *)

(* A trace keeps its external id, and only the commit of a finish changes  *)
(* its status or its totals.                                               *)
LEMMA TraceSteps ==
  ASSUME Basics, [Next]_vars, NEW t \in DOMAIN traces
  PROVE  /\ t \in DOMAIN traces' /\ traces'[t].ext = traces[t].ext
         /\ \/ traces'[t].status = traces[t].status /\ traces'[t].totals = traces[t].totals
            \/ \E h \in Handler : FinishCommit(h) /\ t = work[h].trace /\ traces'[t].totals = work[h].totals
<1>1. ASSUME UNCHANGED tables
      PROVE  t \in DOMAIN traces' /\ traces'[t] = traces[t]
  BY <1>1 DEF tables
<1>2. ASSUME NEW h \in Handler, StartCommit(h) PROVE t \in DOMAIN traces' /\ traces'[t] = traces[t]
  <2>1. PICK n : StartLeaves(h, n)
    BY <1>2, StartSets
  <2> QED
    BY <2>1 DEF StartLeaves
<1>3. ASSUME NEW h \in Handler, SpanCommit(h) \/ ChildCommit(h)
      PROVE  /\ t \in DOMAIN traces' /\ traces'[t].ext = traces[t].ext
             /\ traces'[t].status = traces[t].status /\ traces'[t].totals = traces[t].totals
  <2>1. (\E k, n : SpanLeaves(h, k, n)) \/ \E k : ChildLeaves(h, k)
    BY <1>3, SpanSets, ChildSets
  <2> QED
    BY <2>1 DEF SpanLeaves, ChildLeaves
<1>4. ASSUME NEW h \in Handler, FinishCommit(h)
      PROVE  /\ t \in DOMAIN traces' /\ traces'[t].ext = traces[t].ext
             /\ \/ traces'[t] = traces[t]
                \/ t = work[h].trace /\ traces'[t].totals = work[h].totals
  <2>1. PICK k : k = work[h].trace /\ FinishLeaves(h, k)
    BY <1>4, FinishSets
  <2> QED
    BY <2>1 DEF FinishLeaves
<1>5. ASSUME NEW h \in Handler,
             StartLoad(h) \/ FinishLoad(h) \/ SpanLoad(h) \/ ChildLoad(h) \/ EventLoad(h) \/ Scan(h) \/ Abort(h)
      PROVE  UNCHANGED tables
  BY <1>5 DEF StartLoad, FinishLoad, SpanLoad, ChildLoad, EventLoad, Scan, Abort
<1>6. UNCHANGED vars => UNCHANGED tables
  BY DEF vars, tables
<1> QED
  BY <1>1, <1>2, <1>3, <1>4, <1>5, <1>6 DEF Next, Serve

(* A trace that was not there was started. *)
LEMMA NewTrace ==
  ASSUME Basics, [Next]_vars, NEW t \in DOMAIN traces', t \notin DOMAIN traces
  PROVE  \E h \in Handler : StartCommit(h) /\ StartLeaves(h, t)
<1>1. ASSUME NEW h \in Handler, StartCommit(h) PROVE StartLeaves(h, t)
  <2>1. PICK n : n = Len(traces) + 1
    OBVIOUS
  <2>2. StartLeaves(h, n)
    BY <1>1, <2>1, StartSets
  <2>3. t = n
    BY <2>2 DEF StartLeaves
  <2> QED
    BY <2>2, <2>3
<1>2. ASSUME NEW h \in Handler, FinishCommit(h) PROVE DOMAIN traces' = DOMAIN traces
  BY <1>2, FinishSets DEF FinishLeaves
<1>3. ASSUME NEW h \in Handler, SpanCommit(h) \/ ChildCommit(h) PROVE DOMAIN traces' = DOMAIN traces
  <2>1. (\E k, n : SpanLeaves(h, k, n)) \/ \E k : ChildLeaves(h, k)
    BY <1>3, SpanSets, ChildSets
  <2> QED
    BY <2>1 DEF SpanLeaves, ChildLeaves
<1>4. ASSUME NEW h \in Handler,
             StartLoad(h) \/ FinishLoad(h) \/ SpanLoad(h) \/ ChildLoad(h) \/ EventLoad(h) \/ Scan(h) \/ Abort(h)
      PROVE  traces' = traces
  BY <1>4 DEF StartLoad, FinishLoad, SpanLoad, ChildLoad, EventLoad, Scan, Abort, tables
<1> QED
  BY <1>1, <1>2, <1>3, <1>4 DEF Next, Serve, vars, tables

LEMMA CommitsRespond ==
  ASSUME NEW h \in Handler,
         StartCommit(h) \/ FinishCommit(h) \/ SpanCommit(h) \/ ChildCommit(h) \/ Abort(h)
  PROVE  \E c, row : Respond(h, c, row)
<1>1. CASE StartCommit(h)
  BY <1>1 DEF StartCommit
<1>2. CASE FinishCommit(h)
  BY <1>2 DEF FinishCommit
<1>3. CASE SpanCommit(h)
  BY <1>3 DEF SpanCommit
<1>4. CASE ChildCommit(h)
  BY <1>4 DEF ChildCommit
<1>5. CASE Abort(h)
  BY <1>5 DEF Abort, Die
<1> QED
  BY <1>1, <1>2, <1>3, <1>4, <1>5

(* A request that is about to commit has just been scanned or loaded, or   *)
(* keeps its session.                                                      *)
LEMMA SessionSteps ==
  ASSUME Basics, [Next]_vars, NEW h \in Handler, pc'[h] \in {"scan", "commit"}
  PROVE  /\ req'[h] = req[h]
         /\ \/ pc'[h] = pc[h] /\ work'[h] = work[h] /\ ~ Serve(h)
            \/ Serve(h) /\ UNCHANGED tables
<1>1. ASSUME NEW g \in Handler, Serve(g), g # h
      PROVE  req'[h] = req[h] /\ pc'[h] = pc[h] /\ work'[h] = work[h] /\ ~ Serve(h)
  <2>1. req' = req
    BY <1>1, ServeMovesOne
  <2>2. \A k \in Handler : Serve(k) =>
          \E l, w : pc' = [pc EXCEPT ![k] = l] /\ work' = [work EXCEPT ![k] = w] /\ l # pc[k]
    <3> SUFFICES ASSUME NEW k \in Handler, Serve(k)
                 PROVE  \E l, w : pc' = [pc EXCEPT ![k] = l] /\ work' = [work EXCEPT ![k] = w] /\ l # pc[k]
      OBVIOUS
    <3>1. CASE \E c, row : Respond(k, c, row)
      <4>1. /\ pc' = [pc EXCEPT ![k] = "done"] /\ work' = [work EXCEPT ![k] = Null]
            /\ "done" # pc[k]
        BY <3>1, ServeMovesOne DEF Respond, Busy
      <4> QED
        BY <4>1
    <3>2. CASE StartLoad(k) \/ FinishLoad(k) \/ SpanLoad(k) \/ ChildLoad(k) \/ EventLoad(k)
      <4>1. pc[k] = "load"
        BY <3>2 DEF StartLoad, FinishLoad, SpanLoad, ChildLoad, EventLoad
      <4>2. ASSUME NEW l \in {"scan", "commit"}, NEW w, Continue(k, l, w)
            PROVE  \E m, v : pc' = [pc EXCEPT ![k] = m] /\ work' = [work EXCEPT ![k] = v] /\ m # pc[k]
        BY <4>1, <4>2 DEF Continue
      <4> QED
        BY <3>1, <4>2, ServeMovesOne
    <3>3. CASE Scan(k)
      BY <3>3 DEF Scan, Continue
    <3>4. ASSUME StartCommit(k) \/ FinishCommit(k) \/ SpanCommit(k) \/ ChildCommit(k) \/ Abort(k)
          PROVE  \E c, row : Respond(k, c, row)
      BY <3>4, CommitsRespond
    <3> QED
      BY <3>1, <3>2, <3>3, <3>4 DEF Serve
  <2> QED
    BY <1>1, <2>1, <2>2 DEF Basics, HandlersTypeOK
<1>2. ASSUME Serve(h) PROVE req'[h] = req[h] /\ UNCHANGED tables
  BY <1>2, ServeMovesOne DEF Respond, Basics, HandlersTypeOK
<1>3. ASSUME NEW g \in Handler, NEW q \in Requests, Receive(g, q)
      PROVE  g # h /\ req'[h] = req[h] /\ pc'[h] = pc[h] /\ work'[h] = work[h]
  BY <1>3 DEF Receive, Basics, HandlersTypeOK
<1>4. CASE UNCHANGED vars
  BY <1>2, <1>4 DEF vars
<1> QED
  BY <1>1, <1>2, <1>3, <1>4 DEF Next

Snapshot(made, in, t, u) == \E n \in 0 .. Len(made) : u = SumOf(made, in, t, n)

(* The totals of every trace, and those that a finish is about to write,   *)
(* are usage at one moment.                                                *)
TotalsFit ==
  /\ \A t \in DOMAIN traces : Snapshot(calls, spans, t, traces[t].totals)
  /\ \A h \in Handler :
       pc[h] = "commit" /\ req[h].op = "finish" => Snapshot(calls, spans, work[h].trace, work[h].totals)

LEMMA SnapshotStays ==
  ASSUME Basics, SumsFit, [Next]_vars, NEW t, t \in DOMAIN traces, NEW u, Snapshot(calls, spans, t, u)
  PROVE  Snapshot(calls', spans', t, u)
<1>1. PICK n \in 0 .. Len(calls) : u = SumOf(calls, spans, t, n)
  BY DEF Snapshot
<1>2. t \in Nat
  BY DEF Basics, Tables
<1> QED
  BY <1>1, <1>2, SumStays DEF Snapshot

LEMMA NextTotals == Basics /\ SumsFit /\ TotalsFit /\ [Next]_vars => TotalsFit'
<1> SUFFICES ASSUME Basics, SumsFit, TotalsFit, [Next]_vars PROVE TotalsFit'
  OBVIOUS
<1>1. ASSUME NEW t \in DOMAIN traces' PROVE Snapshot(calls', spans', t, traces'[t].totals)
  <2>1. CASE t \notin DOMAIN traces
    <3>1. traces'[t].totals = NoUsage
      BY <1>1, <2>1, NewTrace DEF StartLeaves
    <3>2. 0 \in 0 .. Len(calls')
      BY NextBasics DEF Basics, Tables
    <3> QED
      BY <3>1, <3>2, NoCallsNoUsage DEF Snapshot
  <2>2. CASE t \in DOMAIN traces /\ traces'[t].totals = traces[t].totals
    BY <2>2, SnapshotStays DEF TotalsFit
  <2>3. ASSUME t \in DOMAIN traces, NEW h \in Handler, FinishCommit(h), t = work[h].trace,
               traces'[t].totals = work[h].totals
        PROVE  Snapshot(calls', spans', t, traces'[t].totals)
    <3>1. Snapshot(calls, spans, t, work[h].totals)
      BY <2>3 DEF FinishCommit, TotalsFit
    <3> QED
      BY <2>3, <3>1, SnapshotStays
  <2> QED
    BY <2>1, <2>2, <2>3, TraceSteps
<1>2. ASSUME NEW h \in Handler, pc'[h] = "commit", req'[h].op = "finish"
      PROVE  Snapshot(calls', spans', work'[h].trace, work'[h].totals)
  <2>1. req'[h] = req[h]
    BY <1>2, SessionSteps
  <2>2. CASE pc[h] = "commit" /\ work'[h] = work[h]
    <3>1. Snapshot(calls, spans, work[h].trace, work[h].totals) /\ work[h].trace \in DOMAIN traces
      BY <1>2, <2>1, <2>2, AtCommit DEF TotalsFit
    <3> QED
      BY <2>2, <3>1, SnapshotStays
  <2>3. CASE Serve(h) /\ UNCHANGED tables
    <3>1. Scan(h)
      <4>1. req[h].op = "finish" /\ pc'[h] = "commit" /\ h \in Handler
            /\ pc \in [Handler -> {"idle", "load", "check", "scan", "commit", "done"}]
        BY <1>2, <2>1 DEF Basics, HandlersTypeOK
      <4>2. ~ StartLoad(h) /\ ~ SpanLoad(h) /\ ~ ChildLoad(h) /\ ~ EventLoad(h)
        BY <4>1 DEF StartLoad, SpanLoad, ChildLoad, EventLoad
      <4>3. ~ FinishLoad(h)
        BY <4>1 DEF FinishLoad, Hold, Continue, Missing, Ambiguous, Respond
      <4>4. ~ StartCommit(h) /\ ~ FinishCommit(h) /\ ~ SpanCommit(h) /\ ~ ChildCommit(h) /\ ~ Abort(h)
        BY <4>1 DEF StartCommit, FinishCommit, SpanCommit, ChildCommit, Abort, Die, Respond
      <4> QED
        BY <2>3, <4>2, <4>3, <4>4 DEF Serve
    <3>2. /\ work' = [work EXCEPT ![h] = Scanned(h)] /\ UNCHANGED <<calls, spans>>
          /\ Scanned(h).totals = Totals(work[h].trace) /\ Scanned(h).trace = work[h].trace
      BY <3>1, ScanSets DEF Continue, tables
    <3>3. work'[h] = Scanned(h)
      BY <3>2 DEF Basics, HandlersTypeOK
    <3>4. Totals(work[h].trace) = SumOf(calls, spans, work[h].trace, Len(calls)) /\ Len(calls) \in 0 .. Len(calls)
      BY UsageIsSum DEF Totals, Basics, Tables
    <3> QED
      BY <3>2, <3>3, <3>4 DEF Snapshot
  <2> QED
    BY <1>2, <2>2, <2>3, SessionSteps
<1> QED
  BY <1>1, <1>2 DEF TotalsFit

LEMMA InitTotals == Init => TotalsFit
<1> SUFFICES ASSUME Init PROVE TotalsFit
  OBVIOUS
<1>1. ASSUME NEW t \in DOMAIN traces PROVE Snapshot(calls, spans, t, traces[t].totals)
  <2>1. traces[t].totals = NoUsage
    <3> DEFINE New == [ext : TraceId, status : TraceStatus, risk : Severity, totals : {NoUsage}]
    <3>1. \A row \in New : row.totals = NoUsage
      OBVIOUS
    <3>2. traces \in Seq(New)
      BY StoredAssumption DEF Init
    <3> HIDE DEF New
    <3>3. traces[t] \in New
      BY <1>1, <3>2
    <3> QED
      BY <3>1, <3>3
  <2>2. 0 \in 0 .. Len(calls)
    BY DEF Init
  <2> QED
    BY <2>1, <2>2, NoCallsNoUsage DEF Snapshot
<1> QED
  BY <1>1 DEF TotalsFit, Init, HandlersInit

(* The totals of a finished trace are its usage at one moment, however     *)
(* many calls arrive while they are added up.                              *)
THEOREM TotalsAreSnapshots == Spec => []TotalsAreASnapshot
<1>1. TotalsFit => TotalsAreASnapshot
  BY UsageIsSum DEF TotalsFit, TotalsAreASnapshot, Snapshot
<1> QED
  BY <1>1, AlwaysBasics, InitTotals, NextTotals, PTL DEF Spec

-----------------------------------------------------------------------------
(* Requests that do not overlap *)

OneAtATime == Quiet => \A g, h \in Handler : Busy(g) /\ Busy(h) => g = h

(* A step in quiet times is an arrival while nobody is busy, or a step of  *)
(* the one request in progress.                                            *)
LEMMA QuietSteps ==
  ASSUME Basics, OneAtATime, [Next]_vars, Quiet'
  PROVE  /\ Quiet
         /\ \/ UNCHANGED vars
            \/ \E g \in Handler, q \in Requests :
                 Receive(g, q) /\ UNCHANGED tables /\ \A k \in Handler : ~ Busy(k)
            \/ \E g \in Handler : Serve(g) /\ \A k \in Handler : Busy(k) => k = g
<1>1. ASSUME NEW h \in Handler, Serve(h)
      PROVE  Quiet /\ \A k \in Handler : Busy(k) => k = h
  <2>1. Busy(h) /\ overlap' = overlap
    BY <1>1, ServeMovesOne
  <2>2. Quiet
    BY <2>1 DEF Quiet
  <2> QED
    BY <2>1, <2>2 DEF OneAtATime
<1>2. ASSUME NEW h \in Handler, NEW q \in Requests, Receive(h, q)
      PROVE  Quiet /\ \A k \in Handler : ~ Busy(k)
  BY <1>2 DEF Receive, Quiet
<1>3. UNCHANGED vars => Quiet
  BY DEF vars, Quiet
<1> QED
  BY <1>1, <1>2, <1>3 DEF Next

LEMMA NextOneAtATime == Basics /\ OneAtATime /\ [Next]_vars => OneAtATime'
<1> SUFFICES ASSUME Basics, OneAtATime, [Next]_vars, Quiet', NEW g \in Handler, NEW h \in Handler,
                    Busy(g)', Busy(h)'
             PROVE  g = h
  BY DEF OneAtATime
<1>0. pc \in [Handler -> {"idle", "load", "check", "scan", "commit", "done"}] /\ Quiet
  BY QuietSteps DEF Basics, HandlersTypeOK
<1>1. ASSUME NEW k \in Handler, Serve(k), \A j \in Handler : Busy(j) => j = k,
             NEW j \in Handler, Busy(j)'
      PROVE  j = k
  <2>1. \E l : pc' = [pc EXCEPT ![k] = l]
    BY <1>1, ServeMovesOne DEF Continue, Respond
  <2>2. j # k => pc'[j] = pc[j]
    BY <1>0, <2>1
  <2> QED
    BY <1>1, <2>2 DEF Busy
<1>2. ASSUME NEW k \in Handler, NEW q \in Requests, Receive(k, q), \A j \in Handler : ~ Busy(j),
             NEW j \in Handler, Busy(j)'
      PROVE  j = k
  BY <1>0, <1>2 DEF Receive, Busy
<1>3. CASE UNCHANGED vars
  BY <1>0, <1>3 DEF OneAtATime, Busy, vars
<1> QED
  BY <1>1, <1>2, <1>3, QuietSteps

(* What the request in progress has read of the tables is up to date.      *)
Fresh(h) ==
  pc[h] \in {"scan", "commit"} =>
    /\ req[h].op = "start" => TracesOf(req[h].trace) = {}
    /\ req[h].op # "start" => work[h].risk = traces[work[h].trace].risk
    /\ req[h].op = "span" => SpansIn(work[h].trace, req[h].span) = {}
    /\ req[h].op = "finish" => traces[work[h].trace].status = "RUNNING"
    /\ pc[h] = "commit" /\ req[h].op \in {"finish", "update", "model", "event"} =>
         work[h].new = {m \in Reported(h) : ~ Known(work[h].trace, Subject(h), m)}

RisksFit == \A f \in findings : traces[f.trace].risk >= SeverityOf(f.match)

LimitsFit == \A t \in DOMAIN traces : \A m \in Exceeded(Totals(t)) : Known(t, Null, m)

QuietFits ==
  Quiet => (\A h \in Handler : Fresh(h)) /\ OneRowPerId /\ FindingsAreDistinct /\ RisksFit /\ LimitsFit

(* What a scan reports is what it reports once its session says so.        *)
LEMMA ReportedStays ==
  ASSUME NEW h \in Handler, req'[h] = req[h], work'[h].trace = work[h].trace, work'[h].span = work[h].span,
         UNCHANGED <<calls, spans, findings>>
  PROVE  /\ Reported(h)' = Reported(h) /\ Subject(h)' = Subject(h)
         /\ \A m : Known(work[h].trace, Subject(h), m)' <=> Known(work[h].trace, Subject(h), m)
<1>1. Totals(work[h].trace) = SumOf(calls, spans, work[h].trace, Len(calls))
  BY DEF Totals, UsageOf, SumOf
<1>2. Totals(work[h].trace)' = SumOf(calls', spans', work'[h].trace, Len(calls'))
  BY DEF Totals, UsageOf, SumOf
<1>3. Totals(work[h].trace)' = Totals(work[h].trace)
  BY <1>1, <1>2
<1>4. Reported(h)' = Reported(h)
  BY <1>3 DEF Reported, Exceeded
<1>5. Subject(h)' = Subject(h)
  BY DEF Subject
<1> QED
  BY <1>4, <1>5 DEF Known

LEMMA FreshLoad ==
  ASSUME Basics, NEW h \in Handler, StartLoad(h) \/ FinishLoad(h) \/ SpanLoad(h) \/ ChildLoad(h) \/ EventLoad(h)
  PROVE  Fresh(h)'
<1>1. UNCHANGED tables /\ UNCHANGED <<traces, spans>> /\ Busy(h)
  BY Loads DEF tables
<1>2. CASE \E c, row : Respond(h, c, row)
  <2>1. pc'[h] = "done"
    BY <1>2 DEF Respond, Basics, HandlersTypeOK
  <2> QED
    BY <2>1 DEF Fresh
<1>3. CASE req[h].op = "start" /\ TracesOf(req[h].trace) = {} /\ Continue(h, "commit", Null)
  <2>1. req'[h] = req[h] /\ TracesOf(req[h].trace)' = {}
    BY <1>1, <1>3 DEF Continue, TracesOf
  <2> QED
    BY <1>3, <2>1 DEF Fresh
<1>4. CASE \E t, s, p, l : Loaded(req[h], t, s, p, l) /\ Hold(h, t, s, p, l)
  <2>1. PICK t, s, p, l : Loaded(req[h], t, s, p, l) /\ Hold(h, t, s, p, l)
    BY <1>4
  <2> DEFINE w == Held(t, s, p)
  <2>2. w.trace = t /\ w.risk = traces[t].risk
    BY DEF Held
  <2>3. Continue(h, l, w)
    BY <2>1, HoldFits
  <2> HIDE DEF w
  <2>4. req' = req /\ pc'[h] = l /\ work'[h] = w
    BY <2>3 DEF Continue, Basics, HandlersTypeOK
  <2>5. req[h].op # "start" /\ (l = "commit" => req[h].op = "span")
    BY <2>1 DEF Loaded
  <2>6. req[h].op = "finish" => traces'[w.trace].status = "RUNNING"
    BY <1>1, <2>1, <2>2 DEF Loaded
  <2>7. req[h].op = "span" => SpansIn(work[h].trace, req[h].span)' = {}
    BY <1>1, <2>1, <2>2, <2>4 DEF Loaded, SpansIn, SpansOf
  <2>8. work'[h].risk = traces'[work'[h].trace].risk
    BY <1>1, <2>2, <2>4
  <2> QED
    BY <2>4, <2>5, <2>6, <2>7, <2>8 DEF Fresh
<1> QED
  BY <1>2, <1>3, <1>4, Loads

LEMMA FreshScan ==
  ASSUME Basics, SumsFit, NEW h \in Handler, Scan(h), Fresh(h)
  PROVE  Fresh(h)'
<1>1. PICK w : w = Scanned(h)
  OBVIOUS
<1>2. /\ pc[h] = "scan" /\ Continue(h, "commit", w) /\ UNCHANGED tables
      /\ req[h].op \in {"finish", "update", "model", "event"}
      /\ w.new = {m \in Reported(h) : ~ Known(work[h].trace, Subject(h), m)}
      /\ w.trace = work[h].trace /\ w.risk = work[h].risk /\ w.span = work[h].span
  BY <1>1, ScanSets
<1>3. req' = req /\ pc'[h] = "commit" /\ work'[h] = w /\ UNCHANGED <<traces, calls, spans, findings>>
  BY <1>2 DEF Continue, tables, Basics, HandlersTypeOK
<1>4. /\ Reported(h)' = Reported(h)
      /\ \A m : Known(work[h].trace, Subject(h), m)' <=> Known(work[h].trace, Subject(h), m)
  BY <1>2, <1>3, ReportedStays
<1>5. work'[h].new = {m \in Reported(h)' : ~ Known(work[h].trace, Subject(h), m)'}
  BY <1>2, <1>3, <1>4
<1>6. /\ work'[h].risk = traces'[work'[h].trace].risk
      /\ req[h].op = "finish" => traces'[work'[h].trace].status = "RUNNING"
  BY <1>2, <1>3 DEF Fresh
<1> QED
  BY <1>2, <1>3, <1>5, <1>6 DEF Fresh

LEMMA NextFresh ==
  ASSUME Basics, SumsFit, OneAtATime, QuietFits, [Next]_vars, Quiet', NEW h \in Handler
  PROVE  Fresh(h)'
<1>0. /\ Quiet /\ Fresh(h)
      /\ pc \in [Handler -> {"idle", "load", "check", "scan", "commit", "done"}]
  BY QuietSteps DEF QuietFits, Basics, HandlersTypeOK
<1>1. CASE UNCHANGED vars
  <2>1. req'[h] = req[h] /\ work'[h] = work[h] /\ pc'[h] = pc[h] /\ UNCHANGED <<traces, calls, spans, findings>>
    BY <1>1 DEF vars
  <2>2. /\ Reported(h)' = Reported(h) /\ Subject(h)' = Subject(h)
        /\ \A m : Known(work[h].trace, Subject(h), m)' <=> Known(work[h].trace, Subject(h), m)
    BY <2>1, ReportedStays
  <2>3. TracesOf(req[h].trace)' = TracesOf(req[h].trace)
        /\ SpansIn(work[h].trace, req[h].span)' = SpansIn(work[h].trace, req[h].span)
    BY <2>1 DEF TracesOf, SpansIn, SpansOf
  <2> QED
    BY <1>0, <2>1, <2>2, <2>3 DEF Fresh
<1>2. ASSUME NEW g \in Handler, NEW q \in Requests, Receive(g, q), \A k \in Handler : ~ Busy(k)
      PROVE  pc'[h] \notin {"scan", "commit"}
  BY <1>0, <1>2 DEF Receive, Busy
<1>3. ASSUME NEW g \in Handler, Serve(g), \A k \in Handler : Busy(k) => k = g, g # h
      PROVE  pc'[h] \notin {"scan", "commit"}
  <2>1. \E l : pc' = [pc EXCEPT ![g] = l]
    BY <1>3, ServeMovesOne DEF Continue, Respond
  <2> QED
    BY <1>0, <1>3, <2>1 DEF Busy
<1>4. ASSUME StartCommit(h) \/ FinishCommit(h) \/ SpanCommit(h) \/ ChildCommit(h) \/ Abort(h)
      PROVE  pc'[h] \notin {"scan", "commit"}
  <2>1. \E c, row : Respond(h, c, row)
    BY <1>4, CommitsRespond
  <2> QED
    BY <1>0, <2>1 DEF Respond
<1>5. CASE Serve(h)
  BY <1>0, <1>4, <1>5, FreshLoad, FreshScan DEF Serve, Fresh
<1>6. pc'[h] \notin {"scan", "commit"} => Fresh(h)'
  BY DEF Fresh
<1> QED
  BY <1>1, <1>2, <1>3, <1>5, <1>6, QuietSteps

(* What a commit writes in quiet times: findings not on record, about the  *)
(* trace t and its span s, whose risk rises to cover them.                 *)
Writes(h, t, s, new) ==
  /\ Records(h, t, s, new) /\ \A m \in new : ~ Known(t, s, m)
  /\ \A k \in DOMAIN traces : k # t => traces'[k].risk = traces[k].risk
  /\ t \in DOMAIN traces => traces'[t].risk >= traces[t].risk
  /\ \A m \in new : traces'[t].risk >= SeverityOf(m)

LEMMA RiskRises ==
  ASSUME Basics, NEW h \in Handler, Fresh(h), pc[h] = "commit", req[h].op # "start",
         NEW t, t = work[h].trace, NEW new \in SUBSET (Match \cup LimitMatch), NEW reported \in Severity
  PROVE  /\ RiskColumn(h, new, reported) >= traces[t].risk
         /\ \A m \in new : RiskColumn(h, new, reported) >= SeverityOf(m)
<1>1. work[h].risk = traces[t].risk /\ work[h].risk \in Severity
  BY AtCommit DEF Fresh
<1>2. /\ RiskAfter(h, new, reported) >= work[h].risk
      /\ \A m \in new : RiskAfter(h, new, reported) >= SeverityOf(m)
  BY <1>1, RiskIs
<1>3. RiskColumn(h, new, reported) = RiskAfter(h, new, reported)
  BY <1>1 DEF RiskColumn
<1> QED
  BY <1>1, <1>2, <1>3

LEMMA StartWrites ==
  ASSUME Basics, NEW h \in Handler, StartCommit(h)
  PROVE  \E n, new : Writes(h, n, Null, new)
<1>1. PICK n, new : n = Len(traces) + 1 /\ new = req[h].hits
  OBVIOUS
<1>2. StartLeaves(h, n)
  BY <1>1, StartSets
<1>3. Tables /\ References
  BY DEF Basics, Tables
<1>4. new \in SUBSET (Match \cup LimitMatch) /\ Records(h, n, Null, new)
  <2>1. findings \subseteq FindingRow /\ new \in SUBSET (Match \cup LimitMatch) /\ n \in Nat /\ Store(h, n, Null, new)
    BY <1>1, <1>2, <1>3 DEF StartLeaves, Tables
  <2> QED
    BY <2>1, Stored
<1>5. \A m \in new : ~ Known(n, Null, m)
  BY <1>2, <1>3 DEF Known, StartLeaves, References
<1>6. \A m \in new : traces'[n].risk >= SeverityOf(m)
  <2>1. 0 \in Severity /\ traces'[n].risk = Worst(0, new)
    BY <1>1, <1>2 DEF StartLeaves, Severity
  <2> QED
    BY <1>4, <2>1, WorstOf
<1>7. Writes(h, n, Null, new)
  BY <1>2, <1>4, <1>5, <1>6 DEF StartLeaves, Writes
<1> QED
  BY <1>7

LEMMA FinishWrites ==
  ASSUME Basics, NEW h \in Handler, Fresh(h), FinishCommit(h)
  PROVE  \E t, new : Writes(h, t, Null, new)
<1>1. PICK t, new : t = work[h].trace /\ new = work[h].new
  OBVIOUS
<1>2. FinishLeaves(h, t) /\ pc[h] = "commit" /\ req[h].op = "finish"
  BY <1>1, FinishSets DEF FinishCommit
<1>3. /\ findings \subseteq FindingRow /\ new \in SUBSET (Match \cup LimitMatch) /\ work[h].span = Null
      /\ req[h].risk \in Severity
  BY <1>1, <1>2, AtCommit, OpFacts DEF Tables, Fits
<1>4. Records(h, t, Null, new)
  <2>1. t \in Nat /\ Store(h, t, Null, new)
    BY <1>1, <1>2 DEF FinishLeaves
  <2> QED
    BY <1>3, <2>1, Stored
<1>5. \A m \in new : ~ Known(t, Null, m)
  BY <1>1, <1>2, <1>3 DEF Fresh, Subject
<1>6. /\ traces'[t].risk >= traces[t].risk
      /\ \A m \in new : traces'[t].risk >= SeverityOf(m)
  <2>1. PICK risk : risk = RiskColumn(h, new, req[h].risk)
    OBVIOUS
  <2>2. risk >= traces[t].risk /\ \A m \in new : risk >= SeverityOf(m)
    BY <1>1, <1>2, <1>3, <2>1, RiskRises
  <2>3. traces'[t].risk = risk
    BY <1>1, <1>2, <2>1 DEF FinishLeaves
  <2> QED
    BY <2>2, <2>3
<1>7. Writes(h, t, Null, new)
  BY <1>2, <1>4, <1>5, <1>6 DEF FinishLeaves, Writes
<1> QED
  BY <1>7

LEMMA SpanWrites ==
  ASSUME Basics, NEW h \in Handler, Fresh(h), SpanCommit(h)
  PROVE  \E t, n, new : Writes(h, t, n, new)
<1>1. PICK t, n, new : t = work[h].trace /\ n = Len(spans) + 1 /\ new = req[h].hits
  OBVIOUS
<1>2. SpanLeaves(h, t, n) /\ pc[h] = "commit" /\ req[h].op = "span"
  BY <1>1, SpanSets DEF SpanCommit
<1>3. Tables /\ References
  BY DEF Basics, Tables
<1>4. new \in SUBSET (Match \cup LimitMatch) /\ Records(h, t, n, new)
  <2>1. /\ findings \subseteq FindingRow /\ new \in SUBSET (Match \cup LimitMatch) /\ t \in Nat /\ n \in Nat
        /\ Store(h, t, n, new)
    BY <1>1, <1>2, <1>3 DEF SpanLeaves, Tables
  <2> QED
    BY <2>1, Stored
<1>5. \A m \in new : ~ Known(t, n, m)
  <2>1. n \notin DOMAIN spans /\ n # Null
    BY <1>2, IngestAssumption DEF SpanLeaves
  <2> QED
    BY <1>3, <2>1 DEF Known, References
<1>6. /\ traces'[t].risk >= traces[t].risk
      /\ \A m \in new : traces'[t].risk >= SeverityOf(m)
  <2>1. PICK risk : risk = RiskColumn(h, new, 0)
    OBVIOUS
  <2>2. risk >= traces[t].risk /\ \A m \in new : risk >= SeverityOf(m)
    BY <1>1, <1>2, <1>4, <2>1, RiskRises DEF Severity
  <2>3. traces'[t].risk = risk
    BY <1>1, <1>2, <2>1 DEF SpanLeaves
  <2> QED
    BY <2>2, <2>3
<1>7. Writes(h, t, n, new)
  BY <1>2, <1>4, <1>5, <1>6 DEF SpanLeaves, Writes
<1> QED
  BY <1>7

LEMMA ChildWrites ==
  ASSUME Basics, NEW h \in Handler, Fresh(h), ChildCommit(h)
  PROVE  Writes(h, work[h].trace, Subject(h), work[h].new)
<1>1. PICK t, s, new : t = work[h].trace /\ s = Subject(h) /\ new = work[h].new
  OBVIOUS
<1>2. ChildLeaves(h, t) /\ pc[h] = "commit" /\ req[h].op \in {"update", "model", "event"}
  BY <1>1, ChildSets DEF ChildCommit
<1>3. findings \subseteq FindingRow /\ new \in SUBSET (Match \cup LimitMatch) /\ DOMAIN spans \subseteq Nat
  BY <1>1, <1>2, AtCommit DEF Tables
<1>4. Records(h, t, s, new)
  <2>1. t \in Nat /\ (s = Null \/ s \in Nat) /\ Store(h, t, s, new)
    BY <1>1, <1>2, <1>3 DEF ChildLeaves, Subject
  <2> QED
    BY <1>3, <2>1, Stored
<1>5. \A m \in new : ~ Known(t, s, m)
  BY <1>1, <1>2 DEF Fresh
<1>6. /\ traces'[t].risk >= traces[t].risk
      /\ \A m \in new : traces'[t].risk >= SeverityOf(m)
  <2>1. PICK risk : risk = RiskColumn(h, new, 0)
    OBVIOUS
  <2>2. risk >= traces[t].risk /\ \A m \in new : risk >= SeverityOf(m)
    BY <1>1, <1>2, <1>3, <2>1, RiskRises DEF Severity
  <2>3. traces'[t].risk = risk
    BY <1>1, <1>2, <2>1 DEF ChildLeaves
  <2> QED
    BY <2>2, <2>3
<1>7. Writes(h, t, s, new)
  BY <1>2, <1>4, <1>5, <1>6 DEF ChildLeaves, Writes
<1> QED
  BY <1>1, <1>7

LEMMA QuietWrites ==
  ASSUME Basics, OneAtATime, QuietFits, [Next]_vars, Quiet'
  PROVE  UNCHANGED tables \/ \E h \in Handler : \E t, s, new : Writes(h, t, s, new)
<1>1. Quiet /\ \A h \in Handler : Fresh(h)
  BY QuietSteps DEF QuietFits
<1>2. ASSUME NEW h \in Handler, Serve(h)
      PROVE  UNCHANGED tables \/ \E t, s, new : Writes(h, t, s, new)
  <2>1. CASE StartLoad(h) \/ FinishLoad(h) \/ SpanLoad(h) \/ ChildLoad(h) \/ EventLoad(h) \/ Scan(h) \/ Abort(h)
    BY <2>1 DEF StartLoad, FinishLoad, SpanLoad, ChildLoad, EventLoad, Scan, Abort
  <2> QED
    BY <1>1, <1>2, <2>1, StartWrites, FinishWrites, SpanWrites, ChildWrites DEF Serve
<1>3. UNCHANGED vars => UNCHANGED tables
  BY DEF vars, tables
<1> QED
  BY <1>2, <1>3 DEF Next

LEMMA NextDistinct ==
  ASSUME Basics, OneAtATime, QuietFits, [Next]_vars, Quiet'
  PROVE  FindingsAreDistinct'
<1>1. FindingsAreDistinct
  BY QuietSteps DEF QuietFits
<1>2. CASE UNCHANGED tables
  BY <1>1, <1>2 DEF tables, FindingsAreDistinct
<1>3. ASSUME NEW h \in Handler, NEW t, NEW s, NEW new, Writes(h, t, s, new),
             NEW f \in findings', NEW g \in findings',
             f.trace = g.trace, f.span = g.span, f.match = g.match
      PROVE  f = g
  <2>1. /\ f \in findings \/ (f.trace = t /\ f.span = s /\ f.by = h /\ f.match \in new)
        /\ g \in findings \/ (g.trace = t /\ g.span = s /\ g.by = h /\ g.match \in new)
        /\ f \in FindingRow /\ g \in FindingRow
    BY <1>3 DEF Writes, Records
  <2>2. f \in findings <=> g \in findings
    BY <1>3, <2>1 DEF Writes, Known
  <2>3. CASE f \in findings
    BY <1>1, <1>3, <2>2, <2>3 DEF FindingsAreDistinct
  <2>4. CASE f \notin findings
    <3>1. f.by = g.by
      BY <2>1, <2>2, <2>4
    <3> QED
      BY <1>3, <2>1, <3>1 DEF FindingRow
  <2> QED
    BY <2>3, <2>4
<1> QED
  BY <1>2, <1>3, QuietWrites DEF FindingsAreDistinct

LEMMA NextRisks ==
  ASSUME Basics, SumsFit, OneAtATime, QuietFits, [Next]_vars, Quiet'
  PROVE  RisksFit'
<1>1. /\ RisksFit /\ findings \subseteq FindingRow /\ traces \in Seq(TraceRow)
      /\ \A f \in findings : f.trace \in DOMAIN traces
  BY QuietSteps DEF QuietFits, Basics, Tables, References
<1>2. Basics'
  BY NextBasics
<1>3. CASE UNCHANGED tables
  BY <1>1, <1>3 DEF tables, RisksFit, SeverityOf
<1>4. ASSUME NEW h \in Handler, NEW t, NEW s, NEW new, Writes(h, t, s, new), NEW f \in findings'
      PROVE  traces'[f.trace].risk >= SeverityOf(f.match)
  <2>1. CASE f.trace = t /\ f.match \in new
    BY <1>4, <2>1 DEF Writes
  <2>2. CASE f \in findings
    <3>1. PICK k, m : k = f.trace /\ m = f.match
      OBVIOUS
    <3>2. /\ k \in DOMAIN traces /\ traces[k].risk >= SeverityOf(m) /\ m \in Match \cup LimitMatch
      BY <1>1, <2>2, <3>1 DEF RisksFit, FindingRow
    <3>3. traces'[k].risk >= traces[k].risk
      <4>1. traces[k] \in TraceRow
        BY <1>1, <3>2
      <4>2. traces[k].risk \in Severity
        BY <4>1 DEF TraceRow
      <4> QED
        BY <1>4, <3>2, <4>2 DEF Writes, Severity
    <3>4. traces'[k].risk \in Severity /\ traces[k].risk \in Severity /\ SeverityOf(m) \in Severity
      <4>1. traces[k] \in TraceRow
        BY <1>1, <3>2
      <4>2. traces' \in Seq(TraceRow) /\ k \in DOMAIN traces'
        BY <1>2, <3>2, CallSteps DEF Basics, Tables
      <4>3. traces'[k] \in TraceRow
        BY <4>2
      <4>4. SeverityOf(m) \in Severity
        BY <3>2, IngestAssumption DEF SeverityOf, Severity
      <4> QED
        BY <4>1, <4>3, <4>4 DEF TraceRow
    <3>5. traces'[k].risk >= SeverityOf(m)
      BY <3>2, <3>3, <3>4 DEF Severity
    <3> QED
      BY <3>1, <3>5
  <2> QED
    BY <1>4, <2>1, <2>2 DEF Writes, Records
<1> QED
  BY <1>3, <1>4, QuietWrites DEF RisksFit, SeverityOf

LEMMA NextOneRow ==
  ASSUME Basics, OneAtATime, QuietFits, [Next]_vars, Quiet'
  PROVE  OneRowPerId'
<1>1. /\ OneRowPerId /\ \A h \in Handler : Fresh(h)
  BY QuietSteps DEF QuietFits
<1>2. ASSUME NEW i \in DOMAIN traces', NEW j \in DOMAIN traces', i \notin DOMAIN traces,
             traces'[i].ext = traces'[j].ext
      PROVE  i = j
  <2>1. PICK h \in Handler : StartCommit(h) /\ StartLeaves(h, i)
    BY <1>2, NewTrace
  <2>2. TracesOf(req[h].trace) = {}
    BY <1>1, <2>1 DEF StartCommit, Fresh
  <2>3. /\ traces'[i].ext = req[h].trace /\ DOMAIN traces' = DOMAIN traces \cup {i}
        /\ \A k \in DOMAIN traces : traces'[k] = traces[k]
    BY <2>1 DEF StartLeaves
  <2>4. \A k \in DOMAIN traces : traces'[k].ext # req[h].trace
    BY <2>2, <2>3 DEF TracesOf
  <2> QED
    BY <1>2, <2>3, <2>4
<1>3. ASSUME NEW i \in DOMAIN traces', NEW j \in DOMAIN traces', traces'[i].ext = traces'[j].ext
      PROVE  i = j
  <2>1. CASE i \in DOMAIN traces /\ j \in DOMAIN traces
    BY <1>1, <1>3, <2>1, TraceSteps DEF OneRowPerId
  <2> QED
    BY <1>2, <1>3, <2>1
<1>4. CASE /\ DOMAIN spans' = DOMAIN spans
           /\ \A s \in DOMAIN spans : spans'[s].ext = spans[s].ext /\ spans'[s].trace = spans[s].trace
  BY <1>1, <1>3, <1>4 DEF OneRowPerId
<1>5. ASSUME NEW h \in Handler, SpanCommit(h) PROVE OneRowPerId'
  <2>1. PICK t, n : t = work[h].trace /\ n = Len(spans) + 1
    OBVIOUS
  <2>2. SpanLeaves(h, t, n)
    BY <1>5, <2>1, SpanSets
  <2>3. SpansIn(t, req[h].span) = {}
    BY <1>1, <1>5, <2>1 DEF SpanCommit, Fresh
  <2>4. /\ spans'[n].ext = req[h].span /\ spans'[n].trace = t
        /\ DOMAIN spans' = DOMAIN spans \cup {n} /\ \A k \in DOMAIN spans : spans'[k] = spans[k]
    BY <2>2 DEF SpanLeaves
  <2>5. \A k \in DOMAIN spans : spans'[k].ext # req[h].span \/ spans'[k].trace # t
    BY <2>3, <2>4 DEF SpansIn, SpansOf
  <2>6. \A i, j \in DOMAIN spans :
          spans'[i].ext = spans'[j].ext /\ spans'[i].trace = spans'[j].trace => i = j
    BY <1>1, <2>4 DEF OneRowPerId
  <2>7. \A i, j \in DOMAIN spans' :
          spans'[i].ext = spans'[j].ext /\ spans'[i].trace = spans'[j].trace => i = j
    BY <2>4, <2>5, <2>6
  <2> QED
    BY <1>3, <2>7 DEF OneRowPerId
<1>6. ASSUME NEW h \in Handler, Serve(h) PROVE OneRowPerId'
  <2>1. CASE StartLoad(h) \/ FinishLoad(h) \/ SpanLoad(h) \/ ChildLoad(h) \/ EventLoad(h) \/ Scan(h) \/ Abort(h)
    BY <1>4, <2>1 DEF StartLoad, FinishLoad, SpanLoad, ChildLoad, EventLoad, Scan, Abort, tables
  <2>2. CASE StartCommit(h)
    BY <1>4, <2>2 DEF StartCommit
  <2>3. CASE FinishCommit(h)
    BY <1>4, <2>3 DEF FinishCommit
  <2>4. CASE ChildCommit(h)
    BY <1>4, <2>4, ChildSets, ZenonT(60) DEF ChildLeaves
  <2> QED
    BY <1>5, <1>6, <2>1, <2>2, <2>3, <2>4 DEF Serve
<1> QED
  BY <1>4, <1>6 DEF Next, vars, tables

LEMMA NoUsageExceedsNothing == Exceeded(NoUsage) = {}
<1>1. TokenState(AgentPolicy, NoUsage) # "EXCEEDED"
  BY IngestAssumption DEF TokenState, NoUsage
<1>2. CostState(AgentPolicy, NoUsage) # "EXCEEDED"
  BY IngestAssumption DEF CostState, NoUsage
<1> QED
  BY <1>1, <1>2 DEF Exceeded

LEMMA NextLimits ==
  ASSUME Basics, SumsFit, OneAtATime, QuietFits, [Next]_vars, Quiet'
  PROVE  LimitsFit'
<1>1. LimitsFit /\ \A h \in Handler : Fresh(h)
  BY QuietSteps DEF QuietFits
<1>2. findings \subseteq findings'
  BY QuietWrites DEF tables, Writes, Records
<1>3. Basics' /\ SumsFit' /\ DOMAIN traces' \subseteq Nat /\ DOMAIN traces \subseteq Nat
      /\ Len(calls) \in Nat /\ Len(calls') \in Nat
  BY NextBasics, NextSums DEF Basics, Tables
<1> SUFFICES ASSUME NEW t \in DOMAIN traces', NEW m, m \in Exceeded(Totals(t)')
             PROVE  Known(t, Null, m)'
  BY DEF LimitsFit, Exceeded
<1>4. Known(t, Null, m) => Known(t, Null, m)'
  BY <1>2 DEF Known
<1>5. Totals(t)' = SumOf(calls', spans', t, Len(calls')) /\ Totals(t) = SumOf(calls, spans, t, Len(calls))
  BY DEF Totals, UsageOf, SumOf
<1>6. PICK n : n = Len(calls)
  OBVIOUS
<1>7. /\ n \in Nat /\ n \in 0 .. Len(calls) /\ t \in Nat
      /\ Defined(calls', spans', t, n) /\ SumOf(calls', spans', t, n) = Totals(t)
  BY <1>3, <1>5, <1>6, SumStays
<1>8. CASE Totals(t)' = Totals(t)
  <2>1. CASE t \in DOMAIN traces
    BY <1>1, <1>4, <1>8, <2>1 DEF LimitsFit
  <2>2. CASE t \notin DOMAIN traces
    <3>1. Totals(t) = NoUsage
      BY <1>5, <1>6, <1>7, <2>2 DEF SumsFit
    <3> QED
      BY <1>8, <3>1, NoUsageExceedsNothing
  <2> QED
    BY <2>1, <2>2
<1>9. ASSUME NEW h \in Handler, ChildCommit(h), req[h].op = "model"
      PROVE  Known(t, Null, m)'
  <2>1. /\ Len(calls') = n + 1 /\ calls'[n + 1].call = req[h].call /\ req[h].call \in ModelCall
        /\ spans'[calls'[n + 1].span].trace = work[h].trace /\ work[h].trace \in DOMAIN traces
    BY <1>6, <1>9, CallAdds
  <2>2. SumOf(calls', spans', t, n + 1) =
          IF work[h].trace = t THEN UsageWith(Totals(t), req[h].call) ELSE Totals(t)
    BY <1>7, <2>1, SumOneMore
  <2>3. CASE t # work[h].trace
    BY <1>5, <1>8, <2>1, <2>2, <2>3
  <2>4. CASE t = work[h].trace
    <3>1. m \in Reported(h) /\ Subject(h) = Null
      BY <1>5, <1>9, <2>1, <2>2, <2>4 DEF Reported, Subject
    <3>2. pc[h] = "commit"
      BY <1>9 DEF ChildCommit
    <3>3. Known(t, Null, m) \/ m \in work[h].new
      BY <1>1, <1>9, <2>4, <3>1, <3>2 DEF Fresh
    <3>4. Writes(h, t, Null, work[h].new)
      BY <1>1, <1>9, <2>4, <3>1, ChildWrites
    <3>5. m \in work[h].new => Known(t, Null, m)'
      BY <3>4 DEF Writes, Records, Known
    <3> QED
      BY <1>4, <3>3, <3>5
  <2> QED
    BY <2>3, <2>4
<1>10. CASE calls' = calls
  BY <1>5, <1>6, <1>7, <1>8, <1>10
<1> QED
  BY <1>9, <1>10, CallSteps

LEMMA NextQuietFits == Basics /\ SumsFit /\ OneAtATime /\ QuietFits /\ [Next]_vars => QuietFits'
BY NextFresh, NextOneRow, NextDistinct, NextRisks, NextLimits DEF QuietFits

LEMMA InitQuietFits == Init => OneAtATime /\ QuietFits
<1> SUFFICES ASSUME Init PROVE OneAtATime /\ QuietFits
  OBVIOUS
<1>1. \A h \in Handler : pc[h] = "idle"
  BY DEF Init, HandlersInit
<1>2. OneAtATime /\ \A h \in Handler : Fresh(h)
  BY <1>1 DEF OneAtATime, Busy, Fresh
<1>3. OneRowPerId /\ FindingsAreDistinct /\ RisksFit
  BY StoredIdsAssumption DEF Init, OneRowPerId, FindingsAreDistinct, RisksFit
<1>4. LimitsFit
  <2> SUFFICES ASSUME NEW t \in DOMAIN traces PROVE Exceeded(Totals(t)) = {}
    BY DEF LimitsFit
  <2>1. Len(calls) = 0
    BY DEF Init
  <2>2. Totals(t) = SumOf(calls, spans, t, 0)
    BY <2>1 DEF Totals, UsageOf, SumOf
  <2> QED
    BY <2>2, NoCallsNoUsage, NoUsageExceedsNothing
<1> QED
  BY <1>2, <1>3, <1>4 DEF QuietFits

LEMMA AlwaysQuiet == Spec => [](Basics /\ SumsFit /\ OneAtATime /\ QuietFits)
BY InitBasics, InitSums, InitQuietFits, NextBasics, NextSums, NextOneAtATime, NextQuietFits, PTL DEF Spec

(* Without overlapping requests a retry stores nothing twice: an external  *)
(* id names one row, a finding is on record once.                          *)
THEOREM RetriesAreStoredOnce == Spec => []RetriesStoreOnce
<1>1. QuietFits => RetriesStoreOnce
  BY DEF QuietFits, RetriesStoreOnce
<1> QED
  BY <1>1, AlwaysQuiet, PTL

(* Without overlapping requests the risk of a trace covers every finding   *)
(* about it, though each commit writes it from the value it loaded.        *)
THEOREM RisksAreCovered == Spec => []RiskCoversFindings
<1>1. QuietFits => RiskCoversFindings
  BY DEF QuietFits, RisksFit, RiskCoversFindings
<1> QED
  BY <1>1, AlwaysQuiet, PTL

(* Without overlapping requests usage over a limit has left a finding: the *)
(* limits are evaluated with the call that is being recorded.              *)
THEOREM LimitsAreRecorded == Spec => []LimitsAreNoticed
<1>1. QuietFits => LimitsAreNoticed
  BY DEF QuietFits, LimitsFit, LimitsAreNoticed, Totals
<1> QED
  BY <1>1, AlwaysQuiet, PTL

(* Without overlapping requests a trace that has ended keeps its status    *)
(* and its totals: a finish commits only what it found running.            *)
EndedStays ==
  \A t \in DOMAIN traces :
    ~ overlap' /\ traces[t].status # "RUNNING" =>
      /\ traces'[t].status = traces[t].status
      /\ traces'[t].totals = traces[t].totals

THEOREM FinishesAreFinal == Spec => FinishIsFinal
<1>1. Basics /\ OneAtATime /\ QuietFits /\ [Next]_vars => EndedStays
  <2> SUFFICES ASSUME Basics, OneAtATime, QuietFits, [Next]_vars, NEW t \in DOMAIN traces,
                      ~ overlap', traces[t].status # "RUNNING"
               PROVE  traces'[t].status = traces[t].status /\ traces'[t].totals = traces[t].totals
    BY DEF EndedStays
  <2>1. \A h \in Handler : Fresh(h)
    BY QuietSteps DEF QuietFits, Quiet
  <2>2. ASSUME NEW h \in Handler, FinishCommit(h) PROVE t # work[h].trace
    BY <2>1, <2>2 DEF FinishCommit, Fresh
  <2> QED
    BY <2>2, TraceSteps
<1>2. Spec => [][EndedStays]_vars
  BY <1>1, AlwaysQuiet, PTL DEF Spec
<1> QED
  BY <1>2 DEF FinishIsFinal, EndedStays

=============================================================================
