----------------------------- MODULE TraceIngest -----------------------------
(***************************************************************************)
(* The ingestion of execution telemetry: start_trace, finish_trace,        *)
(* create_span, update_span, create_model_call and create_event of         *)
(* services/ingest with the findings of services/ingest_security.          *)
(*                                                                         *)
(* Each request is a database transaction at READ COMMITTED.  It loads the *)
(* rows it works on into its session, compares its findings with the ones  *)
(* on record, and writes and commits; other requests come between these    *)
(* steps.  External ids have no unique constraint.  The traces belong to   *)
(* one organisation and one agent, whose policy does not change meanwhile. *)
(***************************************************************************)
EXTENDS Policy, FiniteSetsExt, Handlers

CONSTANTS
  TraceId, SpanId,   (* external ids drawn by the SDK                       *)
  Match,             (* what the scanner can find: type, field, fingerprint *)
  MatchSeverity,     (* the severity of each                                *)
  AgentPolicy,       (* the active policy of the agent, or NoPolicy         *)
  StoredTraces,      (* rows of traces and spans that exist already         *)
  StoredSpans

Severity == 0 .. 4   (* INFO < LOW < MEDIUM < HIGH < CRITICAL *)

TraceStatus == {"RUNNING", "SUCCESS", "ERROR", "BLOCKED", "CANCELLED"}

SpanStatus == {"RUNNING", "SUCCESS", "ERROR"}

ModelCall == [tokens : Nat, cost : Nat, priced : BOOLEAN]

Body ==
  [op : {"start"}, trace : TraceId, hits : SUBSET Match]
  \cup [op : {"finish"}, trace : TraceId, hits : SUBSET Match, status : TraceStatus, risk : Severity]
  \cup [op : {"span"}, trace : TraceId, hits : SUBSET Match, span : SpanId, parent : SpanId \cup {Null},
          status : SpanStatus]
  \cup [op : {"update"}, span : SpanId, hits : SUBSET Match, status : SpanStatus \cup {Null}]
  \cup [op : {"model"}, span : SpanId, call : ModelCall]
  \cup [op : {"event"}, trace : TraceId, hits : SUBSET Match, span : SpanId \cup {Null}]

LimitMatch == {"token_limit", "cost_limit"}

ASSUME IngestAssumption ==
  /\ MatchSeverity \in [Match -> Severity]
  /\ Requests \subseteq Body
  /\ Null \notin Requests \cup SpanId \cup Nat
  /\ AgentPolicy # NoPolicy =>
       {AgentPolicy.maxTokens, AgentPolicy.maxCost} \subseteq Nat \cup {Unlimited}

VARIABLES
  traces,     (* the table traces, in insertion order                       *)
  spans,      (* the table spans, in insertion order                        *)
  calls,      (* model_calls and their cost_records, in insertion order     *)
  events,     (* the table trace_events                                     *)
  findings    (* the table security_findings                                *)

tables  == <<traces, spans, calls, events, findings>>
vars    == <<traces, spans, calls, events, findings, pc, req, work, resp, overlap>>

TraceRow == [ext : TraceId, status : TraceStatus, risk : Severity, totals : Usage]
SpanRow  == [ext : SpanId, trace : Nat, parent : Nat \cup {Null}, status : SpanStatus]
CallRow  == [span : Nat, call : ModelCall]

(* by is the request that stored the finding. *)
FindingRow ==
  [trace : Nat, span : Nat \cup {Null}, match : Match \cup LimitMatch, by : Handler]

(* The trace and span rows as the session loaded them, the parent of a new *)
(* span, and the findings and totals computed since.                       *)
Session ==
  [trace : Nat, risk : Severity, span : Nat \cup {Null}, status : SpanStatus \cup {Null},
   parent : Nat \cup {Null}, new : SUBSET (Match \cup LimitMatch), totals : Usage]

(* The rows at the start are those of traces without model calls. *)
ASSUME StoredAssumption ==
  /\ StoredTraces \in Seq([ext : TraceId, status : TraceStatus, risk : Severity, totals : {NoUsage}])
  /\ StoredSpans \in Seq(SpanRow)
  /\ \A s \in DOMAIN StoredSpans :
       LET row == StoredSpans[s] IN
       /\ row.trace \in DOMAIN StoredTraces
       /\ row.parent # Null => row.parent \in 1 .. s - 1 /\ StoredSpans[row.parent].trace = row.trace

(* An external id names one of them. *)
ASSUME StoredIdsAssumption ==
  /\ \A i, j \in DOMAIN StoredTraces : StoredTraces[i].ext = StoredTraces[j].ext => i = j
  /\ \A i, j \in DOMAIN StoredSpans :
       StoredSpans[i].ext = StoredSpans[j].ext /\ StoredSpans[i].trace = StoredSpans[j].trace => i = j

Init ==
  /\ traces = StoredTraces
  /\ spans = StoredSpans
  /\ calls = << >>
  /\ events = {}
  /\ findings = {}
  /\ HandlersInit

-----------------------------------------------------------------------------
(* Lookups by external id; scalar_one_or_none raises on a second row. *)

TracesOf(ext) == {i \in DOMAIN traces : traces[i].ext = ext}

SpansOf(ext) == {i \in DOMAIN spans : spans[i].ext = ext}

(* Bug variant of SpansIn: the span is looked up in the organisation.      *)
SpansInOrg(t, ext) == SpansOf(ext)

SpansIn(t, ext) == {i \in SpansOf(ext) : spans[i].trace = t}

Missing(h, rows)   == rows = {} /\ Respond(h, 404, Null)
Ambiguous(h, rows) == Cardinality(rows) > 1 /\ Respond(h, 500, Null)
Single(rows, i)    == rows = {i}

(* The session now holds trace t and span s, and the request goes on. *)
Hold(h, t, s, parent, label) ==
  Continue(h, label,
    [trace |-> t, risk |-> traces[t].risk, span |-> s,
     status |-> IF s = Null THEN Null ELSE spans[s].status,
     parent |-> parent, new |-> {}, totals |-> traces[t].totals])

StartLoad(h) ==
  LET rows == TracesOf(req[h].trace) IN
  /\ pc[h] = "load" /\ req[h].op = "start"
  /\ \/ Ambiguous(h, rows)
     \/ \E t \in rows : Single(rows, t) /\ Respond(h, 201, t)
     \/ rows = {} /\ Continue(h, "commit", Null)
  /\ UNCHANGED tables

(* Bug variant of FinishLoad: a finished trace is finished again.          *)
FinishLoadAgain(h) ==
  LET rows == TracesOf(req[h].trace) IN
  /\ pc[h] = "load" /\ req[h].op = "finish"
  /\ \/ Missing(h, rows) \/ Ambiguous(h, rows)
     \/ \E t \in rows : Single(rows, t) /\ Hold(h, t, Null, Null, "scan")
  /\ UNCHANGED tables

(* Only a running trace is finished. *)
FinishLoad(h) ==
  LET rows == TracesOf(req[h].trace) IN
  /\ pc[h] = "load" /\ req[h].op = "finish"
  /\ \/ Missing(h, rows) \/ Ambiguous(h, rows)
     \/ \E t \in rows :
          /\ Single(rows, t)
          /\ IF traces[t].status = "RUNNING" THEN Hold(h, t, Null, Null, "scan")
             ELSE Respond(h, 200, t)
  /\ UNCHANGED tables

(* An existing span is returned; a parent that is not there becomes NULL. *)
SpanLoad(h) ==
  LET q == req[h]
      rows == TracesOf(q.trace)
  IN
  /\ pc[h] = "load" /\ q.op = "span"
  /\ \/ Missing(h, rows) \/ Ambiguous(h, rows)
     \/ \E t \in rows :
          LET same    == SpansIn(t, q.span)
              parents == IF q.parent = Null THEN {} ELSE SpansIn(t, q.parent)
          IN  /\ Single(rows, t)
              /\ \/ Ambiguous(h, same)
                 \/ \E s \in same : Single(same, s) /\ Respond(h, 201, s)
                 \/ same = {} /\ Ambiguous(h, parents)
                 \/ same = {} /\ parents = {} /\ Hold(h, t, Null, Null, "commit")
                 \/ \E p \in parents :
                      same = {} /\ Single(parents, p) /\ Hold(h, t, Null, p, "commit")
  /\ UNCHANGED tables

(* update_span and create_model_call know the span's external id only. *)
ChildLoad(h) ==
  LET rows == SpansOf(req[h].span) IN
  /\ pc[h] = "load" /\ req[h].op \in {"update", "model"}
  /\ \/ Missing(h, rows) \/ Ambiguous(h, rows)
     \/ \E s \in rows : Single(rows, s) /\ Hold(h, spans[s].trace, s, Null, "scan")
  /\ UNCHANGED tables

EventLoad(h) ==
  LET q == req[h]
      rows == TracesOf(q.trace)
  IN
  /\ pc[h] = "load" /\ q.op = "event"
  /\ \/ Missing(h, rows) \/ Ambiguous(h, rows)
     \/ \E t \in rows :
          LET named == IF q.span = Null THEN {} ELSE SpansIn(t, q.span)
          IN  /\ Single(rows, t)
              /\ \/ Ambiguous(h, named)
                 \/ named = {} /\ Hold(h, t, Null, Null, "scan")
                 \/ \E s \in named : Single(named, s) /\ Hold(h, t, s, Null, "scan")
  /\ UNCHANGED tables

-----------------------------------------------------------------------------
(* Usage and findings *)

(* What a model call adds to the usage of its trace. *)
UsageWith(u, m) ==
  [tokens |-> u.tokens + m.tokens,
   cost |-> u.cost + (IF m.priced THEN m.cost ELSE 0),
   unpriced |-> u.unpriced + (IF m.priced THEN 0 ELSE 1)]

(* The usage by the calls of trace t among the first n of the table. *)
UsageOf(t, n) ==
  LET used[k \in 0 .. n] ==
        IF k = 0 THEN NoUsage
        ELSE IF spans[calls[k].span].trace = t THEN UsageWith(used[k - 1], calls[k].call)
        ELSE used[k - 1]
  IN  used[n]

(* Bug variant of Totals: the calls of every trace are added up.           *)
TotalsOfAll(t) ==
  LET used[k \in 0 .. Len(calls)] ==
        IF k = 0 THEN NoUsage ELSE UsageWith(used[k - 1], calls[k].call)
  IN  used[Len(calls)]

Totals(t) == UsageOf(t, Len(calls))

Exceeded(u) ==
  (IF TokenState(AgentPolicy, u) = "EXCEEDED" THEN {"token_limit"} ELSE {})
  \cup (IF CostState(AgentPolicy, u) = "EXCEEDED" THEN {"cost_limit"} ELSE {})

(* Bug variant of Reported: the limits are evaluated before the insert.    *)
ReportedBefore(h) == IF req[h].op = "model" THEN Exceeded(Totals(work[h].trace)) ELSE req[h].hits

(* create_model_call has flushed its own call before it reads the usage. *)
Reported(h) ==
  IF req[h].op = "model" THEN Exceeded(UsageWith(Totals(work[h].trace), req[h].call))
  ELSE req[h].hits

(* A limit concerns the trace, a match in a body the span it belongs to. *)
Subject(h) == IF req[h].op = "model" THEN Null ELSE work[h].span

(* Bug variant of Known: findings on record are not looked at.             *)
KnownNever(t, s, m) == FALSE

Known(t, s, m) == \E f \in findings : f.trace = t /\ f.span = s /\ f.match = m

(* A request that finishes trace t has updated its row and not committed. *)
RowLocked(t) ==
  \E g \in Handler : pc[g] = "commit" /\ req[g].op = "finish" /\ work[g].trace = t

(* The findings not on record yet and, in finish_trace, after its UPDATE   *)
(* of the row, the totals over the model calls.                            *)
Scan(h) ==
  LET t == work[h].trace IN
  /\ pc[h] = "scan"
  /\ req[h].op = "finish" => ~ RowLocked(t)
  /\ Continue(h, "commit",
       [work[h] EXCEPT !.new = {m \in Reported(h) : ~ Known(t, Subject(h), m)},
                       !.totals = Totals(t)])
  /\ UNCHANGED tables

-----------------------------------------------------------------------------
(* Writes *)

SeverityOf(m) == IF m \in LimitMatch THEN 2 ELSE MatchSeverity[m]

Worst(risk, S) == Max({risk} \cup {SeverityOf(m) : m \in S})

Store(h, t, s, new) ==
  findings' = findings \cup {[trace |-> t, span |-> s, match |-> m, by |-> h] : m \in new}

(* Bug variant of RiskAfter: a finding does not raise the risk.            *)
RiskAfterReported(h, new, reported) == Max({work[h].risk, reported})

RiskAfter(h, new, reported) == Worst(Max({work[h].risk, reported}), new)

(* The session writes a column only if it changed the value it loaded; to  *)
(* write the risk it waits for the row.                                    *)
MayWriteRisk(h, new) ==
  RiskAfter(h, new, 0) # work[h].risk => ~ RowLocked(work[h].trace)

RiskColumn(h, new, reported) ==
  LET risk == RiskAfter(h, new, reported) IN
  IF risk # work[h].risk THEN risk ELSE traces[work[h].trace].risk

StartCommit(h) ==
  LET q == req[h] IN
  /\ pc[h] = "commit" /\ q.op = "start"
  /\ traces' = Append(traces, [ext |-> q.trace, status |-> "RUNNING",
                               risk |-> Worst(0, q.hits), totals |-> NoUsage])
  /\ Store(h, Len(traces'), Null, q.hits)
  /\ Respond(h, 201, Len(traces'))
  /\ UNCHANGED <<spans, calls, events>>

FinishCommit(h) ==
  LET q == req[h]
      w == work[h]
  IN
  /\ pc[h] = "commit" /\ q.op = "finish"
  /\ traces' = [traces EXCEPT ![w.trace].status = IF q.status = "RUNNING" THEN @ ELSE q.status,
                              ![w.trace].risk = RiskColumn(h, w.new, q.risk),
                              ![w.trace].totals = w.totals]
  /\ Store(h, w.trace, Null, w.new)
  /\ Respond(h, 200, w.trace)
  /\ UNCHANGED <<spans, calls, events>>

NewSpan(q, w) ==
  [ext |-> q.span, trace |-> w.trace, parent |-> w.parent, status |-> q.status]

(* The span is new, and so are all its findings. *)
SpanCommit(h) ==
  LET q == req[h]
      w == work[h]
  IN
  /\ pc[h] = "commit" /\ q.op = "span"
  /\ MayWriteRisk(h, q.hits)
  /\ spans' = Append(spans, NewSpan(q, w))
  /\ Store(h, w.trace, Len(spans'), q.hits)
  /\ traces' = [traces EXCEPT ![w.trace].risk = RiskColumn(h, q.hits, 0)]
  /\ Respond(h, 201, Len(spans'))
  /\ UNCHANGED <<calls, events>>

(* update_span, create_model_call and create_event *)
ChildCommit(h) ==
  LET q == req[h]
      w == work[h]
  IN
  /\ pc[h] = "commit" /\ q.op \in {"update", "model", "event"}
  /\ MayWriteRisk(h, w.new)
  /\ \/ /\ q.op = "update"
        /\ spans' = [spans EXCEPT ![w.span].status =
                       IF q.status \in {Null, w.status} THEN @ ELSE q.status]
        /\ UNCHANGED <<calls, events>>
     \/ /\ q.op = "model"
        /\ calls' = Append(calls, [span |-> w.span, call |-> q.call])
        /\ UNCHANGED <<spans, events>>
     \/ /\ q.op = "event"
        /\ events' = events \cup {[trace |-> w.trace, span |-> w.span, by |-> h]}
        /\ UNCHANGED <<spans, calls>>
  /\ Store(h, w.trace, Subject(h), w.new)
  /\ traces' = [traces EXCEPT ![w.trace].risk = RiskColumn(h, w.new, 0)]
  /\ Respond(h, IF q.op = "update" THEN 200 ELSE 201, w.span)

(* A request that dies leaves nothing behind. *)
Abort(h) == Die(h) /\ UNCHANGED tables

-----------------------------------------------------------------------------
Serve(h) ==
  \/ StartLoad(h) \/ FinishLoad(h) \/ SpanLoad(h) \/ ChildLoad(h) \/ EventLoad(h)
  \/ Scan(h)
  \/ StartCommit(h) \/ FinishCommit(h) \/ SpanCommit(h) \/ ChildCommit(h)
  \/ Abort(h)

Next ==
  \/ \E h \in Handler, q \in Requests : Receive(h, q) /\ UNCHANGED tables
  \/ \E h \in Handler : Serve(h)

Spec == Init /\ [][Next]_vars

-----------------------------------------------------------------------------
(* Properties *)

(* Every row and every session keeps the shape the models give it. *)
IngestTypeOK ==
  /\ traces \in Seq(TraceRow) /\ spans \in Seq(SpanRow) /\ calls \in Seq(CallRow)
  /\ \A e \in events : e.trace \in DOMAIN traces /\ e.span \in DOMAIN spans \cup {Null}
  /\ findings \subseteq FindingRow
  /\ HandlersTypeOK(Session)

(* Spans form a forest inside their trace: a parent is an earlier span of  *)
(* the same trace, even when two traces use the same external span id; and *)
(* the other rows refer to rows that exist.                                *)
SpanForest ==
  /\ IngestTypeOK
  /\ \A s \in DOMAIN spans :
       LET row == spans[s] IN
       /\ row.trace \in DOMAIN traces
       /\ row.parent # Null =>
            /\ row.parent \in DOMAIN spans /\ row.parent < s
            /\ spans[row.parent].trace = row.trace

(* The totals of a finished trace are those of the model calls that were   *)
(* on record at one moment: none is counted in part, twice or for another  *)
(* trace, though calls keep arriving while finish_trace adds them up.      *)
TotalsAreASnapshot ==
  \A t \in DOMAIN traces :
    \E n \in 0 .. Len(calls) : traces[t].totals = UsageOf(t, n)

(* An external id names one row. *)
OneRowPerId ==
  /\ \A i, j \in DOMAIN traces : traces[i].ext = traces[j].ext => i = j
  /\ \A i, j \in DOMAIN spans :
       spans[i].ext = spans[j].ext /\ spans[i].trace = spans[j].trace => i = j

(* A finding is stored once, however often it is reported. *)
FindingsAreDistinct ==
  \A f, g \in findings :
    f.trace = g.trace /\ f.span = g.span /\ f.match = g.match => f = g

(* Without overlapping requests a retried start, span creation or scan     *)
(* finds what the first delivery stored, ...                               *)
RetriesStoreOnce == Quiet => OneRowPerId /\ FindingsAreDistinct

(* ... the risk of a trace covers every finding about it, ...              *)
RiskCoversFindings ==
  Quiet => \A f \in findings : traces[f.trace].risk >= SeverityOf(f.match)

(* ... usage over a limit of the policy has left a finding that says so.   *)
LimitsAreNoticed ==
  Quiet =>
    \A t \in DOMAIN traces :
      \A m \in Exceeded(UsageOf(t, Len(calls))) : Known(t, Null, m)

(* A trace that has ended keeps its status and its totals, whatever is     *)
(* retried or arrives late, unless two requests overlapped.                *)
FinishIsFinal ==
  [][\A t \in DOMAIN traces :
       ~ overlap' /\ traces[t].status # "RUNNING" =>
         /\ traces'[t].status = traces[t].status
         /\ traces'[t].totals = traces[t].totals]_vars

(* docs/SECURITY.md: "New findings can only raise risk".                   *)
RiskNeverFalls ==
  [][\A t \in DOMAIN traces : traces'[t].risk >= traces[t].risk]_traces

=============================================================================
