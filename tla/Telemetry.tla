------------------------------ MODULE Telemetry ------------------------------
(***************************************************************************)
(* How telemetry travels: the SDK's Trace and Span blocks, the queue of    *)
(* Transport with its flush threads, the retries of post, and the ingest   *)
(* endpoints, /ingest/batch in detail.                                     *)
(*                                                                         *)
(* Application threads run the calls of their script; background threads   *)
(* flush the queue they share.  Whoever posts waits for the answer or the  *)
(* timeout of each attempt, and drops the outcome.  A request that was     *)
(* given up on is still served.                                            *)
(***************************************************************************)
EXTENDS Naturals, FiniteSets, SequencesExt

CONSTANTS
  Thread,          (* threads of the application                            *)
  Flusher,         (* background threads; a bound on those alive at once    *)
  TraceId, SpanId, (* Trace and Span objects, by external id                *)
  Scripts,         (* the SDK calls of each thread, in order: the programs  *)
  Sampling,        (* outcomes of _should_sample at this rate               *)
  QueueMax,        (* _QUEUE_MAX                                            *)
  FlushThreshold,
  BatchMax,        (* _BATCH_MAX                                            *)
  MaxRetries,
  Late,            (* places for requests served though they were given up  *)
                   (* on: their number bounds how often that happens        *)
  Rejected,        (* ids of items the database or the schemas reject       *)
  Null

Sender == Thread \cup Flusher

TraceOp == {"trace", "span", "model", "event", "leave", "exit"}

ItemKind == {"start", "span", "update", "model", "event", "finish"}

(* An item of telemetry; id is the call that made it.                      *)
Entry ==
  [kind : ItemKind, trace : TraceId, span : SpanId \cup {Null}, parent : SpanId \cup {Null},
   id : Thread \X Nat]

Tag == (Thread \X Nat) \X Nat

Line == [item : Entry, by : Tag]

(* A request that carries items, and what it came to so far.               *)
Carried ==
  {q \in [items : Seq(Entry), batch : BOOLEAN, tag : Tag, oks : Seq(BOOLEAN), new : Seq(Line),
          http : {Null, 200, 404, 500, 503}] : q.items # << >> /\ Len(q.oks) <= Len(q.items)}

ASSUME TelemetryAssumption ==
  /\ Thread \cap Flusher = {} /\ Late \cap Sender = {} /\ IsFiniteSet(Late)
  /\ Null \notin Nat \cup SpanId \cup Carried
  /\ Sampling \in (SUBSET BOOLEAN) \ {{}}
  /\ {QueueMax, FlushThreshold, BatchMax, MaxRetries} \subseteq Nat \ {0}
  /\ \A calls \in UNION {{s[t] : t \in Thread} : s \in Scripts} : \A k \in DOMAIN calls :
       /\ calls[k].op \in TraceOp \cup {"enqueue", "flush", "shut"}
       /\ calls[k].op = "shut" => k > 1 /\ calls[k - 1].op = "flush"
       /\ calls[k].op = "enqueue" => calls[k].kind \in ItemKind /\ calls[k].span \in SpanId \cup {Null}
       /\ calls[k].op \in TraceOp \cup {"enqueue"} => calls[k].trace \in TraceId
       /\ calls[k].op \in {"span", "model", "leave"} => calls[k].span \in SpanId

Leaves(calls, k, span) == calls[k].op = "leave" /\ calls[k].span = span

(* What leaves its block at k has entered it, and the blocks of its trace  *)
(* that were entered within it were left.                                  *)
Nested(calls, k) ==
  \E j \in 1 .. k - 1 :
    /\ calls[j].op = "span" /\ calls[j].span = calls[k].span /\ calls[j].trace = calls[k].trace
    /\ \A i \in j + 1 .. k - 1 :
         calls[i].op = "span" /\ calls[i].trace = calls[k].trace =>
           \E l \in i .. k - 1 : Leaves(calls, l, calls[i].span)

(* The blocks of a program nest.  Each Trace and each Span is a new object *)
(* with one block, and a trace is used by the thread that entered it.      *)
ASSUME ProgramsAssumption ==
  \A s \in Scripts :
    /\ DOMAIN s = Thread
    /\ \A t \in Thread :
         /\ s[t] \in Seq(ToSet(s[t]))
         /\ \A k \in DOMAIN s[t] : s[t][k].op = "leave" => Nested(s[t], k)
    /\ \A t, u \in Thread : \A j \in DOMAIN s[t], k \in DOMAIN s[u] :
         LET c == s[t][j]
             d == s[u][k]
         IN
         /\ {c.op, d.op} \subseteq TraceOp /\ c.trace = d.trace => t = u
         /\ c.op = d.op /\ c.op \in {"span", "leave"} /\ c.span = d.span => t = u /\ j = k

VARIABLES
  script,     (* the program                                                *)
  next,       (* the next call of each thread                               *)
  noop,       (* traces that are a _NoopTrace                               *)
  stack,      (* Trace._span_stack                                          *)
  pending,    (* Span._pending_child_calls                                  *)
  queue,      (* Transport._queue                                           *)
  started,    (* flush threads that have not taken the queue yet            *)
  todo,       (* what each thread still has to post                         *)
  attempt,    (* attempts that the first of these has had                   *)
  closed,     (* the HTTP client is closed                                  *)
  net,        (* the request each thread waits for, and the late ones       *)
  rows,       (* what telemetry left in the database, in commit order       *)
  gone        (* queued items that were dropped, given up on, or answered   *)

blocks  == <<script, next, noop, stack, pending>>
buffer  == <<queue, started>>
posting == <<todo, attempt, closed, gone>>
backend == <<net, rows>>
vars    == <<script, next, noop, stack, pending, queue, started, todo, attempt, closed, net, rows, gone>>

Item(t, kind, trace, span, parent) ==
  [kind |-> kind, trace |-> trace, span |-> span, parent |-> parent, id |-> <<t, next[t]>>]

Init ==
  /\ script \in Scripts
  /\ next = [t \in Thread |-> 1]
  /\ noop = {}
  /\ stack = [tr \in TraceId |-> << >>]
  /\ pending = [s \in SpanId |-> << >>]
  /\ queue = << >>
  /\ started = {}
  /\ todo = [p \in Sender |-> << >>]
  /\ attempt = [p \in Sender |-> 0]
  /\ closed = FALSE
  /\ net = [p \in Sender \cup Late |-> Null]
  /\ rows = << >>
  /\ gone = [dropped |-> {}, lost |-> {}, answered |-> {}]

-----------------------------------------------------------------------------
(* Trace and Span blocks: each call posts at once, and waits. *)

Ready(t) == todo[t] = << >> /\ next[t] \in DOMAIN script[t]

Call(t) == script[t][next[t]]

Advance(t) == next' = [next EXCEPT ![t] = @ + 1] /\ UNCHANGED script

Single(item) == [batch |-> FALSE, items |-> <<item>>]

PostAll(t, items) ==
  todo' = [todo EXCEPT ![t] = [k \in DOMAIN items |-> Single(items[k])]]

(* AgentOps.trace: Trace.__enter__ starts the trace, unless sampling or a  *)
(* disabled client puts a _NoopTrace in its place.                         *)
EnterTrace(t) ==
  LET c == Call(t) IN
  /\ Ready(t) /\ c.op = "trace"
  /\ Advance(t)
  /\ \/ /\ TRUE \in Sampling
        /\ PostAll(t, <<Item(t, "start", c.trace, Null, Null)>>)
        /\ UNCHANGED noop
     \/ /\ FALSE \in Sampling
        /\ noop' = noop \cup {c.trace}
        /\ UNCHANGED todo
  /\ UNCHANGED <<stack, pending, buffer, attempt, closed, gone, backend>>

(* The calls on a _NoopTrace do nothing. *)
NoopCall(t) ==
  /\ Ready(t) /\ Call(t).op \in TraceOp \ {"trace"} /\ Call(t).trace \in noop
  /\ Advance(t)
  /\ UNCHANGED <<noop, stack, pending, buffer, posting, backend>>

Live(t, op) == Ready(t) /\ Call(t).op = op /\ Call(t).trace \notin noop

Parent(spans) == IF spans = << >> THEN Null ELSE Last(spans)

(* Trace.span: the parent is the top of the span stack. *)
OpenSpan(t) ==
  LET c == Call(t) IN
  /\ Live(t, "span")
  /\ Advance(t)
  /\ PostAll(t, <<Item(t, "span", c.trace, c.span, Parent(stack[c.trace]))>>)
  /\ stack' = [stack EXCEPT ![c.trace] = Append(@, c.span)]
  /\ UNCHANGED <<noop, pending, buffer, attempt, closed, gone, backend>>

(* Span.add_model_call: the call is posted at the end of the span. *)
AddModelCall(t) ==
  LET c == Call(t) IN
  /\ Live(t, "model")
  /\ Advance(t)
  /\ pending' = [pending EXCEPT ![c.span] = Append(@, Item(t, "model", c.trace, c.span, Null))]
  /\ UNCHANGED <<noop, stack, buffer, posting, backend>>

(* Bug variant of LeaveSpan: the spans around it leave the stack as well.  *)
LeaveSpans(t) ==
  LET c == Call(t) IN
  /\ Live(t, "leave")
  /\ Advance(t)
  /\ PostAll(t, <<Item(t, "update", c.trace, c.span, Null)>> \o pending[c.span])
  /\ stack' = [stack EXCEPT ![c.trace] = << >>]
  /\ UNCHANGED <<noop, pending, buffer, attempt, closed, gone, backend>>

(* Span.__exit__ posts the update and the calls of the span, which leaves  *)
(* the stack if it is on top.                                              *)
LeaveSpan(t) ==
  LET c == Call(t) IN
  /\ Live(t, "leave")
  /\ Advance(t)
  /\ PostAll(t, <<Item(t, "update", c.trace, c.span, Null)>> \o pending[c.span])
  /\ stack' = [stack EXCEPT ![c.trace] = IF Parent(@) = c.span THEN Front(@) ELSE @]
  /\ UNCHANGED <<noop, pending, buffer, attempt, closed, gone, backend>>

Event(t) ==
  /\ Live(t, "event")
  /\ Advance(t)
  /\ PostAll(t, <<Item(t, "event", Call(t).trace, Null, Null)>>)
  /\ UNCHANGED <<noop, stack, pending, buffer, attempt, closed, gone, backend>>

(* Trace.__exit__: an exception is reported as an event before the end. *)
ExitTrace(t) ==
  LET c      == Call(t)
      raised == IF c.ok THEN << >> ELSE <<Item(t, "event", c.trace, Null, Null)>>
  IN
  /\ Live(t, "exit")
  /\ Advance(t)
  /\ PostAll(t, raised \o <<Item(t, "finish", c.trace, Null, Null)>>)
  /\ UNCHANGED <<noop, stack, pending, buffer, attempt, closed, gone, backend>>

-----------------------------------------------------------------------------
(* Transport: the queue, and the threads that flush it *)

Chunks(items) ==
  [k \in 1 .. (Len(items) + BatchMax - 1) \div BatchMax |->
     [batch |-> TRUE,
      items |-> SubSeq(items, (k - 1) * BatchMax + 1,
                       IF k * BatchMax < Len(items) THEN k * BatchMax ELSE Len(items))]]

Resting(f) == f \notin started /\ todo[f] = << >>

(* A deque with a maximal length drops its oldest item for a new one. *)
Push(item) ==
  IF Len(queue) = QueueMax
  THEN /\ queue' = Append(Tail(queue), item)
       /\ gone' = [gone EXCEPT !.dropped = @ \cup {Head(queue)}]
  ELSE queue' = Append(queue, item) /\ UNCHANGED gone

(* A queue at the threshold starts a flush thread for every further item. *)
Enqueue(t) ==
  LET c == Call(t) IN
  /\ Ready(t) /\ c.op = "enqueue"
  /\ Advance(t)
  /\ Push(Item(t, c.kind, c.trace, c.span, Null))
  /\ IF Len(queue') >= FlushThreshold
     THEN \E f \in Flusher : Resting(f) /\ started' = started \cup {f}
     ELSE UNCHANGED started
  /\ UNCHANGED <<noop, stack, pending, todo, attempt, closed, backend>>

(* Bug variant of TakeQueue: the queue is cleared only if it is one chunk. *)
TakeQueueKept(p) ==
  /\ queue' = IF Len(queue) > BatchMax THEN SubSeq(queue, BatchMax, Len(queue)) ELSE << >>
  /\ todo' = [todo EXCEPT ![p] = Chunks(queue)]

TakeQueue(p) ==
  /\ queue' = << >>
  /\ todo' = [todo EXCEPT ![p] = Chunks(queue)]

Flush(t) ==
  /\ Ready(t) /\ Call(t).op = "flush"
  /\ Advance(t)
  /\ TakeQueue(t)
  /\ UNCHANGED <<noop, stack, pending, started, attempt, closed, gone, backend>>

FlushAsync(f) ==
  /\ f \in started
  /\ started' = started \ {f}
  /\ TakeQueue(f)
  /\ UNCHANGED <<blocks, attempt, closed, gone, backend>>

(* The end of close, after its flush. *)
Shut(t) ==
  /\ Ready(t) /\ Call(t).op = "shut"
  /\ Advance(t)
  /\ closed' = TRUE
  /\ UNCHANGED <<noop, stack, pending, buffer, todo, attempt, gone, backend>>

-----------------------------------------------------------------------------
(* Transport.post: the attempts of one request *)

Posting(p) == todo[p] # << >>

(* The post of p is over, its items being where outcome says. *)
PostEnds(p, outcome) ==
  /\ gone' = IF Head(todo[p]).batch
             THEN [gone EXCEPT ![outcome] = @ \cup ToSet(Head(todo[p]).items)] ELSE gone
  /\ todo' = [todo EXCEPT ![p] = Tail(@)]
  /\ attempt' = [attempt EXCEPT ![p] = 0]

(* Bug variant of Retry: attempts are not counted.                         *)
RetryForever(p) == UNCHANGED <<attempt, todo, gone>>

Retry(p) ==
  IF attempt[p] + 1 = MaxRetries THEN PostEnds(p, "lost")
  ELSE /\ attempt' = [attempt EXCEPT ![p] = @ + 1]
       /\ UNCHANGED <<todo, gone>>

(* tag tells the attempts at an item apart; oks and new are what the items *)
(* served so far came to, and http is the answer.                          *)
Request(p, post) ==
  [items |-> post.items, batch |-> post.batch, tag |-> <<post.items[1].id, attempt[p]>>,
   oks |-> << >>, new |-> << >>, http |-> Null]

(* A closed client raises, and the post is over. *)
Send(p) ==
  /\ Posting(p) /\ net[p] = Null
  /\ \/ /\ closed
        /\ PostEnds(p, "lost")
        /\ UNCHANGED net
     \/ /\ ~ closed
        /\ net' = [net EXCEPT ![p] = Request(p, Head(todo[p]))]
        /\ UNCHANGED <<todo, attempt, gone>>
  /\ UNCHANGED <<blocks, buffer, closed, rows>>

(* Timeouts and network errors: the request came to nothing, or it has     *)
(* been served or will be, and nobody hears of it.                         *)
TimeOut(p) ==
  /\ Posting(p) /\ net[p] # Null
  /\ \/ net[p].http # 200 /\ net' = [net EXCEPT ![p] = Null]
     \/ \E l \in Late : net[l] = Null /\ net' = [net EXCEPT ![p] = Null, ![l] = net[p]]
  /\ Retry(p)
  /\ UNCHANGED <<blocks, buffer, closed, rows>>

(* Bug variant of Answered: a batch with failed items is sent again.       *)
AnsweredInPart(p) ==
  /\ Posting(p) /\ net[p] # Null /\ net[p].http # Null
  /\ IF net[p].http = 503 \/ (net[p].http = 200 /\ FALSE \in ToSet(net[p].oks))
     THEN Retry(p) ELSE PostEnds(p, "answered")
  /\ net' = [net EXCEPT ![p] = Null]
  /\ UNCHANGED <<blocks, buffer, closed, rows>>

(* 503 is retried; any other answer, success or not, is the last word. *)
Answered(p) ==
  /\ Posting(p) /\ net[p] # Null /\ net[p].http # Null
  /\ IF net[p].http = 503 THEN Retry(p) ELSE PostEnds(p, "answered")
  /\ net' = [net EXCEPT ![p] = Null]
  /\ UNCHANGED <<blocks, buffer, closed, rows>>

-----------------------------------------------------------------------------
(* The backend: an endpoint per item, and the batch of them *)

TracesIn(table, trace) ==
  {n \in DOMAIN table : table[n].item.kind = "start" /\ table[n].item.trace = trace}

SpansIn(table, span) ==
  {n \in DOMAIN table : table[n].item.kind = "span" /\ table[n].item.span = span}

SpansOf(table, trace, span) == {n \in SpansIn(table, span) : table[n].item.trace = trace}

One(S) == Cardinality(S) = 1

(* Whether services/ingest accepts an item, given the rows it sees: what   *)
(* the item is about is there, and its external id names one row.  The     *)
(* parent of a new span need not be there, but must not be there twice.    *)
Accepts(table, item) ==
  CASE item.kind = "start" -> Cardinality(TracesIn(table, item.trace)) <= 1
    [] item.kind = "span"  ->
         /\ One(TracesIn(table, item.trace))
         /\ \/ One(SpansOf(table, item.trace, item.span))
            \/ /\ SpansOf(table, item.trace, item.span) = {}
               /\ Cardinality(SpansOf(table, item.trace, item.parent)) <= 1
    [] item.kind \in {"event", "finish"} -> One(TracesIn(table, item.trace))
    [] item.kind \in {"update", "model"} -> One(SpansIn(table, item.span))

(* A start and a span are created once, a trace finishes once. *)
Known(table, item) ==
  /\ item.kind \in {"start", "span", "finish"}
  /\ \E n \in DOMAIN table :
       LET old == table[n].item IN
       old.kind = item.kind /\ old.trace = item.trace /\ old.span = item.span

(* An unknown parent is stored as NULL. *)
Stored(table, item) ==
  IF item.kind = "span" /\ SpansOf(table, item.trace, item.parent) = {}
  THEN [item EXCEPT !.parent = Null] ELSE item

(* What request r writes for an item. *)
Writes(r, table, item) ==
  IF Known(table, item) THEN << >> ELSE <<[item |-> Stored(table, item), by |-> net[r].tag]>>

Serving(r, state) ==
  /\ net[r] # Null /\ net[r].http = Null
  /\ state = IF Len(net[r].oks) < Len(net[r].items) THEN "items" ELSE "commit"

Outcome(r, ok, new) == net' = [net EXCEPT ![r].oks = Append(@, ok), ![r].new = new]

(* Bug variant of ServeItem: an item that fails keeps what it had written. *)
ServeItemUnsaved(r) ==
  LET item  == net[r].items[Len(net[r].oks) + 1]
      table == rows \o net[r].new
      new   == net[r].new \o Writes(r, table, item)
  IN
  /\ Serving(r, "items")
  /\ IF ~ Accepts(table, item) THEN Outcome(r, FALSE, net[r].new)
     ELSE Outcome(r, item.id \notin Rejected, new)
  /\ UNCHANGED <<blocks, buffer, posting, rows>>

(* The next item of request r, in a savepoint of its own: it sees what is  *)
(* committed and the items before it, and if it fails its writes go.       *)
ServeItem(r) ==
  LET item  == net[r].items[Len(net[r].oks) + 1]
      table == rows \o net[r].new
      ok    == Accepts(table, item) /\ item.id \notin Rejected
  IN
  /\ Serving(r, "items")
  /\ Outcome(r, ok, IF ok THEN net[r].new \o Writes(r, table, item) ELSE net[r].new)
  /\ UNCHANGED <<blocks, buffer, posting, rows>>

(* A batch commits what succeeded; a single item that failed is an error.  *)
Commit(r) ==
  /\ Serving(r, "commit")
  /\ IF net[r].batch \/ net[r].oks = <<TRUE>>
     THEN /\ rows' = rows \o net[r].new
          /\ net' = [net EXCEPT ![r].http = 200]
     ELSE /\ net' = [net EXCEPT ![r].http = 404]
          /\ UNCHANGED rows
  /\ UNCHANGED <<blocks, buffer, posting>>

(* The commit or the process fails; a proxy has no backend to go to.  A    *)
(* late request that fails is one that is never served.                    *)
Fail(r) ==
  /\ r \in Sender
  /\ \/ Serving(r, "commit") /\ net' = [net EXCEPT ![r].http = 500]
     \/ Serving(r, "items") /\ net[r].oks = << >> /\ net' = [net EXCEPT ![r].http = 503]
  /\ UNCHANGED <<blocks, buffer, posting, rows>>

-----------------------------------------------------------------------------
Step(t) ==
  \/ EnterTrace(t) \/ NoopCall(t) \/ OpenSpan(t) \/ AddModelCall(t) \/ LeaveSpan(t)
  \/ Event(t) \/ ExitTrace(t)
  \/ Enqueue(t) \/ Flush(t) \/ Shut(t)

Post(p) == Send(p) \/ TimeOut(p) \/ Answered(p)

Next ==
  \/ \E t \in Thread : Step(t)
  \/ \E f \in Flusher : FlushAsync(f)
  \/ \E p \in Sender : Post(p)
  \/ \E r \in DOMAIN net : ServeItem(r) \/ Commit(r) \/ Fail(r)

(* Threads run, and every attempt has a timeout; the backend owes nothing. *)
Fairness ==
  /\ \A t \in Thread : WF_vars(Step(t))
  /\ \A f \in Flusher : WF_vars(FlushAsync(f))
  /\ \A p \in Sender : WF_vars(Post(p))

Spec == Init /\ [][Next]_vars /\ Fairness

-----------------------------------------------------------------------------
(* Properties *)

Occurrences(seq, item) == Cardinality({n \in DOMAIN seq : seq[n] = item})

(* The posts an item is in. *)
Held(item) ==
  {h \in UNION {{p} \X DOMAIN todo[p] : p \in Sender} : item \in ToSet(todo[h[1]][h[2]].items)}

(* The items enqueued so far. *)
Enqueued ==
  UNION {{[kind |-> script[t][k].kind, trace |-> script[t][k].trace, span |-> script[t][k].span,
           parent |-> Null, id |-> <<t, k>>]
            : k \in {k \in 1 .. next[t] - 1 : script[t][k].op = "enqueue"}} : t \in Thread}

Gone(item) == {outcome \in DOMAIN gone : item \in gone[outcome]}

(* An item is in the queue, in one post of one thread, or gone one         *)
(* way: threads that flush the queue at once share it, and lose nothing.   *)
ItemsHaveOnePlace ==
  /\ Len(queue) <= QueueMax
  /\ \A item \in Enqueued :
       /\ Occurrences(queue, item) + Cardinality(Held(item)) + Cardinality(Gone(item)) = 1
       /\ \A h \in Held(item) : Occurrences(todo[h[1]][h[2]].items, item) = 1

Rows(item) == {n \in DOMAIN rows : rows[n].item.id = item.id /\ rows[n].item.kind = item.kind}

RowsBy(r, item) == {n \in Rows(item) : rows[n].by = net[r].tag}

(* The answer to a batch tells what it did: an item reported as failed     *)
(* left nothing behind, one reported as ok is in the database, and without *)
(* a success nothing is.  An item does not fail for want of a trace that   *)
(* an earlier item of its batch started.                                   *)
AnswersTellRows ==
  \A r \in {r \in DOMAIN net : net[r] # Null} :
    LET q == net[r] IN
    /\ \A n \in DOMAIN q.oks : q.http # 200 \/ ~ q.oks[n] => RowsBy(r, q.items[n]) = {}
    /\ q.http = 200 =>
         \A n \in DOMAIN q.items :
           IF q.oks[n] THEN
             IF q.items[n].kind \in {"start", "span", "finish"} THEN Known(rows, q.items[n])
             ELSE Cardinality(RowsBy(r, q.items[n])) = 1
           ELSE \/ q.items[n].id \in Rejected
                \/ q.items[n].kind # "event"
                \/ ~ One(TracesIn(rows, q.items[n].trace))
                \/ ~ \E m \in 1 .. n - 1 :
                     q.oks[m] /\ q.items[m].kind = "start" /\ q.items[m].trace = q.items[n].trace

(* An item without an external id is stored twice only if a request with   *)
(* it was given up on and served all the same.                             *)
CopiesAreRetries ==
  \A n \in DOMAIN rows :
    LET item == rows[n].item IN
    item.kind \in {"event", "model"} =>
      Cardinality(Rows(item))
        <= 1 + Cardinality({l \in Late : net[l] # Null /\ item \in ToSet(net[l].items)})

(* The blocks around call k of thread t, from its script. *)
OpenAround(t, k, trace) ==
  {j \in 1 .. k - 1 :
     /\ script[t][j].op = "span" /\ script[t][j].trace = trace
     /\ ~ \E l \in j .. k - 1 : Leaves(script[t], l, script[t][j].span)}

Innermost(j, around) == j \in around /\ \A i \in around : i <= j

(* The span tree in the database is that of the blocks.  The parent of a   *)
(* span is the block around it.  A span is stored without its parent only  *)
(* if every delivery of the parent that was not given up on had failed:    *)
(* whatever row the parent has came late.                                  *)
ParentsEnclose ==
  \A n \in DOMAIN rows :
    LET row    == rows[n].item
        calls  == script[row.id[1]]
        around == OpenAround(row.id[1], row.id[2], row.trace)
    IN
    row.kind = "span" =>
      /\ row.parent # Null =>
           \E j \in around : Innermost(j, around) /\ row.parent = calls[j].span
      /\ row.parent = Null /\ calls[row.id[2]].op = "span" =>
           \A j \in around, m \in DOMAIN rows :
             Innermost(j, around) /\ rows[m].item.kind = "span" /\ rows[m].item.id = <<row.id[1], j>> =>
               \E l \in Late : net[l] # Null /\ net[l].tag = rows[m].by

(* Every thread gets to the end of its script and every flush to the end   *)
(* of its posts, though the backend may never answer; nothing stays in the *)
(* queue that its own thread flushed afterwards.                           *)
Flushed(item) ==
  \E k \in DOMAIN script[item.id[1]] :
    k > item.id[2] /\ script[item.id[1]][k].op = "flush"

Rest ==
  /\ \A t \in Thread : next[t] = Len(script[t]) + 1
  /\ started = {}
  /\ \A p \in Sender : todo[p] = << >>
  /\ \A item \in ToSet(queue) : ~ Flushed(item)

EverythingSettles == <>[]Rest
=============================================================================
