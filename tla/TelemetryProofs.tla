--------------------------- MODULE TelemetryProofs ---------------------------
(***************************************************************************)
(* Proofs, for every value of the constants, of the safety properties of   *)
(* Telemetry.  First what the items are and that the span stack holds the  *)
(* blocks around a call, then that an item is in one place, then what the  *)
(* requests that carry items have left in the database.                    *)
(***************************************************************************)
EXTENDS Telemetry, FiniteSetTheorems, SequenceTheorems, TLAPS

-----------------------------------------------------------------------------
(* The shape of the state *)

Parcel == {post \in [batch : BOOLEAN, items : Seq(Entry)] : post.items # << >>}

BlocksFit ==
  /\ script \in Scripts
  /\ next \in [Thread -> Nat \ {0}] /\ \A t \in Thread : next[t] <= Len(script[t]) + 1
  /\ stack \in [TraceId -> Seq(SpanId)] /\ pending \in [SpanId -> Seq(Entry)]

ShapeFit ==
  /\ BlocksFit
  /\ queue \in Seq(Entry) /\ Len(queue) <= QueueMax
  /\ todo \in [Sender -> Seq(Parcel)] /\ attempt \in [Sender -> Nat]
  /\ started \subseteq Flusher /\ \A f \in started : todo[f] = << >>
  /\ net \in [Sender \cup Late -> Carried \cup {Null}]
  /\ rows \in Seq(Line)
  /\ gone \in [dropped : SUBSET Entry, lost : SUBSET Entry, answered : SUBSET Entry]

-----------------------------------------------------------------------------
(* What the items are *)

(* The blocks of a trace that are open before call k. *)
Opened(calls, k, trace) ==
  {j \in 1 .. k - 1 :
     /\ calls[j].op = "span" /\ calls[j].trace = trace
     /\ ~ \E l \in j .. k - 1 : Leaves(calls, l, calls[j].span)}

(* The innermost block around an item is its parent. *)
Enclosed(item, calls) ==
  LET around == Opened(calls[item.id[1]], item.id[2], item.trace) IN
  \E j \in around : Innermost(j, around) /\ item.parent = calls[item.id[1]][j].span

OpOf(item, calls) == calls[item.id[1]][item.id[2]].op

(* An item is what its call says, and the call was made. *)
Made(item, calls, now) ==
  LET c == calls[item.id[1]][item.id[2]] IN
  /\ item.id[2] \in 1 .. now[item.id[1]] - 1
  /\ item.trace = c.trace
  /\ item.kind # "span" \/ c.op = "enqueue" => item.parent = Null
  /\ \/ c.op = "enqueue" /\ item.kind = c.kind /\ item.span = c.span
     \/ c.op = "trace" /\ item.kind = "start" /\ item.span = Null
     \/ c.op = "span" /\ item.kind = "span" /\ item.span = c.span
     \/ c.op = "model" /\ item.kind = "model" /\ item.span = c.span
     \/ c.op = "leave" /\ item.kind = "update" /\ item.span = c.span
     \/ c.op \in {"event", "exit"} /\ item.kind = "event" /\ item.span = Null
     \/ c.op = "exit" /\ item.kind = "finish" /\ item.span = Null
  /\ item.parent # Null => Enclosed(item, calls)

Left(span, calls, now) == \E t \in Thread : \E k \in 1 .. now[t] - 1 : Leaves(calls[t], k, span)

(* The calls of a span are posted when it is left. *)
Posted(item, calls, now) ==
  Made(item, calls, now) /\ (OpOf(item, calls) = "model" => Left(item.span, calls, now))

Queued(item, calls, now) == Made(item, calls, now) /\ OpOf(item, calls) = "enqueue"

(* What is posted in a batch came from the queue. *)
Load(post, calls, now) ==
  \A a \in DOMAIN post.items :
    /\ Posted(post.items[a], calls, now)
    /\ OpOf(post.items[a], calls) = "enqueue" <=> post.batch

Stock(now) ==
  /\ \A n \in DOMAIN queue : Queued(queue[n], script, now)
  /\ \A s \in SpanId : \A n \in DOMAIN pending[s] :
       Made(pending[s][n], script, now) /\ OpOf(pending[s][n], script) = "model" /\ pending[s][n].span = s
  /\ \A p \in Sender : \A n \in DOMAIN todo[p] : Load(todo[p][n], script, now)
  /\ \A r \in DOMAIN net : net[r] # Null =>
       Load(net[r], script, now) /\ \A n \in DOMAIN net[r].new : Posted(net[r].new[n].item, script, now)
  /\ \A n \in DOMAIN rows : Posted(rows[n].item, script, now)
  /\ \A o \in DOMAIN gone : \A item \in gone[o] : Queued(item, script, now)

ItemsMade == Stock(next)

-----------------------------------------------------------------------------
(* The span stack *)

Owns(t, trace) ==
  \E k \in DOMAIN script[t] : script[t][k].op \in TraceOp /\ script[t][k].trace = trace

(* The stack holds the blocks that are open, by f the calls that entered   *)
(* them.                                                                   *)
Tracks(f, spans, calls, open) ==
  /\ f \in Seq(Nat) /\ Len(f) = Len(spans)
  /\ \A i \in DOMAIN f : spans[i] = calls[f[i]].span
  /\ \A i, j \in DOMAIN f : i < j => f[i] < f[j]
  /\ \A i \in DOMAIN f : f[i] \in open
  /\ \A k \in open : \E i \in DOMAIN f : f[i] = k

StacksFit ==
  \A t \in Thread, trace \in TraceId :
    Owns(t, trace) /\ trace \notin noop =>
      \E f : Tracks(f, stack[trace], script[t], Opened(script[t], next[t], trace))

-----------------------------------------------------------------------------
(* Places *)

Same(a, b) == a.id = b.id /\ a.kind = b.kind

Apart(items) == \A m, n \in DOMAIN items : Same(items[m], items[n]) => m = n

Share(some, others) == \E a \in DOMAIN some, b \in DOMAIN others : Same(some[a], others[b])

PlacesFit ==
  /\ Apart(queue) /\ \A s \in SpanId : Apart(pending[s])
  /\ \A p \in Sender : \A m \in DOMAIN todo[p] :
       /\ Apart(todo[p][m].items) /\ ~ Share(todo[p][m].items, queue)
       /\ \A q \in Sender : \A n \in DOMAIN todo[q] :
            Share(todo[p][m].items, todo[q][n].items) => p = q /\ m = n

In(items, item) == \E a \in DOMAIN items : items[a] = item

Put(calls, t, k) ==
  [kind |-> calls[t][k].kind, trace |-> calls[t][k].trace, span |-> calls[t][k].span,
   parent |-> Null, id |-> <<t, k>>]

WasPut(item, calls, now) ==
  \E t \in Thread : \E k \in 1 .. now[t] - 1 : calls[t][k].op = "enqueue" /\ item = Put(calls, t, k)

Waits(item) == In(queue, item) \/ \E p \in Sender : \E n \in DOMAIN todo[p] : In(todo[p][n].items, item)

(* An item that was enqueued is somewhere, and what is gone is so one way. *)
GoneFit ==
  /\ \A item : WasPut(item, script, next) => Waits(item) \/ \E o \in DOMAIN gone : item \in gone[o]
  /\ \A o \in DOMAIN gone : \A item \in gone[o] :
       ~ Waits(item) /\ \A oo \in DOMAIN gone : item \in gone[oo] => oo = o

-----------------------------------------------------------------------------
(* Requests *)

Has(items, item) == \E a \in DOMAIN items : Same(items[a], item)

(* The request a thread waits for is the next attempt at its first post,   *)
(* and a late one was an attempt before that.                              *)
AttemptsFit ==
  /\ \A r \in DOMAIN net : net[r] # Null => Apart(net[r].items) /\ ~ Share(net[r].items, queue)
  /\ \A p \in Sender : net[p] # Null =>
       /\ todo[p] # << >> /\ net[p].items = todo[p][1].items /\ net[p].tag[2] = attempt[p]
  /\ \A l \in Late : net[l] # Null =>
       \A p \in Sender : \A n \in DOMAIN todo[p] :
         Share(net[l].items, todo[p][n].items) => n = 1 /\ net[l].tag[2] < attempt[p]
  /\ \A l, m \in Late : net[l] # Null /\ net[m] # Null =>
       (Share(net[l].items, net[m].items) /\ net[l].tag = net[m].tag => l = m)

(* A request writes an item once, with its tag, when it serves it. *)
Wrote(q) ==
  /\ \A n \in DOMAIN q.new :
       q.new[n].by = q.tag /\ \E a \in 1 .. Len(q.oks) : Same(q.items[a], q.new[n].item)
  /\ \A m, n \in DOMAIN q.new : Same(q.new[m].item, q.new[n].item) => m = n

(* It is on record only once it was answered 200. *)
Recorded(q, table) ==
  \A n \in DOMAIN table : table[n].by = q.tag /\ Has(q.items, table[n].item) => q.http = 200

Covers(requests, line) ==
  \E l \in Late : requests[l] # Null /\ requests[l].tag = line.by /\ Has(requests[l].items, line.item)

(* Of one item all rows but one are by late requests, and what is still to *)
(* be posted has rows of the attempts before only.                         *)
RowsFit ==
  /\ \A r \in DOMAIN net : net[r] # Null => Wrote(net[r]) /\ Recorded(net[r], rows)
  /\ \A n \in DOMAIN rows :
       /\ ~ Has(queue, rows[n].item)
       /\ \A p \in Sender : \A m \in DOMAIN todo[p] : Has(todo[p][m].items, rows[n].item) =>
            /\ m = 1
            /\ \/ rows[n].by[2] < attempt[p] /\ Covers(net, rows[n])
               \/ net[p] # Null /\ net[p].http = 200 /\ rows[n].by = net[p].tag
  /\ \A m, n \in DOMAIN rows : Same(rows[m].item, rows[n].item) /\ m # n =>
       rows[m].by # rows[n].by /\ (Covers(net, rows[m]) \/ Covers(net, rows[n]))

-----------------------------------------------------------------------------
(* Parents *)

Around(item, calls) == Opened(calls[item.id[1]], item.id[2], item.trace)

(* A span that was entered within a block, and has no parent. *)
Orphan(item, calls) ==
  /\ item.kind = "span" /\ item.parent = Null
  /\ OpOf(item, calls) = "span" /\ Around(item, calls) # {}

(* A span is posted by the thread that just entered it, with its parent.   *)
Aims(p, item, calls, now) ==
  OpOf(item, calls) = "span" =>
    ~ Orphan(item, calls) /\ item.id[1] = p /\ item.id[2] = now[p] - 1

AimsFit ==
  /\ \A p \in Sender : \A n \in DOMAIN todo[p] : \A a \in DOMAIN todo[p][n].items :
       Aims(p, todo[p][n].items[a], script, next)
  /\ \A r \in DOMAIN net : net[r] # Null =>
       \A a \in DOMAIN net[r].items : ~ Orphan(net[r].items[a], script)

(* item is the span of the block around child. *)
Encloses(item, child, calls) ==
  \E j \in Around(child, calls) :
    Innermost(j, Around(child, calls)) /\ item.kind = "span" /\ item.id = <<child.id[1], j>>

(* The rows of the parent that a span was stored without are late ones.    *)
Excused(item, calls, requests, table) ==
  Orphan(item, calls) =>
    \A m \in DOMAIN table : Encloses(table[m].item, item, calls) => Covers(requests, table[m])

OrphansFit ==
  /\ \A n \in DOMAIN rows : Excused(rows[n].item, script, net, rows)
  /\ \A r \in DOMAIN net : net[r] # Null =>
       \A n \in DOMAIN net[r].new : Excused(net[r].new[n].item, script, net, rows)

-----------------------------------------------------------------------------
(* Answers *)

Creates(item) == item.kind \in {"start", "span", "finish"}

Bears(table, tag, item) == \E n \in DOMAIN table : Same(table[n].item, item) /\ table[n].by = tag

Twice(table, trace) == \E i, j \in TracesIn(table, trace) : i # j

(* What the n-th item of request q came to, given the rows in the database *)
(* and the table that the request sees.                                    *)
Fate(q, stored, table, n) ==
  /\ q.oks[n] /\ Creates(q.items[n]) => Known(table, q.items[n])
  /\ q.oks[n] /\ ~ Creates(q.items[n]) =>
       IF q.http = 200 THEN Bears(stored, q.tag, q.items[n])
       ELSE \E m \in DOMAIN q.new : Same(q.new[m].item, q.items[n])
  /\ ~ q.oks[n] =>
       /\ \A m \in DOMAIN q.new : ~ Same(q.new[m].item, q.items[n])
       /\ q.http = 200 => ~ Bears(stored, q.tag, q.items[n])
       /\ q.items[n].id \notin Rejected /\ q.items[n].kind = "event" =>
            \/ Twice(table, q.items[n].trace)
            \/ \A m \in 1 .. n - 1 :
                 ~ (q.oks[m] /\ q.items[m].kind = "start" /\ q.items[m].trace = q.items[n].trace)

Served(q, stored) ==
  /\ \A n \in DOMAIN q.oks : Fate(q, stored, IF q.http = 200 THEN stored ELSE stored \o q.new, n)
  /\ q.http = 200 => Len(q.oks) = Len(q.items)

AnswersFit == \A r \in DOMAIN net : net[r] # Null => (net[r].http \in {Null, 200} => Served(net[r], rows))

-----------------------------------------------------------------------------
(* Programs *)

LEMMA ScriptShape ==
  ASSUME BlocksFit, NEW t \in Thread
  PROVE  /\ DOMAIN script = Thread
         /\ Len(script[t]) \in Nat /\ DOMAIN script[t] = 1 .. Len(script[t])
         /\ next[t] \in Nat \ {0}
         /\ \A k \in DOMAIN script[t] :
              /\ script[t][k].op \in TraceOp \cup {"enqueue", "flush", "shut"}
              /\ script[t][k].op = "enqueue" =>
                   script[t][k].kind \in ItemKind /\ script[t][k].span \in SpanId \cup {Null}
              /\ script[t][k].op \in TraceOp \cup {"enqueue"} => script[t][k].trace \in TraceId
              /\ script[t][k].op \in {"span", "model", "leave"} => script[t][k].span \in SpanId
              /\ script[t][k].op = "leave" => Nested(script[t], k)
<1>1. script \in Scripts /\ next[t] \in Nat \ {0}
  BY DEF BlocksFit
<1>2. DOMAIN script = Thread /\ script[t] \in Seq(ToSet(script[t]))
      /\ \A k \in DOMAIN script[t] : script[t][k].op = "leave" => Nested(script[t], k)
  BY <1>1, ProgramsAssumption
<1>3. script[t] \in UNION {{s[u] : u \in Thread} : s \in Scripts}
  BY <1>1
<1>4. \A k \in DOMAIN script[t] :
              /\ script[t][k].op \in TraceOp \cup {"enqueue", "flush", "shut"}
              /\ script[t][k].op = "enqueue" =>
                   script[t][k].kind \in ItemKind /\ script[t][k].span \in SpanId \cup {Null}
              /\ script[t][k].op \in TraceOp \cup {"enqueue"} => script[t][k].trace \in TraceId
              /\ script[t][k].op \in {"span", "model", "leave"} => script[t][k].span \in SpanId
  BY <1>3, TelemetryAssumption
<1> HIDE DEF Nested
<1> QED
  BY <1>1, <1>2, <1>4

(* A block is entered once, and left once. *)
LEMMA OneBlock ==
  ASSUME BlocksFit, NEW t \in Thread, NEW u \in Thread,
         NEW j \in DOMAIN script[t], NEW k \in DOMAIN script[u],
         script[t][j].op = script[u][k].op, script[t][j].op \in {"span", "leave"},
         script[t][j].span = script[u][k].span
  PROVE  t = u /\ j = k
BY ProgramsAssumption DEF BlocksFit

LEMMA OneOwner ==
  ASSUME BlocksFit, NEW t \in Thread, NEW u \in Thread, NEW trace, Owns(t, trace), Owns(u, trace)
  PROVE  t = u
BY ProgramsAssumption DEF BlocksFit, Owns

(* A call makes items of its trace. *)
LEMMA ItemShape ==
  ASSUME BlocksFit, NEW t \in Thread, NEW kind \in ItemKind, NEW trace \in TraceId,
         NEW span \in SpanId \cup {Null}, NEW parent \in SpanId \cup {Null}
  PROVE  /\ Item(t, kind, trace, span, parent) \in Entry
         /\ Item(t, kind, trace, span, parent).kind = kind
         /\ Item(t, kind, trace, span, parent).trace = trace
         /\ Item(t, kind, trace, span, parent).span = span
         /\ Item(t, kind, trace, span, parent).parent = parent
         /\ Item(t, kind, trace, span, parent).id = <<t, next[t]>>
BY DEF Item, Entry, BlocksFit

-----------------------------------------------------------------------------
(* The steps of the application *)

(* Thread t makes its next call. *)
Goes(t) ==
  /\ t \in Thread /\ todo[t] = << >> /\ next[t] \in DOMAIN script[t]
  /\ script' = script /\ next' = [next EXCEPT ![t] = next[t] + 1]

(* It posts items, one by one. *)
Posts(t, items) ==
  /\ Goes(t)
  /\ items \in Seq(Entry)
  /\ todo' = [todo EXCEPT ![t] = [k \in DOMAIN items |-> [batch |-> FALSE, items |-> <<items[k]>>]]]
  /\ queue' = queue /\ started' = started /\ attempt' = attempt
  /\ net' = net /\ rows' = rows /\ gone' = gone

Passes(t) ==
  /\ Goes(t)
  /\ todo' = todo /\ queue' = queue /\ started' = started /\ attempt' = attempt
  /\ net' = net /\ rows' = rows /\ gone' = gone

LEMMA ReadyGoes ==
  ASSUME ShapeFit, NEW t \in Thread, Ready(t), Advance(t)
  PROVE  Goes(t)
BY DEF Ready, Advance, Goes

LEMMA PostAllPosts ==
  ASSUME NEW t \in Thread, Goes(t), NEW items \in Seq(Entry), PostAll(t, items),
         UNCHANGED <<buffer, attempt, gone, backend>>
  PROVE  Posts(t, items)
BY DEF PostAll, Posts, Single, buffer, backend

LEMMA GoesBlocks ==
  ASSUME ShapeFit, NEW t \in Thread, Goes(t)
  PROVE  /\ script' \in Scripts /\ next' \in [Thread -> Nat \ {0}]
         /\ \A u \in Thread : next'[u] <= Len(script'[u]) + 1
<1>1. BlocksFit
  BY DEF ShapeFit
<1>2. next[t] \in Nat \ {0} /\ next[t] <= Len(script[t]) /\ Len(script[t]) \in Nat
  BY <1>1, ScriptShape DEF Goes
<1> QED
  BY <1>1, <1>2 DEF Goes, BlocksFit


(* What each call of a block posts.                                        *)
LEMMA EnterTracePosts ==
  ASSUME ShapeFit, NEW t \in Thread, EnterTrace(t)
  PROVE  /\ stack' = stack /\ pending' = pending
         /\ script[t][next[t]].op = "trace"
         /\ \/ Posts(t, <<Item(t, "start", Call(t).trace, Null, Null)>>) /\ noop' = noop
            \/ Passes(t) /\ noop' = noop \cup {script[t][next[t]].trace}
<1>1. BlocksFit /\ Goes(t) /\ Call(t) = script[t][next[t]]
  BY ReadyGoes DEF EnterTrace, ShapeFit, Call
<1>2. Call(t).op = "trace" /\ Call(t).trace \in TraceId
  BY <1>1, ScriptShape DEF EnterTrace, Goes
<1>3. <<Item(t, "start", Call(t).trace, Null, Null)>> \in Seq(Entry)
  BY <1>1, <1>2, ItemShape DEF ItemKind
<1>4. stack' = stack /\ pending' = pending
  BY DEF EnterTrace
<1>5. CASE PostAll(t, <<Item(t, "start", Call(t).trace, Null, Null)>>) /\ UNCHANGED noop
  <2>1. UNCHANGED <<buffer, attempt, gone, backend>>
    BY DEF EnterTrace
  <2> QED
    BY <1>1, <1>2, <1>3, <1>4, <1>5, <2>1, PostAllPosts
<1>6. CASE noop' = noop \cup {Call(t).trace} /\ UNCHANGED todo
  <2>1. UNCHANGED <<buffer, attempt, gone, backend>>
    BY DEF EnterTrace
  <2>2. Passes(t)
    BY <1>1, <1>6, <2>1 DEF Passes, buffer, backend
  <2> QED
    BY <1>1, <1>2, <1>4, <1>6, <2>2
<1> QED
  BY <1>5, <1>6 DEF EnterTrace

LEMMA NoopCallPasses ==
  ASSUME ShapeFit, NEW t \in Thread, NoopCall(t)
  PROVE  /\ Passes(t) /\ stack' = stack /\ pending' = pending /\ noop' = noop
         /\ script[t][next[t]].op \in TraceOp \ {"trace"} /\ script[t][next[t]].trace \in noop
<1>1. Goes(t) /\ Call(t) = script[t][next[t]]
  BY ReadyGoes DEF NoopCall, Call
<1> QED
  BY <1>1 DEF NoopCall, Passes, buffer, backend, posting

LEMMA OpenSpanPosts ==
  ASSUME ShapeFit, NEW t \in Thread, OpenSpan(t)
  PROVE  LET c == script[t][next[t]] IN
         /\ c.op = "span" /\ c.trace \notin noop
         /\ Parent(stack[c.trace]) \in SpanId \cup {Null}
         /\ Posts(t, <<Item(t, "span", c.trace, c.span, Parent(stack[c.trace]))>>)
         /\ stack' = [stack EXCEPT ![c.trace] = Append(stack[c.trace], c.span)]
         /\ pending' = pending /\ noop' = noop
<1> DEFINE c == script[t][next[t]]
<1>1. BlocksFit /\ Goes(t) /\ Call(t) = c
  BY ReadyGoes DEF OpenSpan, Live, ShapeFit, Call
<1>2. c.op = "span" /\ c.trace \notin noop /\ c.trace \in TraceId /\ c.span \in SpanId
  BY <1>1, ScriptShape DEF OpenSpan, Live, Goes
<1>3. Parent(stack[c.trace]) \in SpanId \cup {Null}
  <2>1. stack[c.trace] \in Seq(SpanId)
    BY <1>1, <1>2 DEF BlocksFit
  <2> QED
    BY <2>1 DEF Parent, Last
<1>4. <<Item(t, "span", c.trace, c.span, Parent(stack[c.trace]))>> \in Seq(Entry)
  BY <1>1, <1>2, <1>3, ItemShape DEF ItemKind
<1>5. PostAll(t, <<Item(t, "span", c.trace, c.span, Parent(stack[c.trace]))>>)
      /\ UNCHANGED <<buffer, attempt, gone, backend>>
  BY <1>1 DEF OpenSpan
<1>6. Posts(t, <<Item(t, "span", c.trace, c.span, Parent(stack[c.trace]))>>)
  BY <1>1, <1>4, <1>5, PostAllPosts
<1> QED
  BY <1>1, <1>2, <1>3, <1>6 DEF OpenSpan

LEMMA AddModelCallPasses ==
  ASSUME ShapeFit, NEW t \in Thread, AddModelCall(t)
  PROVE  LET c == script[t][next[t]] IN
         /\ c.op = "model" /\ c.trace \notin noop
         /\ Passes(t) /\ stack' = stack /\ noop' = noop
         /\ pending' = [pending EXCEPT ![c.span] =
                          Append(pending[c.span], Item(t, "model", c.trace, c.span, Null))]
<1>1. Goes(t) /\ Call(t) = script[t][next[t]]
  BY ReadyGoes DEF AddModelCall, Live, Call
<1> QED
  BY <1>1 DEF AddModelCall, Live, Passes, buffer, backend, posting

LEMMA LeaveSpanPosts ==
  ASSUME ShapeFit, NEW t \in Thread, LeaveSpan(t)
  PROVE  LET c == script[t][next[t]] IN
         /\ c.op = "leave" /\ c.trace \notin noop
         /\ Posts(t, <<Item(t, "update", c.trace, c.span, Null)>> \o pending[c.span])
         /\ stack' = [stack EXCEPT ![c.trace] =
                        IF Parent(stack[c.trace]) = c.span THEN Front(stack[c.trace]) ELSE stack[c.trace]]
         /\ pending' = pending /\ noop' = noop
<1> DEFINE c == script[t][next[t]]
<1>1. BlocksFit /\ Goes(t) /\ Call(t) = c
  BY ReadyGoes DEF LeaveSpan, Live, ShapeFit, Call
<1>2. c.op = "leave" /\ c.trace \notin noop /\ c.trace \in TraceId /\ c.span \in SpanId
  BY <1>1, ScriptShape DEF LeaveSpan, Live, Goes
<1>3. <<Item(t, "update", c.trace, c.span, Null)>> \in Seq(Entry) /\ pending[c.span] \in Seq(Entry)
  BY <1>1, <1>2, ItemShape DEF ItemKind, BlocksFit
<1>4. <<Item(t, "update", c.trace, c.span, Null)>> \o pending[c.span] \in Seq(Entry)
  BY <1>3, ConcatProperties
<1>5. PostAll(t, <<Item(t, "update", c.trace, c.span, Null)>> \o pending[c.span])
      /\ UNCHANGED <<buffer, attempt, gone, backend>>
  BY <1>1 DEF LeaveSpan
<1>6. Posts(t, <<Item(t, "update", c.trace, c.span, Null)>> \o pending[c.span])
  BY <1>1, <1>4, <1>5, PostAllPosts
<1> QED
  BY <1>1, <1>2, <1>6 DEF LeaveSpan

LEMMA EventPosts ==
  ASSUME ShapeFit, NEW t \in Thread, Event(t)
  PROVE  LET c == script[t][next[t]] IN
         /\ c.op = "event" /\ c.trace \notin noop
         /\ Posts(t, <<Item(t, "event", c.trace, Null, Null)>>)
         /\ stack' = stack /\ pending' = pending /\ noop' = noop
<1> DEFINE c == script[t][next[t]]
<1>1. BlocksFit /\ Goes(t) /\ Call(t) = c
  BY ReadyGoes DEF Event, Live, ShapeFit, Call
<1>2. c.op = "event" /\ c.trace \notin noop /\ c.trace \in TraceId
  BY <1>1, ScriptShape DEF Event, Live, Goes
<1>3. <<Item(t, "event", c.trace, Null, Null)>> \in Seq(Entry)
  BY <1>1, <1>2, ItemShape DEF ItemKind
<1>4. PostAll(t, <<Item(t, "event", c.trace, Null, Null)>>) /\ UNCHANGED <<buffer, attempt, gone, backend>>
  BY <1>1 DEF Event
<1>5. Posts(t, <<Item(t, "event", c.trace, Null, Null)>>)
  BY <1>1, <1>3, <1>4, PostAllPosts
<1> QED
  BY <1>1, <1>2, <1>5 DEF Event

LEMMA ExitTracePosts ==
  ASSUME ShapeFit, NEW t \in Thread, ExitTrace(t)
  PROVE  LET c == script[t][next[t]]
             end == Item(t, "finish", c.trace, Null, Null)
         IN
         /\ c.op = "exit" /\ c.trace \notin noop
         /\ \/ Posts(t, <<end>>)
            \/ Posts(t, <<Item(t, "event", c.trace, Null, Null), end>>)
         /\ stack' = stack /\ pending' = pending /\ noop' = noop
<1> DEFINE c == script[t][next[t]]
           end == Item(t, "finish", c.trace, Null, Null)
           error == Item(t, "event", c.trace, Null, Null)
           raised == IF c.ok THEN << >> ELSE <<error>>
<1>1. BlocksFit /\ Goes(t) /\ Call(t) = c
  BY ReadyGoes DEF ExitTrace, Live, ShapeFit, Call
<1>2. c.op = "exit" /\ c.trace \notin noop /\ c.trace \in TraceId
  BY <1>1, ScriptShape DEF ExitTrace, Live, Goes
<1>3. end \in Entry /\ error \in Entry
  BY <1>1, <1>2, ItemShape DEF ItemKind
<1>4. PostAll(t, raised \o <<end>>) /\ UNCHANGED <<buffer, attempt, gone, backend>>
  BY <1>1 DEF ExitTrace
<1>5. stack' = stack /\ pending' = pending /\ noop' = noop
  BY DEF ExitTrace
<1>6. CASE c.ok
  <2> HIDE DEF end, error
  <2>1. raised \o <<end>> = <<end>> /\ <<end>> \in Seq(Entry)
    BY <1>3, <1>6
  <2>2. Posts(t, <<end>>)
    BY <1>1, <1>4, <2>1, PostAllPosts
  <2> QED
    BY <1>2, <1>5, <2>2 DEF end
<1>7. CASE ~ c.ok
  <2> HIDE DEF end, error
  <2>1. raised \o <<end>> = <<error, end>> /\ <<error, end>> \in Seq(Entry)
    <3>1. raised = <<error>>
      BY <1>7
    <3>2. <<error>> \o <<end>> = <<error, end>>
      <4> DEFINE both == <<error>> \o <<end>>
      <4>1. <<error>> \in Seq(Entry) /\ <<end>> \in Seq(Entry) /\ Len(<<error>>) = 1 /\ Len(<<end>>) = 1
        BY <1>3
      <4>2. both \in Seq(Entry) /\ Len(both) = 2 /\ both[1] = error /\ both[2] = end
        BY <4>1, ConcatProperties
      <4>3. <<error, end>> \in Seq(Entry) /\ Len(<<error, end>>) = 2
        BY <1>3
      <4> HIDE DEF both
      <4>4. both = <<error, end>>
        BY <4>2, <4>3, SeqEqual
      <4> QED
        BY <4>4 DEF both
    <3>3. <<error, end>> \in Seq(Entry)
      BY <1>3
    <3> QED
      BY <3>1, <3>2, <3>3
  <2>2. Posts(t, <<error, end>>)
    BY <1>1, <1>4, <2>1, PostAllPosts
  <2> QED
    BY <1>2, <1>5, <2>2 DEF end, error
<1> QED
  BY <1>6, <1>7

LEMMA ShutPasses ==
  ASSUME ShapeFit, NEW t \in Thread, Shut(t)
  PROVE  Passes(t) /\ stack' = stack /\ pending' = pending /\ noop' = noop /\ script[t][next[t]].op = "shut"
<1>1. Goes(t) /\ Call(t) = script[t][next[t]]
  BY ReadyGoes DEF Shut, Call
<1> QED
  BY <1>1 DEF Shut, Passes, buffer, backend

(* A step of thread t on its blocks, or one that closes the client. *)
BlockStep(t) ==
  \/ EnterTrace(t) \/ NoopCall(t) \/ OpenSpan(t) \/ AddModelCall(t) \/ LeaveSpan(t)
  \/ Event(t) \/ ExitTrace(t) \/ Shut(t)

LEMMA BlockStepMoves ==
  ASSUME ShapeFit, NEW t \in Thread, BlockStep(t)
  PROVE  /\ Passes(t) \/ \E items : Posts(t, items)
         /\ Goes(t)
         /\ stack' \in [TraceId -> Seq(SpanId)] /\ pending' \in [SpanId -> Seq(Entry)]
<1> DEFINE c == script[t][next[t]]
<1>0. /\ BlocksFit /\ stack \in [TraceId -> Seq(SpanId)] /\ pending \in [SpanId -> Seq(Entry)]
  BY DEF ShapeFit, BlocksFit
<1>a. (Passes(t) => Goes(t)) /\ \A items : Posts(t, items) => Goes(t)
  BY DEF Passes, Posts
<1>b. next[t] \in DOMAIN script[t] /\ c.op \in {"span", "model", "leave"} => c.span \in SpanId /\ c.trace \in TraceId
  BY <1>0, ScriptShape DEF TraceOp
<1>1. CASE EnterTrace(t)
  BY <1>0, <1>a, <1>1, EnterTracePosts
<1>2. CASE NoopCall(t)
  BY <1>0, <1>a, <1>2, NoopCallPasses
<1>3. CASE OpenSpan(t)
  <2>1. Goes(t) /\ c.op = "span" /\ (\E items : Posts(t, items)) /\ pending' = pending
        /\ stack' = [stack EXCEPT ![c.trace] = Append(stack[c.trace], c.span)]
    BY <1>a, <1>3, OpenSpanPosts
  <2>2. c.span \in SpanId /\ c.trace \in TraceId
    BY <1>b, <2>1 DEF Goes
  <2> HIDE DEF c
  <2>3. Append(stack[c.trace], c.span) \in Seq(SpanId)
    BY <1>0, <2>2
  <2> QED
    BY <1>0, <2>1, <2>2, <2>3
<1>4. CASE AddModelCall(t)
  <2>1. Goes(t) /\ c.op = "model" /\ Passes(t) /\ stack' = stack
        /\ pending' = [pending EXCEPT ![c.span] = Append(pending[c.span], Item(t, "model", c.trace, c.span, Null))]
    BY <1>a, <1>4, AddModelCallPasses
  <2>2. c.span \in SpanId /\ c.trace \in TraceId
    BY <1>b, <2>1 DEF Goes
  <2>3. Item(t, "model", c.trace, c.span, Null) \in Entry
    BY <1>0, <2>2, ItemShape DEF ItemKind
  <2> HIDE DEF c
  <2>4. Append(pending[c.span], Item(t, "model", c.trace, c.span, Null)) \in Seq(Entry)
    BY <1>0, <2>2, <2>3
  <2> QED
    BY <1>0, <2>1, <2>2, <2>4
<1>5. CASE LeaveSpan(t)
  <2> DEFINE rest == IF Parent(stack[c.trace]) = c.span THEN Front(stack[c.trace]) ELSE stack[c.trace]
  <2>1. Goes(t) /\ c.op = "leave" /\ (\E items : Posts(t, items)) /\ pending' = pending
        /\ stack' = [stack EXCEPT ![c.trace] = rest]
    BY <1>a, <1>5, LeaveSpanPosts
  <2>2. c.span \in SpanId /\ c.trace \in TraceId
    BY <1>b, <2>1 DEF Goes
  <2> HIDE DEF c
  <2>3. PICK s \in Seq(SpanId) : s = stack[c.trace]
    BY <1>0, <2>2
  <2>4. Parent(s) = c.span => s # << >>
    BY <2>2, TelemetryAssumption DEF Parent
  <2>5. s # << >> => Front(s) \in Seq(SpanId)
    BY <2>3 DEF Front
  <2>6. rest \in Seq(SpanId)
    BY <2>3, <2>4, <2>5
  <2> HIDE DEF rest
  <2> QED
    BY <1>0, <2>1, <2>2, <2>6
<1>6. CASE Event(t)
  BY <1>0, <1>a, <1>6, EventPosts
<1>7. CASE ExitTrace(t)
  BY <1>0, <1>a, <1>7, ExitTracePosts
<1>8. CASE Shut(t)
  BY <1>0, <1>a, <1>8, ShutPasses
<1> QED
  BY <1>1, <1>2, <1>3, <1>4, <1>5, <1>6, <1>7, <1>8 DEF BlockStep


-----------------------------------------------------------------------------
(* Chunks *)

LEMMA Rounding ==
  ASSUME NEW b \in Nat \ {0}, NEW n \in Nat
  PROVE  LET chunks == (n + b - 1) \div b IN
         /\ chunks \in Nat /\ n <= chunks * b
         /\ \A k \in 1 .. chunks : (k - 1) * b < n
<1> DEFINE chunks == (n + b - 1) \div b
<1>1. chunks \in Nat
  OBVIOUS
<1>2. chunks * b < n + b /\ n <= chunks * b
  OBVIOUS
<1>3. ASSUME NEW k \in 1 .. chunks PROVE (k - 1) * b < n
  <2> HIDE DEF chunks
  <2>1. chunks * b = (k - 1) * b + (chunks - k + 1) * b
    BY <1>1
  <2>2. (chunks - k + 1) * b >= b
    BY <1>1
  <2>3. (k - 1) * b \in Nat /\ chunks * b \in Nat /\ (chunks - k + 1) * b \in Nat
    BY <1>1
  <2> QED
    BY <1>2, <2>1, <2>2, <2>3
<1> QED
  BY <1>1, <1>2, <1>3

LEMMA Dividing ==
  ASSUME NEW b \in Nat \ {0}, NEW n \in Nat
  PROVE  n \div b \in Nat /\ (n \div b) * b \in Nat /\ (n \div b) * b <= n /\ n < (n \div b) * b + b
OBVIOUS

(* A position is in one chunk. *)
LEMMA OneChunk ==
  ASSUME NEW b \in Nat \ {0}, NEW k \in Nat \ {0}, NEW l \in Nat \ {0}, NEW i \in 1 .. b, NEW j \in 1 .. b,
         (k - 1) * b + i = (l - 1) * b + j
  PROVE  k = l /\ i = j
<1>1. ASSUME NEW m \in Nat \ {0}, NEW n \in Nat \ {0}, m < n
      PROVE  (n - 1) * b >= (m - 1) * b + b
  <2>1. (n - 1) * b = (m - 1) * b + (n - m) * b
    BY <1>1
  <2>2. (n - m) * b >= b
    BY <1>1
  <2> QED
    BY <2>1, <2>2
<1>2. ~ k < l
  BY <1>1
<1>3. ~ l < k
  BY <1>1
<1> QED
  BY <1>2, <1>3

LEMMA ChunksAre ==
  ASSUME NEW items \in Seq(Entry)
  PROVE  LET posts == Chunks(items) IN
         /\ posts \in Seq(Parcel)
         /\ \A k \in DOMAIN posts :
              /\ posts[k].batch = TRUE
              /\ \A a \in DOMAIN posts[k].items :
                   LET n == (k - 1) * BatchMax + a IN
                   a \in 1 .. BatchMax /\ n \in DOMAIN items /\ posts[k].items[a] = items[n]
         /\ \A n \in DOMAIN items : \E k \in DOMAIN posts : \E a \in DOMAIN posts[k].items :
              n = (k - 1) * BatchMax + a
<1> DEFINE posts == Chunks(items)
           many == (Len(items) + BatchMax - 1) \div BatchMax
           High(k) == IF k * BatchMax < Len(items) THEN k * BatchMax ELSE Len(items)
<1>1. BatchMax \in Nat \ {0} /\ Len(items) \in Nat /\ DOMAIN items = 1 .. Len(items)
  BY TelemetryAssumption
<1>2. many \in Nat /\ Len(items) <= many * BatchMax /\ \A k \in 1 .. many : (k - 1) * BatchMax < Len(items)
  BY <1>1, Rounding
<1>3. posts = [k \in 1 .. many |-> [batch |-> TRUE, items |-> SubSeq(items, (k - 1) * BatchMax + 1, High(k))]]
  BY DEF Chunks
<1> HIDE DEF posts, many
<1>4. DOMAIN posts = 1 .. many
  BY <1>3
<1>5. ASSUME NEW k \in 1 .. many
      PROVE  LET low == (k - 1) * BatchMax IN
             /\ posts[k].batch = TRUE /\ posts[k].items \in Seq(Entry)
             /\ DOMAIN posts[k].items = 1 .. High(k) - low
             /\ low \in Nat /\ High(k) \in Nat /\ low < High(k) /\ High(k) <= low + BatchMax /\ High(k) <= Len(items)
             /\ \A a \in 1 .. High(k) - low : posts[k].items[a] = items[low + a]
  <2> DEFINE low == (k - 1) * BatchMax
  <2>1. low \in Nat /\ k * BatchMax = low + BatchMax /\ k \in Nat /\ low < Len(items)
    BY <1>1, <1>2
  <2>2. High(k) \in Nat /\ low < High(k) /\ High(k) <= low + BatchMax /\ High(k) <= Len(items)
    BY <1>1, <2>1
  <2>3. posts[k].batch = TRUE /\ posts[k].items = SubSeq(items, low + 1, High(k))
    BY <1>3
  <2> HIDE DEF low, High
  <2>4. low + 1 \in Int /\ High(k) \in Int /\ low + 1 <= High(k) /\ \A i \in low + 1 .. High(k) : items[i] \in Entry
    BY <1>1, <2>1, <2>2
  <2>5. /\ SubSeq(items, low + 1, High(k)) \in Seq(Entry)
        /\ Len(SubSeq(items, low + 1, High(k))) = High(k) - (low + 1) + 1
        /\ \A a \in 1 .. High(k) - (low + 1) + 1 : SubSeq(items, low + 1, High(k))[a] = items[low + 1 + a - 1]
    BY <2>4, SubSeqProperties
  <2>6. High(k) - (low + 1) + 1 = High(k) - low /\ \A a \in Nat : low + 1 + a - 1 = low + a
    BY <2>1, <2>2
  <2>7. DOMAIN posts[k].items = 1 .. High(k) - low
    <3>1. PICK s \in Seq(Entry) : s = posts[k].items
      BY <2>3, <2>5
    <3>2. Len(s) = High(k) - low
      BY <2>3, <2>5, <2>6, <3>1
    <3> QED
      BY <3>1, <3>2
  <2>8. ASSUME NEW a \in 1 .. High(k) - low PROVE posts[k].items[a] = items[low + a]
    <3>1. a \in 1 .. High(k) - (low + 1) + 1 /\ a \in Nat
      BY <2>1, <2>2, <2>6
    <3>2. SubSeq(items, low + 1, High(k))[a] = items[low + 1 + a - 1]
      BY <2>5, <3>1
    <3> QED
      BY <2>3, <2>6, <3>1, <3>2
  <2> QED
    BY <2>1, <2>2, <2>3, <2>5, <2>7, <2>8 DEF low
<1> HIDE DEF High
<1>6. posts \in Seq(Parcel)
  <2>1. ASSUME NEW k \in 1 .. many PROVE posts[k] \in Parcel
    <3>1. posts[k] = [batch |-> TRUE, items |-> posts[k].items]
      BY <1>3
    <3>2. posts[k].items \in Seq(Entry) /\ posts[k].items # << >>
      <4>1. DOMAIN posts[k].items = 1 .. High(k) - (k - 1) * BatchMax /\ posts[k].items \in Seq(Entry)
            /\ (k - 1) * BatchMax \in Nat /\ High(k) \in Nat /\ (k - 1) * BatchMax < High(k)
        BY <1>5
      <4>2. 1 \in DOMAIN posts[k].items
        BY <4>1
      <4> QED
        BY <4>1, <4>2
    <3>3. PICK s \in Seq(Entry) : s = posts[k].items
      BY <3>2
    <3>4. posts[k] = [batch |-> TRUE, items |-> s] /\ s # << >>
      BY <3>1, <3>2, <3>3
    <3>5. [batch |-> TRUE, items |-> s] \in [batch : BOOLEAN, items : Seq(Entry)]
          /\ [batch |-> TRUE, items |-> s].items = s
      BY <3>3
    <3> QED
      BY <3>4, <3>5 DEF Parcel
  <2> QED
    BY <1>2, <1>3, <2>1
<1>7. ASSUME NEW k \in DOMAIN posts, NEW a \in DOMAIN posts[k].items
      PROVE  LET n == (k - 1) * BatchMax + a IN
             a \in 1 .. BatchMax /\ n \in DOMAIN items /\ posts[k].items[a] = items[n]
  <2> DEFINE low == (k - 1) * BatchMax
  <2>1. /\ posts[k].batch = TRUE /\ DOMAIN posts[k].items = 1 .. High(k) - low
        /\ low \in Nat /\ High(k) \in Nat /\ High(k) <= low + BatchMax /\ High(k) <= Len(items)
        /\ \A b \in 1 .. High(k) - low : posts[k].items[b] = items[low + b]
    BY <1>4, <1>5
  <2> HIDE DEF low
  <2>2. a \in 1 .. BatchMax /\ low + a \in DOMAIN items /\ posts[k].items[a] = items[low + a]
    BY <1>1, <2>1
  <2> QED
    BY <2>2 DEF low
<1>8. ASSUME NEW n \in DOMAIN items
      PROVE  \E k \in DOMAIN posts : \E a \in DOMAIN posts[k].items : n = (k - 1) * BatchMax + a
  <2> DEFINE k == (n - 1) \div BatchMax + 1
             low == (k - 1) * BatchMax
  <2>1. k \in Nat \ {0} /\ n \in Nat \ {0} /\ n <= Len(items)
    BY <1>1
  <2>2. low \in Nat /\ low <= n - 1 /\ n - 1 < low + BatchMax
    <3>1. n - 1 \in Nat
      BY <2>1
    <3>2. PICK d : d = (n - 1) \div BatchMax
      OBVIOUS
    <3>3. d \in Nat /\ d * BatchMax \in Nat /\ d * BatchMax <= n - 1 /\ n - 1 < d * BatchMax + BatchMax
      BY <1>1, <3>1, <3>2, Dividing
    <3>4. k - 1 = d
      BY <3>2, <3>3
    <3> QED
      BY <3>3, <3>4
  <2>3. k * BatchMax = low + BatchMax
    BY <1>1, <2>1
  <2> HIDE DEF k
  <2>4. k <= many
    <3>1. SUFFICES ASSUME many <= k - 1 PROVE FALSE
      BY <1>2, <2>1
    <3>2. many * BatchMax <= low
      <4>1. low = many * BatchMax + (k - 1 - many) * BatchMax
        BY <1>1, <1>2, <2>1
      <4>2. (k - 1 - many) * BatchMax >= 0
        BY <1>1, <1>2, <2>1, <3>1
      <4>3. many * BatchMax \in Nat /\ (k - 1 - many) * BatchMax \in Nat
        BY <1>1, <1>2, <2>1, <3>1
      <4> HIDE DEF low
      <4> QED
        BY <4>1, <4>2, <4>3
    <3>3. many * BatchMax \in Nat
      BY <1>1, <1>2
    <3> HIDE DEF low
    <3> QED
      BY <1>1, <1>2, <2>1, <2>2, <3>2, <3>3
  <2>5. n <= High(k)
    BY <1>1, <2>1, <2>2, <2>3 DEF High
  <2>6. n - low \in DOMAIN posts[k].items
    <3>0. k \in 1 .. many
      BY <1>2, <2>1, <2>4
    <3>1. DOMAIN posts[k].items = 1 .. High(k) - low /\ High(k) \in Nat
      BY <1>5, <3>0
    <3> HIDE DEF low
    <3> QED
      BY <2>1, <2>2, <2>5, <3>1
  <2>7. n = low + (n - low) /\ k \in DOMAIN posts
    BY <1>1, <1>4, <2>1, <2>2, <2>4
  <2> QED
    BY <2>6, <2>7
<1> QED
  BY <1>4, <1>5, <1>6, <1>7, <1>8 DEF posts


-----------------------------------------------------------------------------
(* The shape is kept *)

LEMMA SenderIs == Thread \subseteq Sender /\ Flusher \subseteq Sender /\ \A t \in Thread : t \notin Flusher
BY TelemetryAssumption DEF Sender

LEMMA PostsShape ==
  ASSUME ShapeFit, NEW t \in Thread, NEW items, Posts(t, items)
  PROVE  /\ todo' \in [Sender -> Seq(Parcel)]
         /\ DOMAIN todo'[t] = DOMAIN items
         /\ \A n \in DOMAIN items : todo'[t][n] = [batch |-> FALSE, items |-> <<items[n]>>]
         /\ \A p \in Sender \ {t} : todo'[p] = todo[p]
<1> DEFINE singles == [k \in DOMAIN items |-> [batch |-> FALSE, items |-> <<items[k]>>]]
<1>1. todo \in [Sender -> Seq(Parcel)] /\ t \in Sender /\ items \in Seq(Entry)
      /\ todo' = [todo EXCEPT ![t] = singles]
  BY SenderIs DEF ShapeFit, Posts
<1>2. singles \in Seq(Parcel)
  <2>1. ASSUME NEW k \in DOMAIN items PROVE [batch |-> FALSE, items |-> <<items[k]>>] \in Parcel
    <3>1. PICK e \in Entry : e = items[k]
      BY <1>1
    <3>2. <<e>> \in Seq(Entry) /\ <<e>> # << >>
      BY <3>1
    <3>3. PICK s \in Seq(Entry) : s = <<items[k]>> /\ s # << >>
      BY <3>1, <3>2
    <3>4. [batch |-> FALSE, items |-> s] \in [batch : BOOLEAN, items : Seq(Entry)]
          /\ [batch |-> FALSE, items |-> s].items = s
      BY <3>3
    <3> QED
      BY <3>3, <3>4 DEF Parcel
  <2>2. DOMAIN items = 1 .. Len(items) /\ Len(items) \in Nat
    BY <1>1
  <2> QED
    BY <2>1, <2>2
<1>3. DOMAIN singles = DOMAIN items /\ \A n \in DOMAIN items : singles[n] = [batch |-> FALSE, items |-> <<items[n]>>]
  OBVIOUS
<1> HIDE DEF singles
<1> QED
  BY <1>1, <1>2, <1>3

LEMMA BlockStepShape ==
  ASSUME ShapeFit, NEW t \in Thread, BlockStep(t)
  PROVE  ShapeFit'
<1>1. Goes(t) /\ stack' \in [TraceId -> Seq(SpanId)] /\ pending' \in [SpanId -> Seq(Entry)]
  BY BlockStepMoves
<1>2. BlocksFit'
  BY <1>1, GoesBlocks DEF BlocksFit
<1>3. CASE Passes(t)
  BY <1>2, <1>3 DEF Passes, ShapeFit
<1>4. ASSUME NEW items, Posts(t, items) PROVE ShapeFit'
  <2>1. todo' \in [Sender -> Seq(Parcel)] /\ \A p \in Sender \ {t} : todo'[p] = todo[p]
    BY <1>4, PostsShape
  <2>2. \A f \in started' : todo'[f] = << >>
    BY <1>4, <2>1, SenderIs DEF Posts, ShapeFit
  <2>3. queue' = queue /\ attempt' = attempt /\ started' = started /\ net' = net /\ rows' = rows /\ gone' = gone
    BY <1>4 DEF Posts
  <2> QED
    BY <1>2, <2>1, <2>2, <2>3 DEF ShapeFit
<1> QED
  BY <1>3, <1>4, BlockStepMoves

(* Thread t enqueues item. *)
Puts(t, item) ==
  /\ Goes(t) /\ item \in Entry /\ script[t][next[t]].op = "enqueue"
  /\ item = Item(t, script[t][next[t]].kind, script[t][next[t]].trace, script[t][next[t]].span, Null)
  /\ Push(item)
  /\ started' \subseteq Flusher /\ \A f \in started' : todo[f] = << >>
  /\ todo' = todo /\ attempt' = attempt /\ net' = net /\ rows' = rows
  /\ stack' = stack /\ pending' = pending /\ noop' = noop

LEMMA EnqueuePuts ==
  ASSUME ShapeFit, NEW t \in Thread, Enqueue(t)
  PROVE  \E item : Puts(t, item)
<1> DEFINE c == script[t][next[t]]
           item == Item(t, c.kind, c.trace, c.span, Null)
<1>1. BlocksFit /\ Goes(t) /\ Call(t) = c
  BY ReadyGoes DEF Enqueue, ShapeFit, Call
<1>2. c.op = "enqueue" /\ c.kind \in ItemKind /\ c.trace \in TraceId /\ c.span \in SpanId \cup {Null}
  BY <1>1, ScriptShape DEF Enqueue, Goes
<1>3. item \in Entry
  <2> HIDE DEF c
  <2> QED
    BY <1>1, <1>2, ItemShape
<1>4. Push(item) /\ todo' = todo /\ attempt' = attempt /\ net' = net /\ rows' = rows
      /\ stack' = stack /\ pending' = pending /\ noop' = noop
  BY <1>1 DEF Enqueue, backend
<1>5. started' \subseteq Flusher /\ \A f \in started' : todo[f] = << >>
  BY DEF Enqueue, Resting, ShapeFit
<1> QED
  BY <1>1, <1>2, <1>3, <1>4, <1>5 DEF Puts

LEMMA PutsShape ==
  ASSUME ShapeFit, NEW t \in Thread, NEW item, Puts(t, item)
  PROVE  ShapeFit'
<1>1. BlocksFit'
  BY GoesBlocks DEF Puts, BlocksFit, ShapeFit
<1>2. queue' \in Seq(Entry) /\ Len(queue') <= QueueMax
  <2>1. queue \in Seq(Entry) /\ Len(queue) <= QueueMax /\ QueueMax \in Nat \ {0} /\ item \in Entry
    BY TelemetryAssumption DEF ShapeFit, Puts
  <2>2. CASE Len(queue) = QueueMax
    <3>1. queue' = Append(Tail(queue), item)
      BY <2>2 DEF Puts, Push
    <3>2. Tail(queue) \in Seq(Entry) /\ Len(Tail(queue)) = Len(queue) - 1
      BY <2>1, <2>2
    <3> QED
      BY <2>1, <2>2, <3>1, <3>2
  <2>3. CASE Len(queue) # QueueMax
    BY <2>1, <2>3 DEF Puts, Push
  <2> QED
    BY <2>2, <2>3
<1>3. gone' \in [dropped : SUBSET Entry, lost : SUBSET Entry, answered : SUBSET Entry]
  <2>1. PICK g \in [dropped : SUBSET Entry, lost : SUBSET Entry, answered : SUBSET Entry] : g = gone
    BY DEF ShapeFit
  <2>2. CASE Len(queue) = QueueMax
    <3>1. Head(queue) \in Entry
      BY <2>2, TelemetryAssumption DEF ShapeFit
    <3>2. PICK e \in Entry : e = Head(queue)
      BY <3>1
    <3>3. gone' = [g EXCEPT !.dropped = @ \cup {e}]
      BY <2>1, <2>2, <3>2 DEF Puts, Push
    <3> QED
      BY <3>3
  <2>3. CASE Len(queue) # QueueMax
    BY <2>1, <2>3 DEF Puts, Push
  <2> QED
    BY <2>2, <2>3
<1>4. started' \subseteq Flusher /\ \A f \in started' : todo'[f] = << >>
  BY DEF Puts
<1> QED
  BY <1>1, <1>2, <1>3, <1>4 DEF ShapeFit, Puts

(* Whoever flushes takes the queue. *)
Takes(p) ==
  /\ p \in Sender /\ todo[p] = << >>
  /\ queue' = << >> /\ todo' = [todo EXCEPT ![p] = Chunks(queue)]
  /\ started' \subseteq started \ {p}
  /\ attempt' = attempt /\ net' = net /\ rows' = rows /\ gone' = gone
  /\ stack' = stack /\ pending' = pending /\ noop' = noop

LEMMA FlushTakes ==
  ASSUME ShapeFit, NEW t \in Thread, Flush(t)
  PROVE  Takes(t) /\ Goes(t) /\ script[t][next[t]].op = "flush"
<1>1. Goes(t) /\ Call(t) = script[t][next[t]]
  BY ReadyGoes DEF Flush, Call
<1>2. started' \subseteq started \ {t}
  BY SenderIs DEF Flush, ShapeFit
<1> QED
  BY <1>1, <1>2, SenderIs DEF Flush, TakeQueue, Takes, Goes, backend

LEMMA FlushAsyncTakes ==
  ASSUME ShapeFit, NEW f \in Flusher, FlushAsync(f)
  PROVE  Takes(f) /\ script' = script /\ next' = next
BY SenderIs DEF FlushAsync, TakeQueue, Takes, ShapeFit, backend, blocks

LEMMA TakesShape ==
  ASSUME ShapeFit, NEW p \in Sender, Takes(p), BlocksFit'
  PROVE  ShapeFit'
<1>1. queue \in Seq(Entry) /\ todo \in [Sender -> Seq(Parcel)]
  BY DEF ShapeFit
<1>2. PICK posts \in Seq(Parcel) : posts = Chunks(queue)
  BY <1>1, ChunksAre
<1>3. todo' = [todo EXCEPT ![p] = posts]
  BY <1>2 DEF Takes
<1>4. todo' \in [Sender -> Seq(Parcel)]
  BY <1>1, <1>3
<1>5. started' \subseteq Flusher /\ \A f \in started' : todo'[f] = << >>
  BY <1>1, <1>3, SenderIs DEF ShapeFit, Takes
<1>6. queue' \in Seq(Entry) /\ Len(queue') <= QueueMax
  BY TelemetryAssumption DEF Takes
<1> QED
  BY <1>4, <1>5, <1>6 DEF ShapeFit, Takes

LEMMA StepShape ==
  ASSUME ShapeFit, NEW t \in Thread, Step(t)
  PROVE  ShapeFit'
<1>1. CASE BlockStep(t)
  BY <1>1, BlockStepShape
<1>2. CASE Enqueue(t)
  BY <1>2, EnqueuePuts, PutsShape
<1>3. CASE Flush(t)
  <2>1. BlocksFit'
    BY <1>3, FlushTakes, GoesBlocks DEF Takes, BlocksFit, ShapeFit
  <2> QED
    BY <1>3, <2>1, FlushTakes, TakesShape, SenderIs
<1> QED
  BY <1>1, <1>2, <1>3 DEF Step, BlockStep


LEMMA PostEndsShape ==
  ASSUME ShapeFit, NEW p \in Sender, todo[p] # << >>, NEW outcome \in {"lost", "answered"},
         PostEnds(p, outcome)
  PROVE  /\ todo' = [todo EXCEPT ![p] = Tail(todo[p])] /\ todo' \in [Sender -> Seq(Parcel)]
         /\ \A f \in started : todo'[f] = << >>
         /\ attempt' = [attempt EXCEPT ![p] = 0] /\ attempt' \in [Sender -> Nat]
         /\ gone' \in [dropped : SUBSET Entry, lost : SUBSET Entry, answered : SUBSET Entry]
<1>1. todo \in [Sender -> Seq(Parcel)] /\ attempt \in [Sender -> Nat] /\ \A f \in started : f # p /\ f \in Sender
  BY SenderIs DEF ShapeFit
<1>2. todo' = [todo EXCEPT ![p] = Tail(todo[p])] /\ attempt' = [attempt EXCEPT ![p] = 0]
  BY DEF PostEnds
<1>3. Tail(todo[p]) \in Seq(Parcel) /\ Head(todo[p]) \in Parcel
  BY <1>1
<1>4. gone' \in [dropped : SUBSET Entry, lost : SUBSET Entry, answered : SUBSET Entry]
  <2>1. PICK g \in [dropped : SUBSET Entry, lost : SUBSET Entry, answered : SUBSET Entry] : g = gone
    BY DEF ShapeFit
  <2>2. PICK post \in Parcel : post = Head(todo[p])
    BY <1>3
  <2>3. ToSet(post.items) \subseteq Entry
    BY DEF Parcel, ToSet
  <2>4. gone' = IF post.batch THEN [g EXCEPT ![outcome] = @ \cup ToSet(post.items)] ELSE g
    BY <2>1, <2>2 DEF PostEnds
  <2> QED
    BY <2>3, <2>4
<1>5. \A f \in started : todo'[f] = << >>
  BY <1>1, <1>2 DEF ShapeFit
<1> QED
  BY <1>1, <1>2, <1>3, <1>4, <1>5

LEMMA RetryShape ==
  ASSUME ShapeFit, NEW p \in Sender, todo[p] # << >>, Retry(p)
  PROVE  /\ todo' \in [Sender -> Seq(Parcel)] /\ attempt' \in [Sender -> Nat]
         /\ gone' \in [dropped : SUBSET Entry, lost : SUBSET Entry, answered : SUBSET Entry]
         /\ \A f \in started : todo'[f] = << >>
         /\ \/ PostEnds(p, "lost")
            \/ todo' = todo /\ gone' = gone /\ attempt' = [attempt EXCEPT ![p] = attempt[p] + 1]
<1>1. CASE PostEnds(p, "lost")
  BY <1>1, PostEndsShape
<1>2. CASE attempt' = [attempt EXCEPT ![p] = attempt[p] + 1] /\ UNCHANGED <<todo, gone>>
  BY <1>2 DEF ShapeFit
<1> QED
  BY <1>1, <1>2 DEF Retry

LEMMA RequestShape ==
  ASSUME ShapeFit, NEW p \in Sender, todo[p] # << >>
  PROVE  /\ todo[p][1] = Head(todo[p]) /\ todo[p][1] \in Parcel /\ 1 \in DOMAIN todo[p]
         /\ todo[p][1].items \in Seq(Entry) /\ 1 \in DOMAIN todo[p][1].items
         /\ Request(p, todo[p][1]) \in Carried
         /\ Request(p, todo[p][1]) =
              [items |-> todo[p][1].items, batch |-> todo[p][1].batch,
               tag |-> <<todo[p][1].items[1].id, attempt[p]>>,
               oks |-> << >>, new |-> << >>, http |-> Null]
<1>1. todo[p] \in Seq(Parcel) /\ attempt[p] \in Nat
  BY DEF ShapeFit
<1>2. todo[p][1] = Head(todo[p]) /\ todo[p][1] \in Parcel /\ 1 \in DOMAIN todo[p]
  BY <1>1
<1>3. PICK items \in Seq(Entry) : items = todo[p][1].items /\ items # << >>
  BY <1>2 DEF Parcel
<1>4. PICK batch \in BOOLEAN : batch = todo[p][1].batch
  BY <1>2 DEF Parcel
<1>5. PICK tag \in Tag : tag = <<todo[p][1].items[1].id, attempt[p]>>
  <2>1. items[1] \in Entry
    BY <1>3
  <2>2. items[1].id \in Thread \X Nat
    BY <2>1 DEF Entry
  <2> QED
    BY <1>1, <1>3, <2>2 DEF Tag
<1>6. Request(p, todo[p][1]) =
        [items |-> items, batch |-> batch, tag |-> tag, oks |-> << >>, new |-> << >>, http |-> Null]
  BY <1>3, <1>4, <1>5 DEF Request
<1>7. [items |-> items, batch |-> batch, tag |-> tag, oks |-> << >>, new |-> << >>, http |-> Null] \in Carried
  <2>1. << >> \in Seq(BOOLEAN) /\ << >> \in Seq(Line) /\ Len(<< >>) = 0 /\ Len(items) \in Nat
    BY <1>3
  <2> QED
    BY <1>3, <2>1 DEF Carried
<1> QED
  BY <1>2, <1>3, <1>4, <1>5, <1>6, <1>7

LEMMA Requests ==
  ASSUME ShapeFit, NEW r \in DOMAIN net, net[r] # Null
  PROVE  /\ r \in Sender \cup Late /\ net[r] \in Carried
         /\ net[r].items \in Seq(Entry) /\ 1 \in DOMAIN net[r].items /\ net[r].batch \in BOOLEAN
         /\ net[r].tag \in Tag /\ net[r].oks \in Seq(BOOLEAN) /\ net[r].new \in Seq(Line)
         /\ net[r].http \in {Null, 200, 404, 500, 503}
         /\ Len(net[r].oks) \in Nat /\ Len(net[r].items) \in Nat /\ Len(net[r].oks) <= Len(net[r].items)
         /\ net[r] = [items |-> net[r].items, batch |-> net[r].batch, tag |-> net[r].tag,
                      oks |-> net[r].oks, new |-> net[r].new, http |-> net[r].http]
<1>1. r \in Sender \cup Late /\ net[r] \in Carried
  BY DEF ShapeFit
<1>2. PICK q \in Carried : q = net[r]
  BY <1>1
<1> QED
  BY <1>1, <1>2 DEF Carried

LEMMA LineShape ==
  ASSUME NEW lines \in Seq(Line), NEW n \in DOMAIN lines
  PROVE  lines[n] \in Line /\ lines[n].item \in Entry /\ lines[n].by \in Tag
<1>1. PICK line \in Line : line = lines[n]
  OBVIOUS
<1>2. line.item \in Entry /\ line.by \in Tag
  BY DEF Line
<1> HIDE DEF Line
<1> QED
  BY <1>1, <1>2

LEMMA Parcels ==
  ASSUME ShapeFit, NEW p \in Sender, NEW n \in DOMAIN todo[p]
  PROVE  /\ todo[p][n] \in Parcel /\ todo[p][n].items \in Seq(Entry) /\ todo[p][n].batch \in BOOLEAN
         /\ todo[p][n].items # << >>
<1>1. todo[p] \in Seq(Parcel)
  BY DEF ShapeFit
<1>2. PICK post \in Parcel : post = todo[p][n]
  BY <1>1
<1>3. post.items \in Seq(Entry) /\ post.batch \in BOOLEAN /\ post.items # << >>
  BY DEF Parcel
<1> QED
  BY <1>2, <1>3

LEMMA NetDomain == ASSUME ShapeFit PROVE DOMAIN net = Sender \cup Late
BY DEF ShapeFit

(* What a request becomes. *)
Serves(r, ok, new) ==
  /\ r \in DOMAIN net /\ net[r] # Null /\ net[r].http = Null
  /\ net' = [net EXCEPT ![r] = [items |-> net[r].items, batch |-> net[r].batch, tag |-> net[r].tag,
                                oks |-> Append(net[r].oks, ok), new |-> new, http |-> Null]]

Replies(r, http) ==
  /\ r \in DOMAIN net /\ net[r] # Null /\ net[r].http = Null
  /\ net' = [net EXCEPT ![r] = [items |-> net[r].items, batch |-> net[r].batch, tag |-> net[r].tag,
                                oks |-> net[r].oks, new |-> net[r].new, http |-> http]]

LEMMA CarriedExcept ==
  ASSUME NEW q \in Carried, NEW http, NEW oks, NEW new
  PROVE  /\ [q EXCEPT !.http = http] =
              [items |-> q.items, batch |-> q.batch, tag |-> q.tag, oks |-> q.oks, new |-> q.new, http |-> http]
         /\ [q EXCEPT !.oks = oks, !.new = new] =
              [items |-> q.items, batch |-> q.batch, tag |-> q.tag, oks |-> oks, new |-> new, http |-> q.http]
<1>1. DOMAIN q = {"items", "batch", "tag", "oks", "new", "http"} /\ q = [f \in DOMAIN q |-> q[f]]
  BY DEF Carried
<1>2. [q EXCEPT !.http = http] =
        [items |-> q.items, batch |-> q.batch, tag |-> q.tag, oks |-> q.oks, new |-> q.new, http |-> http]
  BY <1>1
<1>3. PICK served : served = [q EXCEPT !.oks = oks]
  OBVIOUS
<1>4. served = [items |-> q.items, batch |-> q.batch, tag |-> q.tag, oks |-> oks, new |-> q.new, http |-> q.http]
  BY <1>1, <1>3
<1>5. [q EXCEPT !.oks = oks, !.new = new] = [served EXCEPT !.new = new]
  BY <1>3
<1>6. [served EXCEPT !.new = new] =
        [items |-> q.items, batch |-> q.batch, tag |-> q.tag, oks |-> oks, new |-> new, http |-> q.http]
  BY <1>4
<1> QED
  BY <1>2, <1>5, <1>6

ServedItem(r) == net[r].items[Len(net[r].oks) + 1]

Accepted(r) == Accepts(rows \o net[r].new, ServedItem(r)) /\ ServedItem(r).id \notin Rejected

LEMMA ServeItemServes ==
  ASSUME ShapeFit, NEW r \in DOMAIN net, ServeItem(r)
  PROVE  /\ Len(net[r].oks) < Len(net[r].items) /\ ServedItem(r) \in Entry
         /\ Serves(r, Accepted(r),
                   IF Accepted(r) THEN net[r].new \o Writes(r, rows \o net[r].new, ServedItem(r))
                   ELSE net[r].new)
         /\ UNCHANGED <<blocks, buffer, posting, rows>>
<1>1. net[r] # Null /\ net[r].http = Null /\ Len(net[r].oks) < Len(net[r].items)
  BY DEF ServeItem, Serving
<1>2. ServedItem(r) \in Entry
  <2>1. net[r].items \in Seq(Entry) /\ Len(net[r].oks) \in Nat
    BY <1>1, Requests
  <2> QED
    BY <1>1, <2>1 DEF ServedItem
<1>3. PICK ok : ok = Accepted(r)
  OBVIOUS
<1>4. PICK new : new = IF Accepted(r) THEN net[r].new \o Writes(r, rows \o net[r].new, ServedItem(r)) ELSE net[r].new
  OBVIOUS
<1>5. net' = [net EXCEPT ![r].oks = Append(@, ok), ![r].new = new]
  BY <1>3, <1>4 DEF ServeItem, Outcome, Accepted, ServedItem
<1>6. PICK q \in Carried : q = net[r]
  BY <1>1, Requests
<1>7. Serves(r, ok, new)
  <2>1. net' = [net EXCEPT ![r] = [q EXCEPT !.oks = Append(q.oks, ok), !.new = new]]
    BY <1>5, <1>6
  <2>2. [q EXCEPT !.oks = Append(q.oks, ok), !.new = new] =
          [items |-> q.items, batch |-> q.batch, tag |-> q.tag, oks |-> Append(q.oks, ok), new |-> new, http |-> q.http]
    BY CarriedExcept
  <2> QED
    BY <1>1, <1>6, <2>1, <2>2 DEF Serves
<1> QED
  BY <1>1, <1>2, <1>3, <1>4, <1>7 DEF ServeItem

LEMMA CommitReplies ==
  ASSUME ShapeFit, NEW r \in DOMAIN net, Commit(r)
  PROVE  /\ Len(net[r].oks) = Len(net[r].items)
         /\ \/ /\ Replies(r, 200) /\ rows' = rows \o net[r].new
               /\ net[r].batch \/ net[r].oks = <<TRUE>>
            \/ Replies(r, 404) /\ rows' = rows
         /\ UNCHANGED <<blocks, buffer, posting>>
<1>1. net[r] # Null /\ net[r].http = Null /\ ~ Len(net[r].oks) < Len(net[r].items)
  BY DEF Commit, Serving
<1>2. Len(net[r].oks) = Len(net[r].items)
  BY <1>1, Requests
<1>3. ASSUME NEW http, net' = [net EXCEPT ![r].http = http]
      PROVE  Replies(r, http)
  <2>1. PICK q \in Carried : q = net[r]
    BY <1>1, Requests
  <2>2. net' = [net EXCEPT ![r] = [q EXCEPT !.http = http]]
    BY <1>3, <2>1
  <2>3. [q EXCEPT !.http = http] =
              [items |-> q.items, batch |-> q.batch, tag |-> q.tag, oks |-> q.oks, new |-> q.new, http |-> http]
    BY CarriedExcept
  <2> QED
    BY <1>1, <2>1, <2>2, <2>3 DEF Replies
<1> QED
  BY <1>2, <1>3, ZenonT(60) DEF Commit

LEMMA FailReplies ==
  ASSUME ShapeFit, NEW r \in DOMAIN net, Fail(r)
  PROVE  /\ r \in Sender /\ \E http \in {500, 503} : Replies(r, http)
         /\ UNCHANGED <<blocks, buffer, posting, rows>>
<1>1. net[r] # Null /\ net[r].http = Null
  BY DEF Fail, Serving
<1>3. ASSUME NEW http, net' = [net EXCEPT ![r].http = http]
      PROVE  Replies(r, http)
  <2>1. PICK q \in Carried : q = net[r]
    BY <1>1, Requests
  <2>2. net' = [net EXCEPT ![r] = [q EXCEPT !.http = http]]
    BY <1>3, <2>1
  <2>3. [q EXCEPT !.http = http] =
              [items |-> q.items, batch |-> q.batch, tag |-> q.tag, oks |-> q.oks, new |-> q.new, http |-> http]
    BY CarriedExcept
  <2> QED
    BY <1>1, <2>1, <2>2, <2>3 DEF Replies
<1> QED
  BY <1>3 DEF Fail


LEMMA StoredShape ==
  ASSUME NEW item \in Entry, NEW table
  PROVE  /\ Stored(table, item) \in Entry /\ Same(Stored(table, item), item)
         /\ Stored(table, item).trace = item.trace /\ Stored(table, item).span = item.span
         /\ Stored(table, item).parent \in {item.parent, Null}
         /\ item.kind # "span" => Stored(table, item) = item
BY DEF Stored, Entry, Same

LEMMA WritesShape ==
  ASSUME ShapeFit, NEW r \in DOMAIN net, net[r] # Null, NEW item \in Entry, NEW table
  PROVE  LET line == [item |-> Stored(table, item), by |-> net[r].tag] IN
         /\ line \in Line /\ line.item = Stored(table, item) /\ line.by = net[r].tag
         /\ Writes(r, table, item) = IF Known(table, item) THEN << >> ELSE <<line>>
         /\ net[r].new \o Writes(r, table, item) =
              IF Known(table, item) THEN net[r].new ELSE Append(net[r].new, line)
         /\ net[r].new \o Writes(r, table, item) \in Seq(Line)
<1>1. PICK e \in Entry : e = Stored(table, item)
  BY StoredShape
<1>2. PICK tag \in Tag : tag = net[r].tag
  BY Requests
<1>3. PICK line \in Line : line = [item |-> e, by |-> tag]
  BY DEF Line
<1>4. line.item = e /\ line.by = tag
  BY <1>3
<1>5. Writes(r, table, item) = IF Known(table, item) THEN << >> ELSE <<line>>
  BY <1>1, <1>2, <1>3 DEF Writes
<1>6. PICK new \in Seq(Line) : new = net[r].new
  BY Requests
<1>7. new \o << >> = new /\ new \o <<line>> = Append(new, line) /\ Append(new, line) \in Seq(Line)
  BY <1>6, ConcatEmptySeq, AppendIsConcat, AppendProperties
<1>8. new \o Writes(r, table, item) = IF Known(table, item) THEN new ELSE Append(new, line)
  BY <1>5, <1>7
<1>9. new \o Writes(r, table, item) \in Seq(Line)
  BY <1>6, <1>7, <1>8
<1>10. [item |-> Stored(table, item), by |-> net[r].tag] = line
  BY <1>1, <1>2, <1>3
<1> HIDE DEF Line
<1> QED
  BY <1>1, <1>2, <1>3, <1>4, <1>5, <1>6, <1>8, <1>9, <1>10

LEMMA ServesShape ==
  ASSUME ShapeFit, NEW r \in DOMAIN net, Len(net[r].oks) < Len(net[r].items),
         NEW ok \in BOOLEAN, NEW new \in Seq(Line), Serves(r, ok, new)
  PROVE  /\ net' \in [Sender \cup Late -> Carried \cup {Null}]
         /\ net'[r] # Null /\ net'[r].items = net[r].items /\ net'[r].batch = net[r].batch
         /\ net'[r].tag = net[r].tag
         /\ net'[r].http = Null /\ net'[r].oks = Append(net[r].oks, ok) /\ net'[r].new = new
         /\ \A p \in Sender \cup Late : p # r => net'[p] = net[p]
<1>1. PICK q \in Carried : q = net[r] /\ Len(q.oks) < Len(q.items)
  BY Requests DEF Serves
<1>2. q.items \in Seq(Entry) /\ q.items # << >> /\ q.batch \in BOOLEAN /\ q.tag \in Tag
      /\ q.oks \in Seq(BOOLEAN) /\ Len(q.items) \in Nat
  BY DEF Carried
<1>3. PICK oks \in Seq(BOOLEAN) : oks = Append(q.oks, ok) /\ Len(oks) <= Len(q.items)
  <2>1. Append(q.oks, ok) \in Seq(BOOLEAN) /\ Len(Append(q.oks, ok)) = Len(q.oks) + 1 /\ Len(q.oks) \in Nat
    BY <1>2, AppendProperties
  <2>2. Len(q.oks) + 1 <= Len(q.items)
    BY <1>1, <1>2, <2>1
  <2> QED
    BY <2>1, <2>2
<1>4. PICK w : w = [items |-> q.items, batch |-> q.batch, tag |-> q.tag, oks |-> oks, new |-> new, http |-> Null]
  OBVIOUS
<1>5. w \in Carried
  BY <1>2, <1>3, <1>4 DEF Carried
<1>6. net' = [net EXCEPT ![r] = w]
  BY <1>1, <1>3, <1>4 DEF Serves
<1>7. net \in [Sender \cup Late -> Carried \cup {Null}]
  BY DEF ShapeFit
<1>8. net' \in [Sender \cup Late -> Carried \cup {Null}] /\ net'[r] = w
      /\ \A p \in Sender \cup Late : p # r => net'[p] = net[p]
  BY <1>5, <1>6, <1>7
<1>9. w # Null
  BY <1>5, TelemetryAssumption
<1> QED
  BY <1>1, <1>3, <1>4, <1>8, <1>9

LEMMA RepliesShape ==
  ASSUME ShapeFit, NEW r \in DOMAIN net, NEW http \in {200, 404, 500, 503}, Replies(r, http)
  PROVE  /\ net' \in [Sender \cup Late -> Carried \cup {Null}]
         /\ net'[r] # Null /\ net'[r].items = net[r].items /\ net'[r].batch = net[r].batch
         /\ net'[r].tag = net[r].tag
         /\ net'[r].http = http /\ net'[r].oks = net[r].oks /\ net'[r].new = net[r].new
         /\ \A p \in Sender \cup Late : p # r => net'[p] = net[p]
<1>1. PICK q \in Carried : q = net[r]
  BY Requests DEF Replies
<1>2. q.items \in Seq(Entry) /\ q.items # << >> /\ q.batch \in BOOLEAN /\ q.tag \in Tag
      /\ q.oks \in Seq(BOOLEAN) /\ q.new \in Seq(Line) /\ Len(q.oks) <= Len(q.items)
  BY DEF Carried
<1> DEFINE w == [items |-> q.items, batch |-> q.batch, tag |-> q.tag, oks |-> q.oks, new |-> q.new, http |-> http]
<1>3. /\ w.items = q.items /\ w.batch = q.batch /\ w.tag = q.tag
      /\ w.oks = q.oks /\ w.new = q.new /\ w.http = http
  OBVIOUS
<1>4. w \in Carried
  BY <1>2 DEF Carried
<1>5. net' = [net EXCEPT ![r] = w]
  BY <1>1 DEF Replies
<1> HIDE DEF w
<1>6. net \in [Sender \cup Late -> Carried \cup {Null}]
  BY DEF ShapeFit
<1>7. net' \in [Sender \cup Late -> Carried \cup {Null}] /\ net'[r] = w
      /\ \A p \in Sender \cup Late : p # r => net'[p] = net[p]
  BY <1>4, <1>5, <1>6
<1>8. w # Null
  BY <1>4, TelemetryAssumption
<1> QED
  BY <1>1, <1>3, <1>7, <1>8

(* What becomes of a post: it is over, or goes on. *)
Settles(p) ==
  \/ \E outcome \in {"lost", "answered"} : PostEnds(p, outcome)
  \/ todo' = todo /\ gone' = gone /\ attempt' = [attempt EXCEPT ![p] = attempt[p] + 1]

Kept == script' = script /\ next' = next /\ noop' = noop /\ stack' = stack /\ pending' = pending

(* The three things that a sender does. *)
LEMMA SendIs ==
  ASSUME ShapeFit, NEW p \in Sender, Send(p)
  PROVE  /\ todo[p] # << >> /\ net[p] = Null /\ Kept /\ queue' = queue /\ started' = started /\ rows' = rows
         /\ \/ PostEnds(p, "lost") /\ net' = net
            \/ /\ net' = [net EXCEPT ![p] = Request(p, todo[p][1])]
               /\ todo' = todo /\ attempt' = attempt /\ gone' = gone
BY RequestShape DEF Send, Posting, Kept, blocks, buffer

LEMMA TimeOutIs ==
  ASSUME ShapeFit, NEW p \in Sender, TimeOut(p)
  PROVE  /\ todo[p] # << >> /\ net[p] # Null /\ Kept /\ queue' = queue /\ started' = started /\ rows' = rows
         /\ Settles(p)
         /\ \/ net[p].http # 200 /\ net' = [net EXCEPT ![p] = Null]
            \/ \E l \in Late : net[l] = Null /\ net' = [net EXCEPT ![p] = Null, ![l] = net[p]]
<1>1. todo[p] # << >> /\ Retry(p)
  BY DEF TimeOut, Posting
<1>2. Settles(p)
  BY <1>1, RetryShape DEF Settles
<1> QED
  BY <1>1, <1>2 DEF TimeOut, Kept, blocks, buffer

LEMMA AnsweredIs ==
  ASSUME ShapeFit, NEW p \in Sender, Answered(p)
  PROVE  /\ todo[p] # << >> /\ net[p] # Null /\ Kept /\ queue' = queue /\ started' = started /\ rows' = rows
         /\ net' = [net EXCEPT ![p] = Null]
         /\ Settles(p)
         /\ net[p].http = 200 => PostEnds(p, "answered")
<1>1. todo[p] # << >> /\ (net[p].http = 503 => Retry(p)) /\ (net[p].http # 503 => PostEnds(p, "answered"))
  BY DEF Answered, Posting
<1>2. Settles(p)
  BY <1>1, RetryShape DEF Settles
<1> QED
  BY <1>1, <1>2 DEF Answered, Kept, blocks, buffer

LEMMA SettlesShape ==
  ASSUME ShapeFit, NEW p \in Sender, todo[p] # << >>, Settles(p)
  PROVE  /\ todo' \in [Sender -> Seq(Parcel)] /\ attempt' \in [Sender -> Nat]
         /\ gone' \in [dropped : SUBSET Entry, lost : SUBSET Entry, answered : SUBSET Entry]
         /\ \A f \in started : todo'[f] = << >>
         /\ todo' = todo \/ todo' = [todo EXCEPT ![p] = Tail(todo[p])]
<1>1. CASE \E outcome \in {"lost", "answered"} : PostEnds(p, outcome)
  BY <1>1, PostEndsShape
<1>2. CASE todo' = todo /\ gone' = gone /\ attempt' = [attempt EXCEPT ![p] = attempt[p] + 1]
  BY <1>2 DEF ShapeFit
<1> QED
  BY <1>1, <1>2 DEF Settles

LEMMA KeptBlocks == ASSUME ShapeFit, Kept PROVE BlocksFit'
BY DEF ShapeFit, Kept, BlocksFit

LEMMA PostShape ==
  ASSUME ShapeFit, NEW p \in Sender, Post(p)
  PROVE  ShapeFit'
<1>0. net \in [Sender \cup Late -> Carried \cup {Null}]
  BY DEF ShapeFit
<1>1. CASE Send(p)
  <2>1. todo[p] # << >> /\ Kept /\ queue' = queue /\ started' = started /\ rows' = rows
    BY <1>1, SendIs
  <2>2. BlocksFit'
    BY <2>1, KeptBlocks
  <2>3. CASE PostEnds(p, "lost") /\ net' = net
    <3>1. Settles(p)
      BY <2>3 DEF Settles
    <3> QED
      BY <2>1, <2>2, <2>3, <3>1, SettlesShape DEF ShapeFit
  <2>4. CASE /\ net' = [net EXCEPT ![p] = Request(p, todo[p][1])]
             /\ todo' = todo /\ attempt' = attempt /\ gone' = gone
    <3>1. Request(p, todo[p][1]) \in Carried
      BY <2>1, RequestShape
    <3>2. net' \in [Sender \cup Late -> Carried \cup {Null}]
      BY <1>0, <2>4, <3>1
    <3> QED
      BY <2>1, <2>2, <2>4, <3>2 DEF ShapeFit
  <2> QED
    BY <1>1, <2>3, <2>4, SendIs
<1>2. CASE TimeOut(p) \/ Answered(p)
  <2>1. todo[p] # << >> /\ Kept /\ queue' = queue /\ started' = started /\ rows' = rows /\ Settles(p)
    BY <1>2, TimeOutIs, AnsweredIs
  <2>2. BlocksFit'
    BY <2>1, KeptBlocks
  <2>3. net' \in [Sender \cup Late -> Carried \cup {Null}]
    <3>1. net[p] \in Carried \cup {Null}
      BY <1>0
    <3>2. CASE net' = [net EXCEPT ![p] = Null]
      BY <1>0, <3>2
    <3>3. CASE \E l \in Late : net' = [net EXCEPT ![p] = Null, ![l] = net[p]]
      BY <1>0, <3>1, <3>3
    <3> QED
      BY <1>2, <3>2, <3>3, TimeOutIs, AnsweredIs
  <2> QED
    BY <2>1, <2>2, <2>3, SettlesShape DEF ShapeFit
<1> QED
  BY <1>1, <1>2 DEF Post

LEMMA ServeStepShape ==
  ASSUME ShapeFit, NEW r \in DOMAIN net, ServeItem(r) \/ Commit(r) \/ Fail(r)
  PROVE  ShapeFit'
<1>1. CASE ServeItem(r)
  <2> DEFINE new == IF Accepted(r) THEN net[r].new \o Writes(r, rows \o net[r].new, ServedItem(r)) ELSE net[r].new
  <2>1. /\ Len(net[r].oks) < Len(net[r].items) /\ ServedItem(r) \in Entry
        /\ Serves(r, Accepted(r), new)
        /\ UNCHANGED <<blocks, buffer, posting, rows>>
    BY <1>1, ServeItemServes
  <2>2. new \in Seq(Line) /\ net[r] # Null
    BY <2>1, WritesShape, Requests, ZenonT(60) DEF Serves
  <2>3. Accepted(r) \in BOOLEAN
    BY DEF Accepted, Accepts, One, ServedItem
  <2> HIDE DEF new
  <2>4. net' \in [Sender \cup Late -> Carried \cup {Null}]
    BY <2>1, <2>2, <2>3, ServesShape
  <2> QED
    BY <2>1, <2>4 DEF ShapeFit, BlocksFit, blocks, buffer, posting
<1>2. CASE Commit(r)
  <2>1. UNCHANGED <<blocks, buffer, posting>>
    BY <1>2, CommitReplies
  <2>2. net' \in [Sender \cup Late -> Carried \cup {Null}]
    <3>1. Replies(r, 200) \/ Replies(r, 404)
      BY <1>2, CommitReplies
    <3>2. ASSUME NEW http \in {200, 404, 500, 503}, Replies(r, http)
          PROVE  net' \in [Sender \cup Late -> Carried \cup {Null}]
      BY <3>2, RepliesShape, SMTT(30)
    <3> QED
      BY <3>1, <3>2
  <2>3. rows' \in Seq(Line)
    <3>1. net[r].new \in Seq(Line) /\ rows \in Seq(Line)
      BY <1>2, Requests DEF Commit, Serving, ShapeFit
    <3>2. rows \o net[r].new \in Seq(Line)
      BY <3>1, ConcatProperties
    <3> QED
      BY <1>2, <3>1, <3>2, CommitReplies
  <2> QED
    BY <2>1, <2>2, <2>3 DEF ShapeFit, BlocksFit, blocks, buffer, posting
<1>3. CASE Fail(r)
  <2>1. UNCHANGED <<blocks, buffer, posting, rows>>
    BY <1>3, FailReplies
  <2>2. net' \in [Sender \cup Late -> Carried \cup {Null}]
    BY <1>3, FailReplies, RepliesShape, SMTT(30)
  <2> QED
    BY <2>1, <2>2 DEF ShapeFit, BlocksFit, blocks, buffer, posting
<1> QED
  BY <1>1, <1>2, <1>3

LEMMA NextShape ==
  ASSUME ShapeFit, [Next]_vars
  PROVE  ShapeFit'
<1>1. CASE UNCHANGED vars
  BY <1>1 DEF vars, ShapeFit, BlocksFit
<1>2. ASSUME NEW f \in Flusher, FlushAsync(f) PROVE ShapeFit'
  <2>1. Takes(f) /\ BlocksFit'
    BY <1>2, FlushAsyncTakes DEF Takes, BlocksFit, ShapeFit
  <2> QED
    BY <2>1, TakesShape, SenderIs
<1> QED
  BY <1>1, <1>2, StepShape, PostShape, ServeStepShape DEF Next

LEMMA InitShape ==
  ASSUME Init
  PROVE  ShapeFit
<1>1. BlocksFit
  <2>1. ASSUME NEW t \in Thread PROVE 1 <= Len(script[t]) + 1
    <3>1. Len(script[t]) \in Nat
      BY ProgramsAssumption DEF Init
    <3> QED
      BY <3>1
  <2>2. script \in Scripts /\ next \in [Thread -> Nat \ {0}] /\ \A t \in Thread : next[t] = 1
    BY DEF Init
  <2>3. stack \in [TraceId -> Seq(SpanId)] /\ pending \in [SpanId -> Seq(Entry)]
    BY DEF Init
  <2> QED
    BY <2>1, <2>2, <2>3 DEF BlocksFit
<1>2. queue \in Seq(Entry) /\ Len(queue) <= QueueMax /\ rows \in Seq(Line)
  BY TelemetryAssumption DEF Init
<1>3. todo \in [Sender -> Seq(Parcel)] /\ attempt \in [Sender -> Nat]
      /\ net \in [Sender \cup Late -> Carried \cup {Null}]
  BY DEF Init
<1> QED
  BY <1>1, <1>2, <1>3 DEF Init, ShapeFit


-----------------------------------------------------------------------------
(* The stack holds the blocks that are open *)

LEMMA AroundIsOpened ==
  ASSUME NEW t, NEW k, NEW trace
  PROVE  OpenAround(t, k, trace) = Opened(script[t], k, trace)
BY DEF OpenAround, Opened

LEMMA OpenedNext ==
  ASSUME NEW calls, NEW k \in Nat \ {0}, NEW trace
  PROVE  /\ calls[k].op = "span" /\ calls[k].trace = trace =>
              Opened(calls, k + 1, trace) = Opened(calls, k, trace) \cup {k}
         /\ ~ (calls[k].op = "span" /\ calls[k].trace = trace) =>
              Opened(calls, k + 1, trace) =
                {j \in Opened(calls, k, trace) : ~ Leaves(calls, k, calls[j].span)}
<1>1. \A j \in 1 .. k - 1 : \A l : l \in j .. k + 1 - 1 <=> l \in j .. k - 1 \/ l = k
  OBVIOUS
<1>2. \A l : l \in k .. k + 1 - 1 <=> l = k
  OBVIOUS
<1>3. \A j : j \in 1 .. k + 1 - 1 <=> j \in 1 .. k - 1 \/ j = k
  OBVIOUS
<1>4. calls[k].op = "span" => \A span : ~ Leaves(calls, k, span)
  BY DEF Leaves
<1>5. CASE calls[k].op = "span" /\ calls[k].trace = trace
  BY <1>1, <1>2, <1>3, <1>4, <1>5 DEF Opened
<1>6. CASE ~ (calls[k].op = "span" /\ calls[k].trace = trace)
  BY <1>1, <1>3, <1>6 DEF Opened
<1> QED
  BY <1>5, <1>6

LEMMA TracksOpen ==
  ASSUME NEW calls, NEW k \in Nat \ {0}, NEW trace, NEW f, NEW spans \in Seq(SpanId),
         Tracks(f, spans, calls, Opened(calls, k, trace)),
         calls[k].op = "span", calls[k].trace = trace, calls[k].span \in SpanId
  PROVE  Tracks(Append(f, k), Append(spans, calls[k].span), calls, Opened(calls, k + 1, trace))
<1> DEFINE g == Append(f, k)
           new == Append(spans, calls[k].span)
<1>1. f \in Seq(Nat) /\ Len(f) = Len(spans) /\ Len(f) \in Nat /\ DOMAIN f = 1 .. Len(f)
  BY DEF Tracks
<1>2. g \in Seq(Nat) /\ Len(g) = Len(f) + 1 /\ DOMAIN g = 1 .. Len(f) + 1 /\ g[Len(f) + 1] = k
      /\ \A i \in DOMAIN f : g[i] = f[i]
  BY <1>1
<1>3. Len(new) = Len(f) + 1 /\ new[Len(f) + 1] = calls[k].span /\ \A i \in DOMAIN f : new[i] = spans[i]
  BY <1>1
<1> HIDE DEF g, new
<1>4. Opened(calls, k + 1, trace) = Opened(calls, k, trace) \cup {k}
  BY OpenedNext
<1>5. \A i \in DOMAIN f : f[i] \in Opened(calls, k, trace) /\ f[i] < k
  BY DEF Tracks, Opened
<1>6. \A i \in DOMAIN g : i \in DOMAIN f \/ i = Len(f) + 1
  BY <1>1, <1>2
<1>7. \A i \in DOMAIN g : new[i] = calls[g[i]].span
  BY <1>2, <1>3, <1>6 DEF Tracks
<1>8. \A i, j \in DOMAIN g : i < j => g[i] < g[j]
  <2> SUFFICES ASSUME NEW i \in DOMAIN g, NEW j \in DOMAIN g, i < j PROVE g[i] < g[j]
    OBVIOUS
  <2>1. i \in DOMAIN f
    BY <1>1, <1>2
  <2> QED
    BY <1>1, <1>2, <1>5, <1>6, <2>1 DEF Tracks
<1>9. \A i \in DOMAIN g : g[i] \in Opened(calls, k + 1, trace)
  BY <1>2, <1>4, <1>5, <1>6
<1>10. \A m \in Opened(calls, k + 1, trace) : \E i \in DOMAIN g : g[i] = m
  <2> SUFFICES ASSUME NEW m \in Opened(calls, k + 1, trace) PROVE \E i \in DOMAIN g : g[i] = m
    OBVIOUS
  <2>1. CASE m = k
    <3>1. Len(f) + 1 \in DOMAIN g
      BY <1>1, <1>2
    <3> QED
      BY <1>2, <2>1, <3>1
  <2>2. CASE m # k
    <3>1. PICK i \in DOMAIN f : f[i] = m
      BY <1>4, <2>2 DEF Tracks
    <3>2. i \in DOMAIN g
      BY <1>1, <1>2
    <3> QED
      BY <1>2, <3>1, <3>2
  <2> QED
    BY <2>1, <2>2
<1>11. Tracks(g, new, calls, Opened(calls, k + 1, trace))
  BY <1>1, <1>2, <1>3, <1>7, <1>8, <1>9, <1>10 DEF Tracks
<1> QED
  BY <1>11 DEF g, new

OneEach(calls, k) ==
  \A i, j \in 1 .. k :
    calls[i].op = calls[j].op /\ calls[i].op \in {"span", "leave"} /\ calls[i].span = calls[j].span => i = j

(* A span that is left is the last that was entered. *)
LEMMA TracksLeave ==
  ASSUME NEW calls, NEW k \in Nat \ {0}, NEW trace, NEW f, NEW spans \in Seq(SpanId),
         Tracks(f, spans, calls, Opened(calls, k, trace)),
         calls[k].op = "leave", calls[k].trace = trace, Nested(calls, k), Null \notin SpanId,
         OneEach(calls, k)
  PROVE  /\ Parent(spans) = calls[k].span /\ Len(spans) > 0
         /\ Tracks(Front(f), Front(spans), calls, Opened(calls, k + 1, trace))
<1>1. f \in Seq(Nat) /\ Len(f) = Len(spans) /\ Len(f) \in Nat /\ DOMAIN f = 1 .. Len(f)
  BY DEF Tracks
<1>2. PICK j \in 1 .. k - 1 :
        /\ calls[j].op = "span" /\ calls[j].span = calls[k].span /\ calls[j].trace = trace
        /\ \A i \in j + 1 .. k - 1 :
             calls[i].op = "span" /\ calls[i].trace = trace =>
               \E l \in i .. k - 1 : Leaves(calls, l, calls[i].span)
  BY DEF Nested
<1>3. j \in Opened(calls, k, trace)
  <2>1. ASSUME NEW l \in j .. k - 1, Leaves(calls, l, calls[j].span) PROVE FALSE
    <3>1. l \in 1 .. k /\ k \in 1 .. k /\ l # k
      OBVIOUS
    <3> QED
      BY <1>2, <2>1, <3>1 DEF Leaves, OneEach
  <2> QED
    BY <1>2, <2>1 DEF Opened
<1>4. PICK n \in DOMAIN f : f[n] = j
  BY <1>3 DEF Tracks
<1>5. n = Len(f)
  <2>1. SUFFICES ASSUME n < Len(f) PROVE FALSE
    BY <1>1
  <2>2. Len(f) \in DOMAIN f /\ n < Len(f)
    BY <1>1, <2>1
  <2>3. j < f[Len(f)] /\ f[Len(f)] \in Opened(calls, k, trace)
    BY <1>4, <2>2 DEF Tracks
  <2>4. PICK m : m = f[Len(f)]
    OBVIOUS
  <2>5. /\ m \in j + 1 .. k - 1 /\ calls[m].op = "span" /\ calls[m].trace = trace
        /\ ~ \E l \in m .. k - 1 : Leaves(calls, l, calls[m].span)
    BY <2>3, <2>4 DEF Opened
  <2> QED
    BY <1>2, <2>5
<1> DEFINE g == Front(f)
           rest == Front(spans)
<1>6. /\ g \in Seq(Nat) /\ Len(g) = Len(f) - 1 /\ DOMAIN g = 1 .. Len(f) - 1
      /\ \A i \in DOMAIN g : g[i] = f[i]
      /\ Len(rest) = Len(f) - 1 /\ \A i \in DOMAIN g : rest[i] = spans[i]
  <2>1. Len(f) - 1 \in Nat /\ \A i \in 1 .. Len(f) - 1 : f[i] \in Nat /\ spans[i] \in SpanId
    BY <1>1, <1>4, <1>5
  <2>2. g = [i \in 1 .. Len(f) - 1 |-> f[i]] /\ rest = [i \in 1 .. Len(f) - 1 |-> spans[i]]
    BY <1>1, <2>1 DEF Front
  <2> HIDE DEF g, rest
  <2> QED
    BY <2>1, <2>2
<1>7. Parent(spans) = calls[k].span /\ Len(spans) > 0
  <2>1. spans # << >> /\ spans[Len(spans)] = calls[j].span
    BY <1>1, <1>4, <1>5 DEF Tracks
  <2>2. Len(spans) > 0
    BY <1>1, <1>4, <1>5
  <2> QED
    BY <1>2, <2>1, <2>2 DEF Parent, Last
<1>8. \A m : m \in Opened(calls, k + 1, trace) <=> m \in Opened(calls, k, trace) /\ m # j
  <2>1. Opened(calls, k + 1, trace) = {m \in Opened(calls, k, trace) : ~ Leaves(calls, k, calls[m].span)}
    BY OpenedNext
  <2>2. ASSUME NEW m \in Opened(calls, k, trace) PROVE Leaves(calls, k, calls[m].span) <=> m = j
    <3>1. m \in 1 .. k /\ j \in 1 .. k /\ calls[m].op = "span"
      BY DEF Opened
    <3> QED
      BY <1>2, <3>1 DEF Leaves, OneEach
  <2> QED
    BY <2>1, <2>2
<1> HIDE DEF g, rest
<1>9. \A i \in DOMAIN g : i \in DOMAIN f /\ i < Len(f) /\ f[i] # j
  <2> SUFFICES ASSUME NEW i \in DOMAIN g PROVE i \in DOMAIN f /\ i < Len(f) /\ f[i] # j
    OBVIOUS
  <2>1. i \in DOMAIN f /\ i < Len(f) /\ Len(f) \in DOMAIN f
    BY <1>1, <1>4, <1>5, <1>6
  <2>2. f[i] < f[Len(f)] /\ f[i] \in Nat
    BY <1>1, <2>1 DEF Tracks
  <2> QED
    BY <1>4, <1>5, <2>1, <2>2
<1>10. \A m \in Opened(calls, k + 1, trace) : \E i \in DOMAIN g : g[i] = m
  <2> SUFFICES ASSUME NEW m \in Opened(calls, k + 1, trace) PROVE \E i \in DOMAIN g : g[i] = m
    OBVIOUS
  <2>1. PICK i \in DOMAIN f : f[i] = m
    BY <1>8 DEF Tracks
  <2>2. i # Len(f)
    BY <1>4, <1>5, <1>8, <2>1
  <2>3. i \in DOMAIN g
    BY <1>1, <1>6, <2>2
  <2> QED
    BY <1>6, <2>1, <2>3
<1>11. \A i, m \in DOMAIN g : i < m => g[i] < g[m]
  BY <1>6, <1>9 DEF Tracks
<1>12. \A i \in DOMAIN g : g[i] \in Opened(calls, k + 1, trace) /\ rest[i] = calls[g[i]].span
  BY <1>6, <1>8, <1>9 DEF Tracks
<1>13. Tracks(g, rest, calls, Opened(calls, k + 1, trace))
  BY <1>1, <1>6, <1>10, <1>11, <1>12 DEF Tracks
<1> QED
  BY <1>7, <1>13 DEF g, rest

(* The parent of the next span is the innermost block around it. *)
LEMMA TracksParent ==
  ASSUME NEW calls, NEW open, NEW f, NEW spans \in Seq(SpanId), Tracks(f, spans, calls, open),
         open \subseteq Nat, Parent(spans) # Null
  PROVE  \E j \in open : Innermost(j, open) /\ Parent(spans) = calls[j].span
<1>1. f \in Seq(Nat) /\ Len(f) = Len(spans) /\ Len(f) \in Nat /\ DOMAIN f = 1 .. Len(f)
  BY DEF Tracks
<1>2. spans # << >> /\ Parent(spans) = spans[Len(spans)]
  BY DEF Parent, Last
<1>3. Len(f) \in DOMAIN f
  BY <1>1, <1>2
<1>4. f[Len(f)] \in open /\ spans[Len(f)] = calls[f[Len(f)]].span
  BY <1>3 DEF Tracks
<1>5. \A i \in open : i <= f[Len(f)]
  <2> SUFFICES ASSUME NEW i \in open PROVE i <= f[Len(f)]
    OBVIOUS
  <2>1. PICK n \in DOMAIN f : f[n] = i
    BY DEF Tracks
  <2>2. n = Len(f) \/ f[n] < f[Len(f)]
    BY <1>1, <1>3 DEF Tracks
  <2> QED
    BY <1>1, <1>3, <2>1, <2>2
<1> QED
  BY <1>1, <1>2, <1>4, <1>5 DEF Innermost


(* The block of a span is of one trace. *)
LEMMA LeavesOwn ==
  ASSUME BlocksFit, NEW t \in Thread, NEW k \in DOMAIN script[t], script[t][k].op = "leave",
         NEW j \in DOMAIN script[t], script[t][j].op = "span", script[t][j].span = script[t][k].span
  PROVE  script[t][j].trace = script[t][k].trace
<1>1. PICK i \in 1 .. k - 1 :
        script[t][i].op = "span" /\ script[t][i].span = script[t][k].span /\ script[t][i].trace = script[t][k].trace
  BY ScriptShape DEF Nested
<1>2. i \in DOMAIN script[t]
  BY ScriptShape
<1>3. i = j
  BY <1>1, <1>2, OneBlock
<1> QED
  BY <1>1, <1>3

(* Calls on other traces leave the blocks of a trace alone, and so do      *)
(* calls that neither enter nor leave one.                                 *)
LEMMA OpenedStays ==
  ASSUME BlocksFit, NEW t \in Thread, NEW k \in DOMAIN script[t], NEW trace,
         script[t][k].op \in {"span", "leave"} => script[t][k].trace # trace
  PROVE  Opened(script[t], k + 1, trace) = Opened(script[t], k, trace)
<1>1. k \in Nat \ {0} /\ DOMAIN script[t] = 1 .. Len(script[t]) /\ Len(script[t]) \in Nat
  BY ScriptShape
<1>2. Opened(script[t], k + 1, trace) =
        {j \in Opened(script[t], k, trace) : ~ Leaves(script[t], k, script[t][j].span)}
  BY <1>1, OpenedNext
<1>3. ASSUME NEW j \in Opened(script[t], k, trace), Leaves(script[t], k, script[t][j].span) PROVE FALSE
  <2>1. j \in DOMAIN script[t] /\ script[t][j].op = "span" /\ script[t][j].trace = trace
    BY <1>1 DEF Opened
  <2>2. script[t][k].op = "leave" /\ script[t][j].span = script[t][k].span
    BY <1>3 DEF Leaves
  <2> QED
    BY <2>1, <2>2, LeavesOwn
<1> QED
  BY <1>2, <1>3

(* The stacks of the other traces, when thread t makes a call on c.trace.  *)
LEMMA StacksElsewhere ==
  ASSUME ShapeFit, StacksFit, NEW t \in Thread, Goes(t), noop \subseteq noop',
         NEW u \in Thread, NEW trace \in TraceId, Owns(u, trace), trace \notin noop',
         stack'[trace] = stack[trace],
         u = t /\ script[t][next[t]].op \in {"span", "leave"} => script[t][next[t]].trace # trace
  PROVE  \E f : Tracks(f, stack'[trace], script'[u], Opened(script'[u], next'[u], trace))
<1>1. BlocksFit /\ script' = script /\ next \in [Thread -> Nat \ {0}]
  BY DEF ShapeFit, Goes, BlocksFit
<1>2. PICK f : Tracks(f, stack[trace], script[u], Opened(script[u], next[u], trace))
  BY DEF StacksFit
<1>3. CASE u = t
  <2>1. next'[u] = next[t] + 1 /\ next[t] \in DOMAIN script[t]
    BY <1>1, <1>3 DEF Goes
  <2>2. Opened(script[u], next[t] + 1, trace) = Opened(script[u], next[t], trace)
    BY <1>1, <1>3, <2>1, OpenedStays
  <2> QED
    BY <1>1, <1>2, <1>3, <2>1, <2>2
<1>4. CASE u # t
  <2>1. next'[u] = next[u]
    BY <1>1, <1>4 DEF Goes
  <2> QED
    BY <1>1, <1>2, <2>1
<1> QED
  BY <1>3, <1>4

LEMMA SameStacks ==
  ASSUME ShapeFit, StacksFit, NEW t \in Thread, Goes(t), noop \subseteq noop', stack' = stack,
         script[t][next[t]].op \in {"span", "leave"} => script[t][next[t]].trace \in noop'
  PROVE  StacksFit'
<1>1. script' = script
  BY DEF Goes
<1> SUFFICES ASSUME NEW u \in Thread, NEW trace \in TraceId, Owns(u, trace), trace \notin noop'
             PROVE  \E f : Tracks(f, stack'[trace], script'[u], Opened(script'[u], next'[u], trace))
  BY <1>1 DEF StacksFit, Owns
<1> QED
  BY StacksElsewhere

LEMMA OpenSpanStacks ==
  ASSUME ShapeFit, StacksFit, NEW t \in Thread, OpenSpan(t)
  PROVE  StacksFit'
<1> DEFINE c == script[t][next[t]]
<1>1. /\ Goes(t) /\ c.op = "span" /\ c.trace \notin noop /\ noop' = noop
      /\ stack' = [stack EXCEPT ![c.trace] = Append(stack[c.trace], c.span)]
  BY OpenSpanPosts DEF Posts
<1>2. BlocksFit /\ script' = script /\ next \in [Thread -> Nat \ {0}] /\ stack \in [TraceId -> Seq(SpanId)]
      /\ next[t] \in DOMAIN script[t] /\ next' = [next EXCEPT ![t] = next[t] + 1]
  BY <1>1 DEF ShapeFit, Goes, BlocksFit
<1>3. c.trace \in TraceId /\ c.span \in SpanId
  BY <1>1, <1>2, ScriptShape DEF TraceOp
<1>4. Owns(t, c.trace)
  BY <1>1, <1>2 DEF Owns, TraceOp
<1> SUFFICES ASSUME NEW u \in Thread, NEW trace \in TraceId, Owns(u, trace), trace \notin noop'
             PROVE  \E f : Tracks(f, stack'[trace], script'[u], Opened(script'[u], next'[u], trace))
  BY <1>2 DEF StacksFit, Owns
<1>5. CASE trace # c.trace
  BY <1>1, <1>2, <1>5, StacksElsewhere
<1>6. CASE trace = c.trace
  <2>1. u = t
    BY <1>2, <1>4, <1>6, OneOwner
  <2>2. PICK f : Tracks(f, stack[trace], script[t], Opened(script[t], next[t], trace))
    BY <1>1, <2>1 DEF StacksFit
  <2>3. Tracks(Append(f, next[t]), Append(stack[trace], c.span), script[t], Opened(script[t], next[t] + 1, trace))
    BY <1>1, <1>2, <1>3, <1>6, <2>2, TracksOpen
  <2>4. stack'[trace] = Append(stack[trace], c.span) /\ next'[t] = next[t] + 1
    BY <1>1, <1>2, <1>3, <1>6
  <2> QED
    BY <1>2, <2>1, <2>3, <2>4
<1> QED
  BY <1>5, <1>6

LEMMA LeaveSpanStacks ==
  ASSUME ShapeFit, StacksFit, NEW t \in Thread, LeaveSpan(t)
  PROVE  StacksFit'
<1> DEFINE c == script[t][next[t]]
<1>1. /\ Goes(t) /\ c.op = "leave" /\ c.trace \notin noop /\ noop' = noop
      /\ stack' = [stack EXCEPT ![c.trace] =
                     IF Parent(stack[c.trace]) = c.span THEN Front(stack[c.trace]) ELSE stack[c.trace]]
  BY LeaveSpanPosts DEF Posts
<1>2. BlocksFit /\ script' = script /\ next \in [Thread -> Nat \ {0}] /\ stack \in [TraceId -> Seq(SpanId)]
      /\ next[t] \in DOMAIN script[t] /\ next' = [next EXCEPT ![t] = next[t] + 1]
  BY <1>1 DEF ShapeFit, Goes, BlocksFit
<1>3. c.trace \in TraceId /\ c.span \in SpanId /\ Nested(script[t], next[t])
  BY <1>1, <1>2, ScriptShape DEF TraceOp
<1>4. Owns(t, c.trace)
  BY <1>1, <1>2 DEF Owns, TraceOp
<1> SUFFICES ASSUME NEW u \in Thread, NEW trace \in TraceId, Owns(u, trace), trace \notin noop'
             PROVE  \E f : Tracks(f, stack'[trace], script'[u], Opened(script'[u], next'[u], trace))
  BY <1>2 DEF StacksFit, Owns
<1>5. CASE trace # c.trace
  BY <1>1, <1>2, <1>5, StacksElsewhere
<1>6. CASE trace = c.trace
  <2>1. u = t
    BY <1>2, <1>4, <1>6, OneOwner
  <2>2. PICK f : Tracks(f, stack[trace], script[t], Opened(script[t], next[t], trace))
    BY <1>1, <2>1 DEF StacksFit
  <2>3. \A i, j \in 1 .. next[t] :
           script[t][i].op = script[t][j].op /\ script[t][i].op \in {"span", "leave"}
             /\ script[t][i].span = script[t][j].span => i = j
    <3>1. \A i \in 1 .. next[t] : i \in DOMAIN script[t]
      BY <1>2, ScriptShape
    <3> QED
      BY <1>2, <3>1, OneBlock
  <2>4. Null \notin SpanId
    BY TelemetryAssumption
  <2>5. /\ Parent(stack[trace]) = c.span
        /\ Tracks(Front(f), Front(stack[trace]), script[t], Opened(script[t], next[t] + 1, trace))
    <3>1. stack[trace] \in Seq(SpanId) /\ next[t] \in Nat \ {0}
      BY <1>2
    <3>2. PICK calls : calls = script[t]
      OBVIOUS
    <3>3. PICK k \in Nat \ {0} : k = next[t]
      BY <3>1
    <3>4. PICK spans \in Seq(SpanId) : spans = stack[trace]
      BY <3>1
    <3>5. Tracks(f, spans, calls, Opened(calls, k, trace))
      BY <2>2, <3>2, <3>3, <3>4
    <3>6. calls[k].op = "leave" /\ calls[k].trace = trace /\ Nested(calls, k)
      BY <1>1, <1>3, <1>6, <3>2, <3>3
    <3>7. OneEach(calls, k)
      BY <2>3, <3>2, <3>3 DEF OneEach
    <3>8. /\ Parent(spans) = calls[k].span
          /\ Tracks(Front(f), Front(spans), calls, Opened(calls, k + 1, trace))
      BY <2>4, <3>5, <3>6, <3>7, TracksLeave
    <3> QED
      BY <3>2, <3>3, <3>4, <3>8
  <2>6. stack'[trace] = Front(stack[trace]) /\ next'[t] = next[t] + 1
    BY <1>1, <1>2, <1>3, <1>6, <2>5
  <2> QED
    BY <1>2, <2>1, <2>5, <2>6
<1> QED
  BY <1>5, <1>6

LEMMA StepStacks ==
  ASSUME ShapeFit, StacksFit, NEW t \in Thread, Step(t)
  PROVE  StacksFit'
<1>1. CASE EnterTrace(t)
  BY <1>1, EnterTracePosts, SameStacks DEF Posts, Passes
<1>2. CASE NoopCall(t)
  BY <1>2, NoopCallPasses, SameStacks DEF Passes
<1>3. CASE AddModelCall(t)
  BY <1>3, AddModelCallPasses, SameStacks DEF Passes
<1>4. CASE Event(t)
  BY <1>4, EventPosts, SameStacks DEF Posts
<1>5. CASE ExitTrace(t)
  BY <1>5, ExitTracePosts, SameStacks DEF Posts
<1>6. CASE Shut(t)
  BY <1>6, ShutPasses, SameStacks DEF Passes
<1>7. CASE Enqueue(t)
  BY <1>7, EnqueuePuts, SameStacks DEF Puts
<1>8. CASE Flush(t)
  BY <1>8, FlushTakes, SameStacks DEF Takes
<1> QED
  BY <1>1, <1>2, <1>3, <1>4, <1>5, <1>6, <1>7, <1>8, OpenSpanStacks, LeaveSpanStacks DEF Step

LEMMA NextStacks ==
  ASSUME ShapeFit, StacksFit, [Next]_vars
  PROVE  StacksFit'
<1>1. CASE script' = script /\ next' = next /\ noop' = noop /\ stack' = stack
  BY <1>1 DEF StacksFit, Owns
<1>2. CASE UNCHANGED vars
  BY <1>1, <1>2 DEF vars
<1>3. ASSUME NEW f \in Flusher, FlushAsync(f) PROVE StacksFit'
  BY <1>1, <1>3, FlushAsyncTakes DEF Takes, FlushAsync, blocks
<1>4. ASSUME NEW p \in Sender, Post(p) PROVE StacksFit'
  BY <1>1, <1>4, SendIs, TimeOutIs, AnsweredIs DEF Post, Kept
<1>5. ASSUME NEW r \in DOMAIN net, ServeItem(r) \/ Commit(r) \/ Fail(r) PROVE StacksFit'
  <2>1. UNCHANGED blocks
    BY <1>5, ServeItemServes, CommitReplies, FailReplies
  <2> QED
    BY <1>1, <2>1 DEF blocks
<1> QED
  BY <1>2, <1>3, <1>4, <1>5, StepStacks DEF Next

LEMMA InitStacks ==
  ASSUME Init
  PROVE  StacksFit
<1> SUFFICES ASSUME NEW t \in Thread, NEW trace \in TraceId
             PROVE  \E f : Tracks(f, stack[trace], script[t], Opened(script[t], next[t], trace))
  BY DEF StacksFit
<1>1. stack[trace] = << >> /\ next[t] = 1
  BY DEF Init
<1>2. Opened(script[t], 1, trace) = {}
  BY DEF Opened
<1>3. Tracks(<< >>, << >>, script[t], {})
  BY DEF Tracks
<1> QED
  BY <1>1, <1>2, <1>3


-----------------------------------------------------------------------------
(* Items are what their calls say *)

LEMMA MadeLater ==
  ASSUME NEW calls, NEW now \in [Thread -> Nat], NEW later \in [Thread -> Nat],
         \A t \in Thread : now[t] <= later[t], NEW item \in Entry
  PROVE  /\ Made(item, calls, now) => Made(item, calls, later)
         /\ Posted(item, calls, now) => Posted(item, calls, later)
         /\ Queued(item, calls, now) => Queued(item, calls, later)
<1>1. \A t \in Thread : \A k : k \in 1 .. now[t] - 1 => k \in 1 .. later[t] - 1
  OBVIOUS
<1>2. item.id[1] \in Thread
  BY DEF Entry
<1>3. Made(item, calls, now) => Made(item, calls, later)
  <2> HIDE DEF Enclosed
  <2> QED
    BY <1>1, <1>2 DEF Made
<1>4. ASSUME NEW span, Left(span, calls, now) PROVE Left(span, calls, later)
  BY <1>1, <1>4 DEF Left
<1> QED
  BY <1>3, <1>4 DEF Posted, Queued

LEMMA StockLater ==
  ASSUME ShapeFit, ItemsMade, next' \in [Thread -> Nat \ {0}], \A t \in Thread : next[t] <= next'[t]
  PROVE  Stock(next')
<1>0. PICK now \in [Thread -> Nat] : now = next
  BY DEF ShapeFit, BlocksFit
<1>1. PICK later \in [Thread -> Nat] : later = next'
  OBVIOUS
<1>2. \A t \in Thread : now[t] <= later[t]
  BY <1>0, <1>1
<1>3. \A item \in Entry :
        /\ Made(item, script, now) => Made(item, script, later)
        /\ Posted(item, script, now) => Posted(item, script, later)
        /\ Queued(item, script, now) => Queued(item, script, later)
  BY <1>2, MadeLater
<1>4. Stock(now)
  BY <1>0 DEF ItemsMade
<1>5. \A n \in DOMAIN queue : queue[n] \in Entry
  BY DEF ShapeFit
<1>6. \A s \in SpanId : \A n \in DOMAIN pending[s] : pending[s][n] \in Entry
  BY DEF ShapeFit, BlocksFit
<1>7. ASSUME NEW post, post.items \in Seq(Entry), Load(post, script, now)
      PROVE  Load(post, script, later)
  BY <1>3, <1>7 DEF Load
<1>8. \A p \in Sender : \A n \in DOMAIN todo[p] : todo[p][n].items \in Seq(Entry)
  BY Parcels
<1>9. \A r \in DOMAIN net : net[r] # Null =>
        net[r].items \in Seq(Entry) /\ \A n \in DOMAIN net[r].new : net[r].new[n].item \in Entry
  <2> SUFFICES ASSUME NEW r \in DOMAIN net, net[r] # Null
               PROVE  net[r].items \in Seq(Entry) /\ \A n \in DOMAIN net[r].new : net[r].new[n].item \in Entry
    OBVIOUS
  <2>1. net[r].items \in Seq(Entry) /\ net[r].new \in Seq(Line)
    BY Requests
  <2> QED
    BY <2>1, LineShape
<1>10. \A n \in DOMAIN rows : rows[n].item \in Entry
  BY LineShape DEF ShapeFit
<1>11. \A o \in DOMAIN gone : gone[o] \subseteq Entry
  BY DEF ShapeFit
<1>12. \A r \in DOMAIN net : net[r] # Null => Load(net[r], script, later)
  BY <1>4, <1>7, <1>9 DEF Stock
<1>13. \A p \in Sender : \A n \in DOMAIN todo[p] : Load(todo[p][n], script, later)
  BY <1>4, <1>7, <1>8 DEF Stock
<1>14. Stock(later)
  BY <1>3, <1>4, <1>5, <1>6, <1>9, <1>10, <1>11, <1>12, <1>13 DEF Stock
<1> QED
  BY <1>1, <1>14

(* Made by the call at hand. *)
LEMMA MadeNow ==
  ASSUME ShapeFit, NEW t \in Thread, Goes(t), NEW item \in Entry,
         item.id = <<t, next[t]>>, item.trace = script[t][next[t]].trace,
         LET c == script[t][next[t]] IN
         /\ item.kind # "span" \/ c.op = "enqueue" => item.parent = Null
         /\ \/ c.op = "enqueue" /\ item.kind = c.kind /\ item.span = c.span
            \/ c.op = "trace" /\ item.kind = "start" /\ item.span = Null
            \/ c.op = "span" /\ item.kind = "span" /\ item.span = c.span
            \/ c.op = "model" /\ item.kind = "model" /\ item.span = c.span
            \/ c.op = "leave" /\ item.kind = "update" /\ item.span = c.span
            \/ c.op \in {"event", "exit"} /\ item.kind = "event" /\ item.span = Null
            \/ c.op = "exit" /\ item.kind = "finish" /\ item.span = Null,
         item.parent # Null => Enclosed(item, script)
  PROVE  Made(item, script, next') /\ OpOf(item, script) = script[t][next[t]].op
<1>1. next'[t] = next[t] + 1 /\ next[t] \in Nat \ {0}
  BY DEF Goes, ShapeFit, BlocksFit
<1>2. item.id[1] = t /\ item.id[2] = next[t]
  OBVIOUS
<1>3. next[t] \in 1 .. next'[t] - 1
  BY <1>1
<1> HIDE DEF Enclosed
<1> QED
  BY <1>2, <1>3 DEF Made, OpOf


LEMMA GoesLater ==
  ASSUME ShapeFit, ItemsMade, NEW t \in Thread, Goes(t)
  PROVE  Stock(next') /\ script' = script
<1>1. \A u \in Thread : next[u] <= next'[u]
  BY DEF Goes, ShapeFit, BlocksFit
<1> QED
  BY <1>1, StockLater, GoesBlocks DEF Goes

LEMMA PostsMade ==
  ASSUME ShapeFit, ItemsMade, NEW t \in Thread, NEW items, Posts(t, items), pending' = pending,
         \A a \in DOMAIN items : Posted(items[a], script, next') /\ OpOf(items[a], script) # "enqueue"
  PROVE  ItemsMade'
<1>1. Stock(next') /\ script' = script
  BY GoesLater DEF Posts
<1>2. \A p \in Sender : \A n \in DOMAIN todo'[p] : Load(todo'[p][n], script, next')
  <2> SUFFICES ASSUME NEW p \in Sender, NEW n \in DOMAIN todo'[p] PROVE Load(todo'[p][n], script, next')
    OBVIOUS
  <2>1. CASE p = t
    <3>1. n \in DOMAIN items /\ todo'[p][n] = [batch |-> FALSE, items |-> <<items[n]>>]
      BY <2>1, PostsShape
    <3>2. PICK e : e = items[n]
      OBVIOUS
    <3>3. Posted(e, script, next') /\ OpOf(e, script) # "enqueue"
      BY <3>1, <3>2
    <3>4. PICK post : post = [batch |-> FALSE, items |-> <<e>>]
      OBVIOUS
    <3>5. post.batch = FALSE /\ DOMAIN post.items = {1} /\ post.items[1] = e
      BY <3>4
    <3> QED
      BY <3>1, <3>2, <3>3, <3>4, <3>5 DEF Load
  <2>2. CASE p # t
    <3>1. todo'[p] = todo[p]
      BY <2>2, PostsShape
    <3> QED
      BY <1>1, <3>1 DEF Stock
  <2> QED
    BY <2>1, <2>2
<1> QED
  BY <1>1, <1>2 DEF ItemsMade, Stock, Posts

LEMMA PassesMade ==
  ASSUME ShapeFit, ItemsMade, NEW t \in Thread, Passes(t), pending' = pending
  PROVE  ItemsMade'
<1>1. Stock(next') /\ script' = script
  BY GoesLater DEF Passes
<1> QED
  BY <1>1 DEF ItemsMade, Stock, Passes

LEMMA OneItem ==
  ASSUME NEW e, NEW t \in Thread, NEW calls, NEW now,
         Posted(e, calls, now) /\ OpOf(e, calls) # "enqueue"
  PROVE  \A a \in DOMAIN <<e>> : Posted(<<e>>[a], calls, now) /\ OpOf(<<e>>[a], calls) # "enqueue"
OBVIOUS

(* What the calls of a block post is made by them. *)
LEMMA PostedNow ==
  ASSUME ShapeFit, NEW t \in Thread, Goes(t), NEW kind \in ItemKind,
         NEW span \in SpanId \cup {Null}, NEW parent \in SpanId \cup {Null},
         LET c == script[t][next[t]] IN
         /\ c.op \in TraceOp \ {"model"}
         /\ kind # "span" => parent = Null
         /\ \/ c.op = "trace" /\ kind = "start" /\ span = Null
            \/ c.op = "span" /\ kind = "span" /\ span = c.span
            \/ c.op = "leave" /\ kind = "update" /\ span = c.span
            \/ c.op \in {"event", "exit"} /\ kind = "event" /\ span = Null
            \/ c.op = "exit" /\ kind = "finish" /\ span = Null,
         parent # Null => Enclosed(Item(t, kind, script[t][next[t]].trace, span, parent), script)
  PROVE  LET item == Item(t, kind, script[t][next[t]].trace, span, parent) IN
         Posted(item, script, next') /\ OpOf(item, script) # "enqueue"
<1> DEFINE c == script[t][next[t]]
<1>1. c.trace \in TraceId
  BY ScriptShape DEF Goes, ShapeFit
<1>2. PICK item : item = Item(t, kind, c.trace, span, parent)
  OBVIOUS
<1>3. /\ item \in Entry /\ item.kind = kind /\ item.trace = c.trace /\ item.span = span
      /\ item.parent = parent /\ item.id = <<t, next[t]>>
  <2>1. PICK trace \in TraceId : trace = c.trace
    BY <1>1
  <2>2. BlocksFit
    BY DEF ShapeFit
  <2>3. item = Item(t, kind, trace, span, parent)
    BY <1>2, <2>1
  <2> HIDE DEF c
  <2> QED
    BY <2>1, <2>2, <2>3, ItemShape
<1>4. Made(item, script, next') /\ OpOf(item, script) = c.op
  <2>1. /\ item.kind # "span" \/ c.op = "enqueue" => item.parent = Null
        /\ \/ c.op = "trace" /\ item.kind = "start" /\ item.span = Null
           \/ c.op = "span" /\ item.kind = "span" /\ item.span = c.span
           \/ c.op = "leave" /\ item.kind = "update" /\ item.span = c.span
           \/ c.op \in {"event", "exit"} /\ item.kind = "event" /\ item.span = Null
           \/ c.op = "exit" /\ item.kind = "finish" /\ item.span = Null
    BY <1>3 DEF TraceOp
  <2>2. item.parent # Null => Enclosed(item, script)
    BY <1>2, <1>3
  <2> QED
    BY <1>3, <2>1, <2>2, MadeNow
<1>5. c.op # "model" /\ c.op # "enqueue"
  BY DEF TraceOp
<1> QED
  BY <1>2, <1>4, <1>5 DEF Posted


LEMMA EnterTraceMade ==
  ASSUME ShapeFit, ItemsMade, NEW t \in Thread, EnterTrace(t)
  PROVE  ItemsMade'
<1> DEFINE item == Item(t, "start", script[t][next[t]].trace, Null, Null)
<1>1. pending' = pending /\ script[t][next[t]].op = "trace" /\ (Posts(t, <<item>>) \/ Passes(t))
  BY EnterTracePosts DEF Call
<1>2. CASE Posts(t, <<item>>)
  <2>1. Posted(item, script, next') /\ OpOf(item, script) # "enqueue"
    BY <1>1, <1>2, PostedNow DEF Posts, ItemKind, TraceOp
  <2> HIDE DEF item
  <2> QED
    BY <1>1, <1>2, <2>1, OneItem, PostsMade
<1> QED
  BY <1>1, <1>2, PassesMade

LEMMA EventMade ==
  ASSUME ShapeFit, ItemsMade, NEW t \in Thread, Event(t)
  PROVE  ItemsMade'
<1> DEFINE item == Item(t, "event", script[t][next[t]].trace, Null, Null)
<1>1. pending' = pending /\ script[t][next[t]].op = "event" /\ Posts(t, <<item>>)
  BY EventPosts
<1>2. Posted(item, script, next') /\ OpOf(item, script) # "enqueue"
  BY <1>1, PostedNow DEF Posts, ItemKind, TraceOp
<1> HIDE DEF item
<1> QED
  BY <1>1, <1>2, OneItem, PostsMade

LEMMA ExitTraceMade ==
  ASSUME ShapeFit, ItemsMade, NEW t \in Thread, ExitTrace(t)
  PROVE  ItemsMade'
<1> DEFINE end == Item(t, "finish", script[t][next[t]].trace, Null, Null)
           error == Item(t, "event", script[t][next[t]].trace, Null, Null)
<1>1. /\ pending' = pending /\ script[t][next[t]].op = "exit"
      /\ Posts(t, <<end>>) \/ Posts(t, <<error, end>>)
  BY ExitTracePosts
<1>2. Goes(t)
  BY <1>1 DEF Posts
<1>3. Posted(end, script, next') /\ OpOf(end, script) # "enqueue"
  BY <1>1, <1>2, PostedNow DEF ItemKind, TraceOp
<1>4. Posted(error, script, next') /\ OpOf(error, script) # "enqueue"
  BY <1>1, <1>2, PostedNow DEF ItemKind, TraceOp
<1> HIDE DEF end, error
<1>5. CASE Posts(t, <<end>>)
  BY <1>1, <1>3, <1>5, OneItem, PostsMade
<1>6. CASE Posts(t, <<error, end>>)
  <2>1. \A a \in DOMAIN <<error, end>> :
          Posted(<<error, end>>[a], script, next') /\ OpOf(<<error, end>>[a], script) # "enqueue"
    BY <1>3, <1>4
  <2> QED
    BY <1>1, <1>6, <2>1, PostsMade
<1> QED
  BY <1>1, <1>5, <1>6

(* The parent of a new span is the innermost block around it. *)
LEMMA OpenSpanMade ==
  ASSUME ShapeFit, StacksFit, ItemsMade, NEW t \in Thread, OpenSpan(t)
  PROVE  ItemsMade'
<1> DEFINE c == script[t][next[t]]
           parent == Parent(stack[c.trace])
           item == Item(t, "span", c.trace, c.span, parent)
<1>1. /\ c.op = "span" /\ c.trace \notin noop /\ parent \in SpanId \cup {Null}
      /\ Posts(t, <<item>>) /\ pending' = pending
  BY OpenSpanPosts
<1>2. BlocksFit /\ Goes(t) /\ next[t] \in DOMAIN script[t] /\ next[t] \in Nat
  BY <1>1 DEF ShapeFit, BlocksFit, Posts, Goes
<1>3. c.trace \in TraceId /\ c.span \in SpanId
  BY <1>1, <1>2, ScriptShape DEF TraceOp
<1>4. parent # Null => Enclosed(item, script)
  <2> SUFFICES ASSUME parent # Null PROVE Enclosed(item, script)
    OBVIOUS
  <2>1. Owns(t, c.trace)
    BY <1>1, <1>2 DEF Owns, TraceOp
  <2>2. PICK f : Tracks(f, stack[c.trace], script[t], Opened(script[t], next[t], c.trace))
    BY <1>1, <1>3, <2>1 DEF StacksFit
  <2>3. PICK trace \in TraceId : trace = c.trace
    BY <1>3
  <2>4. PICK open : open = Opened(script[t], next[t], c.trace)
    OBVIOUS
  <2>5. open \subseteq Nat
    BY <2>4 DEF Opened
  <2>6. PICK spans \in Seq(SpanId) : spans = stack[c.trace]
    BY <1>2, <1>3 DEF BlocksFit
  <2>7. PICK calls : calls = script[t]
    OBVIOUS
  <2>8. Tracks(f, spans, calls, open) /\ Parent(spans) # Null
    BY <2>2, <2>4, <2>6, <2>7
  <2>9. \E j \in open : Innermost(j, open) /\ Parent(spans) = calls[j].span
    BY <2>5, <2>8, TracksParent
  <2>10. item.id[1] = t /\ item.id[2] = next[t] /\ item.trace = c.trace /\ item.parent = parent
    BY DEF Item
  <2>11. Opened(script[item.id[1]], item.id[2], item.trace) = open /\ script[item.id[1]] = calls
    <3> HIDE DEF item, c
    <3> QED
      BY <2>4, <2>7, <2>10
  <2>12. item.parent = Parent(spans)
    BY <2>6, <2>10
  <2> HIDE DEF item
  <2> QED
    BY <2>9, <2>11, <2>12 DEF Enclosed
<1>5. Posted(item, script, next') /\ OpOf(item, script) # "enqueue"
  <2>1. PICK p \in SpanId \cup {Null} : p = parent
    BY <1>1
  <2>2. PICK span \in SpanId \cup {Null} : span = c.span
    BY <1>3
  <2>3. item = Item(t, "span", c.trace, span, p)
    BY <2>1, <2>2
  <2>4. p # Null => Enclosed(Item(t, "span", c.trace, span, p), script)
    BY <1>4, <2>1, <2>3
  <2>5. c.op \in TraceOp \ {"model"} /\ c.op = "span" /\ span = c.span
    BY <1>1, <2>2 DEF TraceOp
  <2> HIDE DEF item, parent
  <2>6. Posted(Item(t, "span", c.trace, span, p), script, next')
        /\ OpOf(Item(t, "span", c.trace, span, p), script) # "enqueue"
    BY <1>2, <2>4, <2>5, PostedNow DEF ItemKind
  <2> QED
    BY <2>3, <2>6
<1> HIDE DEF item, parent
<1> QED
  BY <1>1, <1>5, OneItem, PostsMade

LEMMA AddModelCallMade ==
  ASSUME ShapeFit, ItemsMade, NEW t \in Thread, AddModelCall(t)
  PROVE  ItemsMade'
<1> DEFINE c == script[t][next[t]]
<1>1. PICK item : item = Item(t, "model", c.trace, c.span, Null)
  OBVIOUS
<1>2. c.op = "model" /\ Passes(t) /\ pending' = [pending EXCEPT ![c.span] = Append(pending[c.span], item)]
  BY <1>1, AddModelCallPasses
<1>3. BlocksFit /\ Goes(t) /\ next[t] \in DOMAIN script[t] /\ pending \in [SpanId -> Seq(Entry)]
  BY <1>2 DEF ShapeFit, BlocksFit, Passes, Goes
<1>4. c.trace \in TraceId /\ c.span \in SpanId
  BY <1>2, <1>3, ScriptShape DEF TraceOp
<1>5. /\ item \in Entry /\ item.kind = "model" /\ item.trace = c.trace /\ item.span = c.span
      /\ item.parent = Null /\ item.id = <<t, next[t]>>
  <2>1. PICK trace \in TraceId : trace = c.trace
    BY <1>4
  <2>2. PICK span \in SpanId : span = c.span
    BY <1>4
  <2>3. item = Item(t, "model", trace, span, Null)
    BY <1>1, <2>1, <2>2
  <2> HIDE DEF c
  <2> QED
    BY <1>3, <2>1, <2>2, <2>3, ItemShape DEF ItemKind
<1>6. Made(item, script, next') /\ OpOf(item, script) = "model"
  BY <1>2, <1>3, <1>5, MadeNow
<1>7. Stock(next') /\ script' = script
  BY <1>3, GoesLater
<1>8. \A s \in SpanId : \A n \in DOMAIN pending'[s] :
        /\ Made(pending'[s][n], script, next') /\ OpOf(pending'[s][n], script) = "model"
        /\ pending'[s][n].span = s
  <2> SUFFICES ASSUME NEW s \in SpanId, NEW n \in DOMAIN pending'[s]
               PROVE  /\ Made(pending'[s][n], script, next') /\ OpOf(pending'[s][n], script) = "model"
                      /\ pending'[s][n].span = s
    OBVIOUS
  <2>1. PICK span \in SpanId : span = c.span
    BY <1>4
  <2>2. pending' = [pending EXCEPT ![span] = Append(pending[span], item)] /\ item.span = span
    BY <1>2, <1>5, <2>1
  <2>3. PICK old \in Seq(Entry) : old = pending[s]
    BY <1>3
  <2>4. \A a \in DOMAIN old : Made(old[a], script, next') /\ OpOf(old[a], script) = "model" /\ old[a].span = s
    BY <1>7, <2>3 DEF Stock
  <2>5. CASE s # span
    <3>1. pending'[s] = old
      BY <1>3, <2>2, <2>3, <2>5
    <3> QED
      BY <2>4, <3>1
  <2>6. CASE s = span
    <3>1. pending'[s] = Append(old, item)
      BY <1>3, <2>2, <2>3, <2>6
    <3>2. pending'[s][n] = item \/ (n \in DOMAIN old /\ pending'[s][n] = old[n])
      BY <2>3, <3>1
    <3> QED
      BY <1>6, <2>2, <2>4, <2>6, <3>2
  <2> QED
    BY <2>5, <2>6
<1>9. todo' = todo /\ queue' = queue /\ net' = net /\ rows' = rows /\ gone' = gone
  BY <1>2 DEF Passes
<1>10. PICK now : now = next'
  OBVIOUS
<1>11. Stock(now)'
  BY <1>7, <1>8, <1>9, <1>10 DEF Stock
<1> QED
  BY <1>10, <1>11 DEF ItemsMade, Stock

(* The calls of a span go out once it is left. *)
LEMMA LeaveSpanMade ==
  ASSUME ShapeFit, ItemsMade, NEW t \in Thread, LeaveSpan(t)
  PROVE  ItemsMade'
<1> DEFINE c == script[t][next[t]]
<1>1. PICK item : item = Item(t, "update", c.trace, c.span, Null)
  OBVIOUS
<1>2. c.op = "leave" /\ Posts(t, <<item>> \o pending[c.span]) /\ pending' = pending
  BY <1>1, LeaveSpanPosts
<1>3. BlocksFit /\ Goes(t) /\ next[t] \in DOMAIN script[t] /\ pending \in [SpanId -> Seq(Entry)]
  BY <1>2 DEF ShapeFit, BlocksFit, Posts, Goes
<1>4. c.trace \in TraceId /\ c.span \in SpanId
  BY <1>2, <1>3, ScriptShape DEF TraceOp
<1>5. PICK span \in SpanId : span = c.span
  BY <1>4
<1>6. item \in Entry
  <2>1. PICK trace \in TraceId : trace = c.trace
    BY <1>4
  <2>2. item = Item(t, "update", trace, span, Null)
    BY <1>1, <1>5, <2>1
  <2> HIDE DEF c
  <2> QED
    BY <1>3, <2>1, <2>2, ItemShape DEF ItemKind
<1>7. Posted(item, script, next') /\ OpOf(item, script) # "enqueue"
  <2>1. Posted(Item(t, "update", c.trace, span, Null), script, next')
        /\ OpOf(Item(t, "update", c.trace, span, Null), script) # "enqueue"
    BY <1>2, <1>3, <1>5, PostedNow DEF ItemKind, TraceOp
  <2> QED
    BY <1>1, <1>5, <2>1
<1>8. Stock(next')
  BY <1>3, GoesLater
<1>9. Left(span, script, next')
  <2>1. next'[t] = next[t] + 1 /\ next[t] \in Nat \ {0}
    BY <1>3 DEF Goes, BlocksFit
  <2>2. next[t] \in 1 .. next'[t] - 1
    BY <2>1
  <2>3. Leaves(script[t], next[t], span)
    BY <1>2, <1>5 DEF Leaves
  <2> QED
    BY <2>2, <2>3 DEF Left
<1>10. PICK calls \in Seq(Entry) : calls = pending[span]
  BY <1>3
<1>11. \A a \in DOMAIN calls : Posted(calls[a], script, next') /\ OpOf(calls[a], script) # "enqueue"
  <2>1. \A a \in DOMAIN calls :
          Made(calls[a], script, next') /\ OpOf(calls[a], script) = "model" /\ calls[a].span = span
    BY <1>8, <1>10 DEF Stock
  <2> QED
    BY <1>9, <2>1 DEF Posted
<1>12. PICK items : items = <<item>> \o calls
  OBVIOUS
<1>13. \A a \in DOMAIN items : items[a] = item \/ \E b \in DOMAIN calls : items[a] = calls[b]
  <2>1. <<item>> \in Seq(Entry) /\ Len(<<item>>) = 1 /\ <<item>>[1] = item
    BY <1>6
  <2>2. /\ items \in Seq(Entry) /\ Len(items) = 1 + Len(calls)
        /\ \A a \in 1 .. Len(items) :
             items[a] = IF a <= 1 THEN <<item>>[a] ELSE calls[a - 1]
    BY <1>12, <2>1, ConcatProperties
  <2> SUFFICES ASSUME NEW a \in DOMAIN items
               PROVE  items[a] = item \/ \E b \in DOMAIN calls : items[a] = calls[b]
    OBVIOUS
  <2>3. a \in 1 .. Len(items) /\ Len(calls) \in Nat /\ DOMAIN calls = 1 .. Len(calls)
    BY <2>2
  <2>4. CASE a = 1
    BY <2>1, <2>2, <2>3, <2>4
  <2>5. CASE a # 1
    <3>1. a - 1 \in DOMAIN calls /\ items[a] = calls[a - 1]
      BY <2>2, <2>3, <2>5
    <3> QED
      BY <3>1
  <2> QED
    BY <2>4, <2>5
<1>14. Posts(t, items)
  BY <1>2, <1>5, <1>10, <1>12
<1>15. \A a \in DOMAIN items : Posted(items[a], script, next') /\ OpOf(items[a], script) # "enqueue"
  BY <1>7, <1>11, <1>13
<1> QED
  BY <1>2, <1>14, <1>15, PostsMade

LEMMA PutsMade ==
  ASSUME ShapeFit, ItemsMade, NEW t \in Thread, NEW item, Puts(t, item)
  PROVE  ItemsMade'
<1> DEFINE c == script[t][next[t]]
<1>1. /\ BlocksFit /\ Goes(t) /\ next[t] \in DOMAIN script[t] /\ c.op = "enqueue" /\ item \in Entry
      /\ item = Item(t, c.kind, c.trace, c.span, Null) /\ Push(item)
      /\ queue \in Seq(Entry) /\ QueueMax \in Nat \ {0}
  BY TelemetryAssumption DEF ShapeFit, Puts, Goes
<1>2. Stock(next') /\ script' = script
  BY <1>1, GoesLater
<1>3. Queued(item, script, next')
  <2>1. item.kind = c.kind /\ item.trace = c.trace /\ item.span = c.span /\ item.parent = Null /\ item.id = <<t, next[t]>>
    BY <1>1 DEF Item
  <2>2. Made(item, script, next') /\ OpOf(item, script) = c.op
    BY <1>1, <2>1, MadeNow
  <2> QED
    BY <1>1, <2>2 DEF Queued
<1>4. \A n \in DOMAIN queue' : queue'[n] = item \/ \E m \in DOMAIN queue : queue'[n] = queue[m]
  <2>1. CASE Len(queue) = QueueMax
    <3>1. queue' = Append(Tail(queue), item) /\ queue # << >>
      BY <1>1, <2>1 DEF Push
    <3>0. queue \in Seq(Entry) /\ queue # << >>
      BY <1>1, <3>1
    <3>2. PICK rest \in Seq(Entry) : rest = Tail(queue)
      BY <3>0, HeadTailProperties
    <3>3. \A n \in DOMAIN rest : n + 1 \in DOMAIN queue /\ rest[n] = queue[n + 1]
      BY <1>1, <3>1, <3>2
    <3> QED
      BY <3>1, <3>2, <3>3
  <2>2. CASE Len(queue) # QueueMax
    BY <1>1, <2>2 DEF Push
  <2> QED
    BY <2>1, <2>2
<1>5. \A o \in DOMAIN gone' : o \in DOMAIN gone /\ \A e \in gone'[o] : e \in gone[o] \/ \E m \in DOMAIN queue : e = queue[m]
  <2>1. DOMAIN gone = {"dropped", "lost", "answered"}
    BY DEF ShapeFit
  <2>2. CASE Len(queue) = QueueMax
    <3>1. gone' = [gone EXCEPT !.dropped = @ \cup {Head(queue)}]
      BY <2>2 DEF Push, Puts
    <3>2. Head(queue) = queue[1] /\ 1 \in DOMAIN queue
      BY <1>1, <2>2
    <3> QED
      BY <2>1, <3>1, <3>2
  <2>3. CASE Len(queue) # QueueMax
    BY <2>3 DEF Push, Puts
  <2> QED
    BY <2>2, <2>3
<1>6. \A n \in DOMAIN queue' : Queued(queue'[n], script, next')
  BY <1>2, <1>3, <1>4 DEF Stock
<1>7. \A o \in DOMAIN gone' : \A e \in gone'[o] : Queued(e, script, next')
  BY <1>2, <1>5 DEF Stock
<1> QED
  BY <1>2, <1>6, <1>7 DEF ItemsMade, Stock, Puts

LEMMA TakesMade ==
  ASSUME ShapeFit, NEW p \in Sender, Takes(p), Stock(next'), script' = script
  PROVE  ItemsMade'
<1>1. queue \in Seq(Entry) /\ todo \in [Sender -> Seq(Parcel)]
  BY DEF ShapeFit
<1>2. PICK posts \in Seq(Parcel) :
        /\ posts = Chunks(queue)
        /\ \A k \in DOMAIN posts :
             /\ posts[k].batch = TRUE
             /\ \A a \in DOMAIN posts[k].items : \E n \in DOMAIN queue : posts[k].items[a] = queue[n]
  BY <1>1, ChunksAre
<1>3. \A k \in DOMAIN posts : Load(posts[k], script, next')
  <2>1. \A n \in DOMAIN queue : Queued(queue[n], script, next')
    BY DEF Stock
  <2> SUFFICES ASSUME NEW k \in DOMAIN posts, NEW a \in DOMAIN posts[k].items
               PROVE  /\ Posted(posts[k].items[a], script, next')
                      /\ OpOf(posts[k].items[a], script) = "enqueue" <=> posts[k].batch
    BY DEF Load
  <2>2. PICK n \in DOMAIN queue : posts[k].items[a] = queue[n]
    BY <1>2
  <2> QED
    BY <1>2, <2>1, <2>2 DEF Queued, Posted
<1>4. todo' = [todo EXCEPT ![p] = posts]
  BY <1>2 DEF Takes
<1>5. \A q \in Sender : \A n \in DOMAIN todo'[q] : Load(todo'[q][n], script, next')
  BY <1>1, <1>3, <1>4 DEF Stock
<1>6. queue' = << >>
  BY DEF Takes
<1>7. \A n \in DOMAIN queue' : Queued(queue'[n], script, next')
  BY <1>6
<1> QED
  BY <1>5, <1>7 DEF ItemsMade, Stock, Takes


(* The first post of p is over, and its items are where outcome says. *)
LEMMA PostEndsMoves ==
  ASSUME ShapeFit, NEW p \in Sender, todo[p] # << >>, NEW outcome \in {"lost", "answered"},
         PostEnds(p, outcome)
  PROVE  /\ \A n \in DOMAIN todo'[p] : n + 1 \in DOMAIN todo[p] /\ todo'[p][n] = todo[p][n + 1]
         /\ \A n \in DOMAIN todo[p] : n # 1 => n - 1 \in DOMAIN todo'[p] /\ todo'[p][n - 1] = todo[p][n]
         /\ \A q \in Sender : q # p => todo'[q] = todo[q]
         /\ DOMAIN gone = {"dropped", "lost", "answered"} /\ DOMAIN gone' = DOMAIN gone
         /\ \A o \in DOMAIN gone : \A item :
              item \in gone'[o] <=>
                \/ item \in gone[o]
                \/ o = outcome /\ todo[p][1].batch /\ \E a \in DOMAIN todo[p][1].items : item = todo[p][1].items[a]
<1>1. todo \in [Sender -> Seq(Parcel)] /\ todo[p] \in Seq(Parcel)
  BY DEF ShapeFit
<1>2. PICK rest \in Seq(Parcel) : rest = Tail(todo[p])
  BY <1>1, HeadTailProperties
<1>3. todo' = [todo EXCEPT ![p] = rest]
  BY <1>2 DEF PostEnds
<1>4. Len(rest) = Len(todo[p]) - 1 /\ Len(todo[p]) \in Nat /\ \A i \in 1 .. Len(rest) : rest[i] = todo[p][i + 1]
  BY <1>1, <1>2, HeadTailProperties
<1>5. todo'[p] = rest /\ \A q \in Sender : q # p => todo'[q] = todo[q]
  BY <1>1, <1>3
<1>6. \A n \in DOMAIN rest : n + 1 \in DOMAIN todo[p] /\ rest[n] = todo[p][n + 1]
  BY <1>1, <1>4
<1>7. \A n \in DOMAIN todo[p] : n # 1 => n - 1 \in DOMAIN rest /\ rest[n - 1] = todo[p][n]
  <2> SUFFICES ASSUME NEW n \in DOMAIN todo[p], n # 1
               PROVE  n - 1 \in DOMAIN rest /\ rest[n - 1] = todo[p][n]
    OBVIOUS
  <2>1. n - 1 \in 1 .. Len(rest) /\ n - 1 + 1 = n
    BY <1>1, <1>4
  <2> QED
    BY <1>4, <2>1, SMTT(30)
<1>8. PICK g \in [dropped : SUBSET Entry, lost : SUBSET Entry, answered : SUBSET Entry] : g = gone
  BY DEF ShapeFit
<1>9. DOMAIN g = {"dropped", "lost", "answered"}
  OBVIOUS
<1>10. Head(todo[p]) = todo[p][1]
  BY <1>1
<1>11. CASE todo[p][1].batch
  <2>1. PICK items : items = ToSet(todo[p][1].items)
    OBVIOUS
  <2>2. gone' = [g EXCEPT ![outcome] = @ \cup items]
    BY <1>8, <1>10, <1>11, <2>1 DEF PostEnds
  <2>3. \A item : item \in items <=> \E a \in DOMAIN todo[p][1].items : item = todo[p][1].items[a]
    BY <2>1 DEF ToSet
  <2>4. DOMAIN gone' = DOMAIN gone
    BY <1>8, <2>2
  <2>5. \A o \in DOMAIN g : gone'[o] = IF o = outcome THEN g[o] \cup items ELSE g[o]
    BY <1>9, <2>2
  <2> QED
    BY <1>5, <1>6, <1>7, <1>8, <1>9, <1>11, <2>3, <2>4, <2>5
<1>12. CASE ~ todo[p][1].batch
  <2>1. gone' = gone
    BY <1>10, <1>12 DEF PostEnds
  <2> QED
    BY <1>5, <1>6, <1>7, <1>8, <1>9, <1>12, <2>1
<1> QED
  BY <1>11, <1>12

LEMMA SettlesMade ==
  ASSUME ShapeFit, ItemsMade, NEW p \in Sender, todo[p] # << >>, Settles(p)
  PROVE  /\ \A q \in Sender : \A n \in DOMAIN todo'[q] : Load(todo'[q][n], script, next)
         /\ \A o \in DOMAIN gone' : \A item \in gone'[o] : Queued(item, script, next)
<1>1. /\ \A q \in Sender : \A n \in DOMAIN todo[q] : Load(todo[q][n], script, next)
      /\ \A o \in DOMAIN gone : \A item \in gone[o] : Queued(item, script, next)
  BY DEF ItemsMade, Stock
<1>2. ASSUME NEW outcome \in {"lost", "answered"}, PostEnds(p, outcome)
      PROVE  /\ \A q \in Sender : \A n \in DOMAIN todo'[q] : Load(todo'[q][n], script, next)
             /\ \A o \in DOMAIN gone' : \A item \in gone'[o] : Queued(item, script, next)
  <2>1. \A q \in Sender : \A n \in DOMAIN todo'[q] : Load(todo'[q][n], script, next)
    <3> SUFFICES ASSUME NEW q \in Sender, NEW n \in DOMAIN todo'[q] PROVE Load(todo'[q][n], script, next)
      OBVIOUS
    <3>1. \E m \in DOMAIN todo[q] : todo'[q][n] = todo[q][m]
      BY <1>2, PostEndsMoves
    <3> QED
      BY <1>1, <3>1
  <2>2. ASSUME NEW o \in DOMAIN gone', NEW item \in gone'[o] PROVE Queued(item, script, next)
    <3>1. o \in DOMAIN gone
      BY <1>2, PostEndsMoves
    <3>2. \/ item \in gone[o]
          \/ todo[p][1].batch /\ \E a \in DOMAIN todo[p][1].items : item = todo[p][1].items[a]
      BY <1>2, <3>1, PostEndsMoves
    <3>3. CASE todo[p][1].batch /\ \E a \in DOMAIN todo[p][1].items : item = todo[p][1].items[a]
      <4>1. Load(todo[p][1], script, next)
        BY <1>1, RequestShape
      <4> QED
        BY <3>3, <4>1 DEF Load, Posted, Queued
    <3> QED
      BY <1>1, <3>1, <3>2, <3>3
  <2> QED
    BY <2>1, <2>2
<1>3. CASE todo' = todo /\ gone' = gone
  BY <1>1, <1>3
<1> QED
  BY <1>2, <1>3 DEF Settles

LEMMA PostMade ==
  ASSUME ShapeFit, ItemsMade, NEW p \in Sender, Post(p)
  PROVE  ItemsMade'
<1>0. /\ net \in [Sender \cup Late -> Carried \cup {Null}] /\ p \in DOMAIN net
      /\ \A r \in DOMAIN net : net[r] # Null =>
           Load(net[r], script, next) /\ \A n \in DOMAIN net[r].new : Posted(net[r].new[n].item, script, next)
  BY DEF ShapeFit, ItemsMade, Stock
<1>1. /\ todo[p] # << >> /\ Kept /\ queue' = queue /\ rows' = rows
      /\ Settles(p) \/ (todo' = todo /\ gone' = gone)
  BY SendIs, TimeOutIs, AnsweredIs DEF Post, Settles
<1>2. /\ \A q \in Sender : \A n \in DOMAIN todo'[q] : Load(todo'[q][n], script, next)
      /\ \A o \in DOMAIN gone' : \A item \in gone'[o] : Queued(item, script, next)
  <2>1. CASE Settles(p)
    BY <1>1, <2>1, SettlesMade
  <2>2. CASE todo' = todo /\ gone' = gone
    BY <2>2 DEF ItemsMade, Stock
  <2> QED
    BY <1>1, <2>1, <2>2
<1>3. \A r \in DOMAIN net' : net'[r] # Null =>
        Load(net'[r], script, next) /\ \A n \in DOMAIN net'[r].new : Posted(net'[r].new[n].item, script, next)
  <2>1. CASE Send(p)
    <3>1. CASE net' = net
      BY <1>0, <3>1
    <3>2. CASE net' = [net EXCEPT ![p] = Request(p, todo[p][1])]
      <4>1. PICK q : q = Request(p, todo[p][1])
        OBVIOUS
      <4>2. q.items = todo[p][1].items /\ q.batch = todo[p][1].batch /\ q.new = << >>
        BY <4>1 DEF Request
      <4>3. Load(todo[p][1], script, next)
        BY <1>1, RequestShape DEF ItemsMade, Stock
      <4>4. Load(q, script, next) /\ \A n \in DOMAIN q.new : Posted(q.new[n].item, script, next)
        BY <4>2, <4>3 DEF Load
      <4>5. net' = [net EXCEPT ![p] = q]
        BY <3>2, <4>1
      <4> QED
        BY <1>0, <4>4, <4>5
    <3> QED
      BY <2>1, <3>1, <3>2, SendIs
  <2>2. CASE TimeOut(p) \/ Answered(p)
    <3>1. CASE net' = [net EXCEPT ![p] = Null]
      BY <1>0, <3>1
    <3>2. ASSUME NEW l \in Late, net' = [net EXCEPT ![p] = Null, ![l] = net[p]]
          PROVE  \A r \in DOMAIN net' : net'[r] # Null => r \in DOMAIN net /\ \E s \in DOMAIN net : net'[r] = net[s]
      BY <1>0, <3>2
    <3>3. CASE \E l \in Late : net' = [net EXCEPT ![p] = Null, ![l] = net[p]]
      BY <1>0, <3>2, <3>3
    <3> QED
      BY <2>2, <3>1, <3>3, TimeOutIs, AnsweredIs
  <2> QED
    BY <2>1, <2>2 DEF Post
<1> QED
  BY <1>1, <1>2, <1>3 DEF ItemsMade, Stock, Kept

LEMMA WritesMade ==
  ASSUME ShapeFit, NEW item \in Entry, Posted(item, script, next), NEW table
  PROVE  Posted(Stored(table, item), script, next)
<1>1. PICK new \in Entry : new = Stored(table, item)
  BY StoredShape
<1>2. /\ new.id = item.id /\ new.kind = item.kind /\ new.trace = item.trace /\ new.span = item.span
      /\ new.parent \in {item.parent, Null}
  BY <1>1, StoredShape DEF Same
<1>3. new.parent # Null => Enclosed(new, script)
  BY <1>2 DEF Posted, Made, Enclosed
<1>4. Made(new, script, next) /\ OpOf(new, script) = OpOf(item, script)
  <2> HIDE DEF Enclosed
  <2> QED
    BY <1>2, <1>3 DEF Posted, Made, OpOf
<1> QED
  BY <1>1, <1>2, <1>4 DEF Posted

LEMMA ServeStepMade ==
  ASSUME ShapeFit, ItemsMade, NEW r \in DOMAIN net, ServeItem(r) \/ Commit(r) \/ Fail(r)
  PROVE  ItemsMade'
<1>0. net[r] # Null
  BY DEF ServeItem, Commit, Fail, Serving
<1>1. UNCHANGED <<blocks, buffer, posting>>
  <2>1. CASE ServeItem(r)
    BY <2>1, ServeItemServes
  <2>2. CASE Commit(r)
    BY <2>2, CommitReplies
  <2>3. CASE Fail(r)
    BY <2>3, FailReplies
  <2> QED
    BY <2>1, <2>2, <2>3
<1>2. /\ Load(net[r], script, next) /\ (\A n \in DOMAIN net[r].new : Posted(net[r].new[n].item, script, next))
      /\ \A n \in DOMAIN rows : Posted(rows[n].item, script, next)
  BY <1>0 DEF ItemsMade, Stock
<1>3. CASE ServeItem(r)
  <2> DEFINE table == rows \o net[r].new
             line == [item |-> Stored(table, ServedItem(r)), by |-> net[r].tag]
  <2>1. PICK new : new = IF Accepted(r) THEN net[r].new \o Writes(r, table, ServedItem(r)) ELSE net[r].new
    OBVIOUS
  <2>2. /\ Len(net[r].oks) < Len(net[r].items) /\ ServedItem(r) \in Entry
        /\ Serves(r, Accepted(r), new) /\ rows' = rows
    BY <1>3, <2>1, ServeItemServes
  <2>3. /\ line.item = Stored(table, ServedItem(r)) /\ net[r].new \in Seq(Line)
        /\ new \in Seq(Line) /\ (new = net[r].new \/ new = Append(net[r].new, line))
    <3>1. PICK tab : tab = table
      OBVIOUS
    <3>2. PICK e \in Entry : e = ServedItem(r)
      BY <2>2
    <3>3. PICK l : l = line
      OBVIOUS
    <3>4. l = [item |-> Stored(tab, e), by |-> net[r].tag]
      BY <3>1, <3>2, <3>3
    <3> HIDE DEF line, table
    <3>5. /\ l.item = Stored(tab, e)
          /\ net[r].new \o Writes(r, tab, e) = IF Known(tab, e) THEN net[r].new ELSE Append(net[r].new, l)
          /\ net[r].new \o Writes(r, tab, e) \in Seq(Line)
      BY <1>0, <3>4, WritesShape
    <3>6. net[r].new \in Seq(Line)
      BY <1>0, Requests
    <3>7. new = net[r].new \/ new = net[r].new \o Writes(r, tab, e)
      BY <2>1, <3>1, <3>2
    <3> QED
      BY <3>1, <3>2, <3>3, <3>5, <3>6, <3>7
  <2>4. Posted(ServedItem(r), script, next)
    <3>1. Len(net[r].oks) + 1 \in DOMAIN net[r].items
      BY <1>0, <2>2, Requests
    <3> QED
      BY <1>2, <3>1 DEF Load, ServedItem
  <2>5. Posted(line.item, script, next)
    BY <2>2, <2>3, <2>4, WritesMade
  <2> HIDE DEF line
  <2>6. \A n \in DOMAIN new : Posted(new[n].item, script, next)
    <3>1. PICK old \in Seq(Line) : old = net[r].new
      BY <2>3
    <3>2. \A n \in DOMAIN new : new[n] = line \/ (n \in DOMAIN old /\ new[n] = old[n])
      BY <2>3, <3>1
    <3> QED
      BY <1>2, <2>5, <3>1, <3>2
  <2>7. Accepted(r) \in BOOLEAN
    BY DEF Accepted, Accepts, One, ServedItem
  <2>8. /\ net'[r].items = net[r].items /\ net'[r].batch = net[r].batch /\ net'[r].new = new
        /\ DOMAIN net' = DOMAIN net /\ \A p \in DOMAIN net : p # r => net'[p] = net[p]
    BY <2>2, <2>3, <2>7, ServesShape, NetDomain, ZenonT(60)
  <2>9. \A p \in DOMAIN net' : net'[p] # Null =>
          Load(net'[p], script, next) /\ \A n \in DOMAIN net'[p].new : Posted(net'[p].new[n].item, script, next)
    BY <1>2, <2>6, <2>8 DEF ItemsMade, Stock, Load
  <2> QED
    BY <1>1, <2>2, <2>9 DEF ItemsMade, Stock, blocks, buffer, posting
<1>4. CASE Commit(r) \/ Fail(r)
  <2>1. \E http \in {200, 404, 500, 503} : Replies(r, http)
    <3>1. CASE Commit(r)
      <4>1. Replies(r, 200) \/ Replies(r, 404)
        BY <3>1, CommitReplies
      <4> QED
        BY <4>1
    <3>2. CASE Fail(r)
      <4>1. \E http \in {500, 503} : Replies(r, http)
        BY <3>2, FailReplies
      <4> QED
        BY <4>1
    <3> QED
      BY <1>4, <3>1, <3>2
  <2>2. /\ net'[r].items = net[r].items /\ net'[r].batch = net[r].batch /\ net'[r].new = net[r].new
        /\ DOMAIN net' = DOMAIN net /\ \A p \in DOMAIN net : p # r => net'[p] = net[p]
    BY <2>1, RepliesShape, NetDomain
  <2>3. \A p \in DOMAIN net' : net'[p] # Null =>
          Load(net'[p], script, next) /\ \A n \in DOMAIN net'[p].new : Posted(net'[p].new[n].item, script, next)
    BY <1>2, <2>2 DEF ItemsMade, Stock, Load
  <2>4. rows' = rows \/ rows' = rows \o net[r].new
    BY <1>4, CommitReplies, FailReplies, ZenonT(60)
  <2>5. \A n \in DOMAIN rows' : Posted(rows'[n].item, script, next)
    <3>1. PICK old \in Seq(Line), new \in Seq(Line) : old = rows /\ new = net[r].new
      BY <1>0, Requests DEF ShapeFit
    <3>2. \A n \in DOMAIN (old \o new) :
            (n \in DOMAIN old /\ (old \o new)[n] = old[n])
            \/ (n - Len(old) \in DOMAIN new /\ (old \o new)[n] = new[n - Len(old)])
      BY <3>1
    <3> QED
      BY <1>2, <2>4, <3>1, <3>2, ZenonT(60)
  <2> QED
    BY <1>1, <2>3, <2>5 DEF ItemsMade, Stock, blocks, buffer, posting
<1> QED
  BY <1>3, <1>4

LEMMA NextMade ==
  ASSUME ShapeFit, StacksFit, ItemsMade, [Next]_vars
  PROVE  ItemsMade'
<1>1. CASE UNCHANGED vars
  BY <1>1 DEF vars, ItemsMade, Stock
<1>2. ASSUME NEW t \in Thread, Step(t) PROVE ItemsMade'
  <2>1. CASE NoopCall(t) \/ Shut(t)
    BY <2>1, NoopCallPasses, ShutPasses, PassesMade
  <2>2. CASE Enqueue(t)
    BY <2>2, EnqueuePuts, PutsMade
  <2>3. CASE Flush(t)
    BY <2>3, FlushTakes, GoesLater, TakesMade, SenderIs
  <2> QED
    BY <1>2, <2>1, <2>2, <2>3, EnterTraceMade, OpenSpanMade, AddModelCallMade, LeaveSpanMade,
       EventMade, ExitTraceMade DEF Step
<1>3. ASSUME NEW f \in Flusher, FlushAsync(f) PROVE ItemsMade'
  <2>1. Takes(f) /\ script' = script /\ next' = next
    BY <1>3, FlushAsyncTakes
  <2>2. Stock(next')
    BY <2>1 DEF ItemsMade
  <2> QED
    BY <2>1, <2>2, TakesMade, SenderIs
<1> QED
  BY <1>1, <1>2, <1>3, PostMade, ServeStepMade DEF Next

LEMMA InitMade ==
  ASSUME Init
  PROVE  ItemsMade
BY DEF Init, ItemsMade, Stock

BlocksHold == ShapeFit /\ StacksFit /\ ItemsMade

LEMMA BlocksInvariant == Spec => []BlocksHold
<1>1. Init => BlocksHold
  BY InitShape, InitStacks, InitMade DEF BlocksHold
<1>2. BlocksHold /\ [Next]_vars => BlocksHold'
  BY NextShape, NextStacks, NextMade DEF BlocksHold
<1> QED
  BY <1>1, <1>2, PTL DEF Spec

-----------------------------------------------------------------------------
(* Items have one place *)

LEMMA NotYet ==
  ASSUME ShapeFit, NEW item, Made(item, script, next), item.id[1] \in Thread,
         NEW t \in Thread, NEW e, e.id = <<t, next[t]>>
  PROVE  ~ Same(item, e) /\ ~ Same(e, item)
<1>1. next[t] \in Nat
  BY DEF ShapeFit, BlocksFit
<1>2. SUFFICES ASSUME item.id = <<t, next[t]>> PROVE FALSE
  BY DEF Same
<1>3. item.id[1] = t /\ item.id[2] = next[t]
  BY <1>2
<1>4. next[t] \in 1 .. next[t] - 1
  BY <1>3 DEF Made
<1> QED
  BY <1>1, <1>4

(* What is queued or posted, and what it is. *)
LEMMA Stocked ==
  ASSUME ShapeFit, ItemsMade
  PROVE  /\ \A n \in DOMAIN queue :
              /\ queue[n] \in Entry /\ queue[n].id[1] \in Thread
              /\ Made(queue[n], script, next) /\ OpOf(queue[n], script) = "enqueue"
         /\ \A p \in Sender : \A n \in DOMAIN todo[p] : \A a \in DOMAIN todo[p][n].items :
              /\ todo[p][n].items[a] \in Entry /\ todo[p][n].items[a].id[1] \in Thread
              /\ Posted(todo[p][n].items[a], script, next) /\ Made(todo[p][n].items[a], script, next)
              /\ OpOf(todo[p][n].items[a], script) = "enqueue" <=> todo[p][n].batch
<1>1. \A e \in Entry : e.id[1] \in Thread
  BY DEF Entry
<1>2. ASSUME NEW n \in DOMAIN queue
      PROVE  /\ queue[n] \in Entry /\ queue[n].id[1] \in Thread
             /\ Made(queue[n], script, next) /\ OpOf(queue[n], script) = "enqueue"
  <2>1. queue[n] \in Entry
    BY DEF ShapeFit
  <2> QED
    BY <1>1, <2>1 DEF ItemsMade, Stock, Queued
<1>3. ASSUME NEW p \in Sender, NEW n \in DOMAIN todo[p], NEW a \in DOMAIN todo[p][n].items
      PROVE  /\ todo[p][n].items[a] \in Entry /\ todo[p][n].items[a].id[1] \in Thread
             /\ Posted(todo[p][n].items[a], script, next) /\ Made(todo[p][n].items[a], script, next)
             /\ OpOf(todo[p][n].items[a], script) = "enqueue" <=> todo[p][n].batch
  <2>1. todo[p][n].items \in Seq(Entry)
    BY Parcels
  <2>2. todo[p][n].items[a] \in Entry
    BY <2>1
  <2>3. Load(todo[p][n], script, next)
    BY DEF ItemsMade, Stock
  <2>4. Posted(todo[p][n].items[a], script, next)
        /\ (OpOf(todo[p][n].items[a], script) = "enqueue" <=> todo[p][n].batch)
    BY <2>3 DEF Load
  <2> QED
    BY <1>1, <2>2, <2>4 DEF Posted
<1> QED
  BY <1>2, <1>3

(* An item that was never queued or posted, and is in no place so far. *)
Unposted(item) == \A e : Posted(e, script, next) /\ e.id[1] \in Thread => ~ Same(e, item)

Unplaced(item) ==
  /\ ~ Has(queue, item)
  /\ \A p \in Sender : \A n \in DOMAIN todo[p] : ~ Has(todo[p][n].items, item)

LEMMA FreshUnposted ==
  ASSUME ShapeFit, NEW t \in Thread, NEW e, e.id = <<t, next[t]>>
  PROVE  Unposted(e)
BY NotYet DEF Unposted, Posted

LEMMA UnpostedUnplaced ==
  ASSUME ShapeFit, ItemsMade, NEW e, Unposted(e)
  PROVE  Unplaced(e)
BY Stocked DEF Unposted, Unplaced, Has, Posted

LEMMA FreshUnplaced ==
  ASSUME ShapeFit, ItemsMade, NEW t \in Thread, NEW e, e.id = <<t, next[t]>>
  PROVE  Unplaced(e)
BY FreshUnposted, UnpostedUnplaced

LEMMA SameSym == \A a, b : Same(a, b) <=> Same(b, a)
BY DEF Same

LEMMA PostsPlaces ==
  ASSUME ShapeFit, PlacesFit, NEW t \in Thread, NEW items, Posts(t, items), pending' = pending,
         Apart(items), \A a \in DOMAIN items : Unplaced(items[a])
  PROVE  PlacesFit'
<1>1. queue' = queue /\ todo[t] = << >>
  BY DEF Posts, Goes
<1>2. DOMAIN todo'[t] = DOMAIN items
      /\ \A n \in DOMAIN items : DOMAIN todo'[t][n].items = {1} /\ todo'[t][n].items[1] = items[n]
  <2> SUFFICES ASSUME NEW n \in DOMAIN items
               PROVE  DOMAIN todo'[t][n].items = {1} /\ todo'[t][n].items[1] = items[n]
    BY PostsShape
  <2>1. todo'[t][n] = [batch |-> FALSE, items |-> <<items[n]>>]
    BY PostsShape
  <2>2. PICK e : e = items[n]
    OBVIOUS
  <2>3. todo'[t][n].items = <<e>>
    BY <2>1, <2>2
  <2> QED
    BY <2>2, <2>3
<1>3. \A p \in Sender \ {t} : todo'[p] = todo[p]
  BY PostsShape
<1>4. ASSUME NEW m \in DOMAIN items
      PROVE  /\ Apart(todo'[t][m].items) /\ ~ Share(todo'[t][m].items, queue)
             /\ \A p \in Sender \ {t} : \A n \in DOMAIN todo[p] :
                  ~ Share(todo'[t][m].items, todo[p][n].items) /\ ~ Share(todo[p][n].items, todo'[t][m].items)
             /\ \A n \in DOMAIN items : Share(todo'[t][m].items, todo'[t][n].items) => m = n
  <2>1. Apart(todo'[t][m].items)
    BY <1>2 DEF Apart
  <2>2. ~ Share(todo'[t][m].items, queue)
    BY <1>2, SameSym DEF Share, Unplaced, Has
  <2>3. ASSUME NEW p \in Sender \ {t}, NEW n \in DOMAIN todo[p]
        PROVE  ~ Share(todo'[t][m].items, todo[p][n].items) /\ ~ Share(todo[p][n].items, todo'[t][m].items)
    BY <1>2, SameSym DEF Share, Unplaced, Has
  <2>4. ASSUME NEW n \in DOMAIN items, Share(todo'[t][m].items, todo'[t][n].items) PROVE m = n
    BY <1>2, <2>4 DEF Share, Apart
  <2> QED
    BY <2>1, <2>2, <2>3, <2>4
<1>5. ASSUME NEW p \in Sender, NEW m \in DOMAIN todo'[p]
      PROVE  /\ Apart(todo'[p][m].items) /\ ~ Share(todo'[p][m].items, queue')
             /\ \A q \in Sender : \A n \in DOMAIN todo'[q] :
                  Share(todo'[p][m].items, todo'[q][n].items) => p = q /\ m = n
  <2>1. CASE p = t
    BY <1>1, <1>2, <1>3, <1>4, <2>1
  <2>2. CASE p # t
    <3>1. todo'[p] = todo[p] /\ m \in DOMAIN todo[p]
      BY <1>3, <2>2
    <3> QED
      BY <1>1, <1>2, <1>3, <1>4, <2>2, <3>1 DEF PlacesFit
  <2> QED
    BY <2>1, <2>2
<1> QED
  BY <1>1, <1>5 DEF PlacesFit


LEMMA ApartOne == \A e : Apart(<<e>>)
BY DEF Apart

(* The calls of a block but the end of a span post new items only. *)
LEMMA BlockStepNew ==
  ASSUME ShapeFit, NEW t \in Thread, BlockStep(t), ~ AddModelCall(t), ~ LeaveSpan(t)
  PROVE  /\ pending' = pending
         /\ \/ Passes(t)
            \/ \E items : Posts(t, items) /\ Apart(items) /\ \A a \in DOMAIN items : Unposted(items[a])
<1> DEFINE New == \E items : Posts(t, items) /\ Apart(items) /\ \A a \in DOMAIN items : Unposted(items[a])
<1>1. ASSUME NEW e, e.id = <<t, next[t]>>, Posts(t, <<e>>) PROVE New
  <2>1. Unposted(e)
    BY <1>1, FreshUnposted
  <2>2. \A a \in DOMAIN <<e>> : Unposted(<<e>>[a])
    BY <2>1
  <2> QED
    BY <1>1, <2>2, ApartOne
<1>3. \A kind, trace, span, parent : Item(t, kind, trace, span, parent).id = <<t, next[t]>>
  BY DEF Item
<1>4. CASE EnterTrace(t)
  BY <1>1, <1>3, <1>4, EnterTracePosts
<1>5. CASE OpenSpan(t)
  <2>1. PICK trace : trace = script[t][next[t]].trace
    OBVIOUS
  <2>2. PICK e : e = Item(t, "span", trace, script[t][next[t]].span, Parent(stack[trace]))
    OBVIOUS
  <2>3. Posts(t, <<e>>) /\ pending' = pending
    BY <1>5, <2>1, <2>2, OpenSpanPosts
  <2> QED
    BY <1>1, <1>3, <2>2, <2>3
<1>6. CASE Event(t)
  BY <1>1, <1>3, <1>6, EventPosts
<1>7. CASE ExitTrace(t)
  <2>1. PICK end : end = Item(t, "finish", script[t][next[t]].trace, Null, Null)
    OBVIOUS
  <2>2. PICK error : error = Item(t, "event", script[t][next[t]].trace, Null, Null)
    OBVIOUS
  <2>3. (Posts(t, <<end>>) \/ Posts(t, <<error, end>>)) /\ pending' = pending
    BY <1>7, <2>1, <2>2, ExitTracePosts
  <2>4. end.id = <<t, next[t]>> /\ error.id = <<t, next[t]>> /\ ~ Same(error, end) /\ ~ Same(end, error)
    BY <2>1, <2>2 DEF Item, Same
  <2>5. CASE Posts(t, <<error, end>>)
    <3>1. Apart(<<error, end>>)
      BY <2>4 DEF Apart
    <3>2. Unposted(error) /\ Unposted(end)
      BY <2>4, FreshUnposted
    <3>3. \A a \in DOMAIN <<error, end>> : Unposted(<<error, end>>[a])
      BY <3>2
    <3> QED
      BY <2>3, <2>5, <3>1, <3>3
  <2> QED
    BY <1>1, <2>3, <2>4, <2>5
<1>8. CASE NoopCall(t) \/ Shut(t)
  BY <1>8, NoopCallPasses, ShutPasses
<1> QED
  BY <1>4, <1>5, <1>6, <1>7, <1>8 DEF BlockStep

LEMMA AddModelCallPlaces ==
  ASSUME ShapeFit, ItemsMade, PlacesFit, NEW t \in Thread, AddModelCall(t)
  PROVE  PlacesFit'
<1> DEFINE c == script[t][next[t]]
<1>1. PICK item : item = Item(t, "model", c.trace, c.span, Null)
  OBVIOUS
<1>2. Passes(t) /\ c.op = "model" /\ pending' = [pending EXCEPT ![c.span] = Append(pending[c.span], item)]
  BY <1>1, AddModelCallPasses
<1>3. pending \in [SpanId -> Seq(Entry)] /\ item.id = <<t, next[t]>>
  BY <1>1 DEF ShapeFit, BlocksFit, Item
<1>4. ASSUME NEW s \in SpanId PROVE Apart(pending'[s])
  <2>1. PICK old \in Seq(Entry) : old = pending[s]
    BY <1>3
  <2>2. Apart(old)
    BY <2>1 DEF PlacesFit
  <2>3. \A n \in DOMAIN old : ~ Same(old[n], item) /\ ~ Same(item, old[n])
    <3> SUFFICES ASSUME NEW n \in DOMAIN old PROVE ~ Same(old[n], item) /\ ~ Same(item, old[n])
      OBVIOUS
    <3>1. Made(old[n], script, next)
      BY <2>1 DEF ItemsMade, Stock
    <3>2. old[n] \in Entry
      BY <2>1
    <3>3. old[n].id[1] \in Thread
      BY <3>2 DEF Entry
    <3> QED
      BY <1>3, <3>1, <3>3, NotYet
  <2>4. PICK new : new = Append(old, item)
    OBVIOUS
  <2>5. \A n \in DOMAIN new : (new[n] = item /\ n = Len(old) + 1) \/ (n \in DOMAIN old /\ new[n] = old[n])
    BY <2>1, <2>4
  <2>6. Apart(new)
    BY <2>2, <2>3, <2>5 DEF Apart
  <2>7. pending'[s] = old \/ pending'[s] = new
    BY <1>2, <1>3, <2>1, <2>4
  <2> QED
    BY <2>2, <2>6, <2>7
<1> QED
  BY <1>2, <1>4 DEF PlacesFit, Passes

(* A span is left once, so its calls were not posted before that. *)
LEMMA LeaveSpanNew ==
  ASSUME ShapeFit, ItemsMade, PlacesFit, NEW t \in Thread, LeaveSpan(t)
  PROVE  /\ pending' = pending
         /\ \E items : Posts(t, items) /\ Apart(items) /\ \A a \in DOMAIN items : Unposted(items[a])
<1> DEFINE c == script[t][next[t]]
<1>1. PICK item : item = Item(t, "update", c.trace, c.span, Null)
  OBVIOUS
<1>2. c.op = "leave" /\ Posts(t, <<item>> \o pending[c.span]) /\ pending' = pending
  BY <1>1, LeaveSpanPosts
<1>3. BlocksFit /\ next[t] \in DOMAIN script[t] /\ pending \in [SpanId -> Seq(Entry)] /\ next[t] \in Nat \ {0}
  BY <1>2 DEF ShapeFit, BlocksFit, Posts, Goes
<1>4. PICK span \in SpanId : span = c.span
  BY <1>2, <1>3, ScriptShape DEF TraceOp
<1>5. PICK calls \in Seq(Entry) : calls = pending[span]
  BY <1>3
<1>6. PICK items : items = <<item>> \o calls
  OBVIOUS
<1>7. Posts(t, items) /\ items \in Seq(Entry)
  BY <1>2, <1>4, <1>5, <1>6 DEF Posts
<1>8. item.id = <<t, next[t]>> /\ Unposted(item)
  BY <1>1, FreshUnposted DEF Item
<1>9. /\ Len(items) = 1 + Len(calls) /\ items[1] = item
      /\ \A a \in 2 .. Len(items) : a - 1 \in DOMAIN calls /\ items[a] = calls[a - 1]
  <2>1. <<item>> \in Seq({item}) /\ Len(<<item>>) = 1 /\ <<item>>[1] = item
    OBVIOUS
  <2>2. calls \in Seq(Entry \cup {item}) /\ <<item>> \in Seq(Entry \cup {item})
    OBVIOUS
  <2>3. /\ Len(items) = 1 + Len(calls)
        /\ \A a \in 1 .. Len(items) : items[a] = IF a <= 1 THEN <<item>>[a] ELSE calls[a - 1]
    BY <1>6, <2>1, <2>2, ConcatProperties
  <2>4. Len(calls) \in Nat /\ DOMAIN calls = 1 .. Len(calls)
    OBVIOUS
  <2>5. items[1] = item
    BY <2>1, <2>3, <2>4
  <2>6. \A a \in 2 .. Len(items) : a - 1 \in DOMAIN calls /\ items[a] = calls[a - 1]
    BY <2>3, <2>4
  <2> QED
    BY <2>3, <2>5, <2>6
<1>10. \A a \in DOMAIN calls :
         /\ calls[a].id[1] \in Thread /\ Made(calls[a], script, next)
         /\ OpOf(calls[a], script) = "model" /\ calls[a].span = span
  <2> SUFFICES ASSUME NEW a \in DOMAIN calls
               PROVE  /\ calls[a].id[1] \in Thread /\ Made(calls[a], script, next)
                      /\ OpOf(calls[a], script) = "model" /\ calls[a].span = span
    OBVIOUS
  <2>1. calls[a] \in Entry
    OBVIOUS
  <2>2. calls[a].id[1] \in Thread
    BY <2>1 DEF Entry
  <2> QED
    BY <1>5, <2>2 DEF ItemsMade, Stock
<1>11. ~ Left(span, script, next)
  <2> SUFFICES ASSUME NEW u \in Thread, NEW k \in 1 .. next[u] - 1, Leaves(script[u], k, span) PROVE FALSE
    BY DEF Left
  <2>1. next[u] \in Nat /\ next[u] <= Len(script[u]) + 1
    BY <1>3 DEF BlocksFit
  <2>2. k \in DOMAIN script[u]
    BY <1>3, <2>1, ScriptShape
  <2>3. script[u][k].op = "leave" /\ script[u][k].span = c.span
    BY <1>4 DEF Leaves
  <2>4. u = t /\ k = next[t]
    BY <1>2, <1>3, <2>2, <2>3, OneBlock
  <2> QED
    BY <2>1, <2>4
<1>12. \A a \in DOMAIN calls : Unposted(calls[a])
  <2> SUFFICES ASSUME NEW a \in DOMAIN calls, NEW d, Posted(d, script, next), Same(d, calls[a]) PROVE FALSE
    BY DEF Unposted
  <2>1. PICK e : e = calls[a]
    OBVIOUS
  <2>2. Made(e, script, next) /\ OpOf(e, script) = "model" /\ e.span = span /\ Same(d, e)
    BY <1>10, <2>1
  <2>3. OpOf(d, script) = "model"
    BY <2>2 DEF Same, OpOf
  <2>4. d.span = span
    BY <2>2 DEF Same, Posted, Made, OpOf
  <2> QED
    BY <1>11, <2>3, <2>4 DEF Posted
<1>13. \A a \in DOMAIN calls : ~ Same(calls[a], item) /\ ~ Same(item, calls[a])
  BY <1>8, <1>10, NotYet
<1>14. DOMAIN items = 1 .. Len(items) /\ Len(items) \in Nat
  BY <1>7
<1>15. \A a \in DOMAIN items : a = 1 \/ a \in 2 .. Len(items)
  BY <1>14
<1>16. Apart(items)
  <2> SUFFICES ASSUME NEW a \in DOMAIN items, NEW b \in DOMAIN items, Same(items[a], items[b]) PROVE a = b
    BY DEF Apart
  <2>1. Apart(calls)
    BY <1>5 DEF PlacesFit
  <2>2. CASE a = 1 \/ b = 1
    BY <1>9, <1>13, <1>15, <2>2
  <2>3. CASE a # 1 /\ b # 1
    <3>1. a - 1 \in DOMAIN calls /\ b - 1 \in DOMAIN calls /\ Same(calls[a - 1], calls[b - 1])
      BY <1>9, <1>15, <2>3
    <3>2. a - 1 = b - 1
      BY <2>1, <3>1 DEF Apart
    <3> QED
      BY <1>14, <3>2
  <2> QED
    BY <2>2, <2>3
<1>17. \A a \in DOMAIN items : Unposted(items[a])
  BY <1>8, <1>9, <1>12, <1>15
<1> QED
  BY <1>2, <1>7, <1>16, <1>17

LEMMA BlockStepPosts ==
  ASSUME ShapeFit, ItemsMade, PlacesFit, NEW t \in Thread, BlockStep(t)
  PROVE  \/ Passes(t)
         \/ /\ pending' = pending
            /\ \E items : Posts(t, items) /\ Apart(items) /\ \A a \in DOMAIN items : Unposted(items[a])
BY BlockStepNew, LeaveSpanNew, AddModelCallPasses

LEMMA BlockStepPlaces ==
  ASSUME ShapeFit, ItemsMade, PlacesFit, NEW t \in Thread, BlockStep(t)
  PROVE  PlacesFit'
<1>1. CASE AddModelCall(t)
  BY <1>1, AddModelCallPlaces
<1>2. CASE pending' = pending /\ Passes(t)
  BY <1>2 DEF PlacesFit, Passes
<1>3. ASSUME NEW items, pending' = pending, Posts(t, items), Apart(items),
             \A a \in DOMAIN items : Unposted(items[a])
      PROVE  PlacesFit'
  <2>1. \A a \in DOMAIN items : Unplaced(items[a])
    BY <1>3, UnpostedUnplaced
  <2> QED
    BY <1>3, <2>1, PostsPlaces
<1> QED
  BY <1>1, <1>2, <1>3, BlockStepNew, LeaveSpanNew

(* Below, an item is pushed: where the items of the queue go. *)
LEMMA PushMoves ==
  ASSUME ShapeFit, NEW t \in Thread, NEW item, Puts(t, item)
  PROVE  /\ \A n \in DOMAIN queue' :
              \/ n = Len(queue') /\ queue'[n] = item
              \/ n # Len(queue') /\ \E d \in {0, 1} :
                   /\ d = IF Len(queue) = QueueMax THEN 1 ELSE 0
                   /\ n + d \in DOMAIN queue /\ queue'[n] = queue[n + d]
         /\ Len(queue') \in DOMAIN queue'
         /\ \A n \in DOMAIN queue :
              \/ \E m \in DOMAIN queue' : queue'[m] = queue[n]
              \/ n = 1 /\ Len(queue) = QueueMax
         /\ DOMAIN gone' = DOMAIN gone /\ "dropped" \in DOMAIN gone
         /\ \A o \in DOMAIN gone : \A e : e \in gone'[o] <=>
              \/ e \in gone[o]
              \/ o = "dropped" /\ Len(queue) = QueueMax /\ e = queue[1]
         /\ 1 \in DOMAIN queue \/ Len(queue) # QueueMax
<1>1. /\ queue \in Seq(Entry) /\ item \in Entry /\ QueueMax \in Nat \ {0} /\ Push(item)
  BY TelemetryAssumption DEF ShapeFit, Puts
<1>2. PICK g \in [dropped : SUBSET Entry, lost : SUBSET Entry, answered : SUBSET Entry] : g = gone
  BY DEF ShapeFit
<1>3. DOMAIN g = {"dropped", "lost", "answered"}
  OBVIOUS
<1>4. CASE Len(queue) = QueueMax
  <2>1. queue # << >> /\ 1 \in DOMAIN queue /\ Head(queue) = queue[1]
    BY <1>1, <1>4
  <2>2. PICK rest \in Seq(Entry) : rest = Tail(queue)
    BY <1>1, <2>1, HeadTailProperties
  <2>3. Len(rest) = Len(queue) - 1 /\ \A i \in 1 .. Len(rest) : rest[i] = queue[i + 1]
    BY <1>1, <2>1, <2>2, HeadTailProperties
  <2>4. queue' = Append(rest, item) /\ gone' = [g EXCEPT !.dropped = @ \cup {queue[1]}]
    BY <1>1, <1>2, <1>4, <2>1, <2>2 DEF Push
  <2>5. PICK new \in Seq(Entry) : new = Append(rest, item)
    BY <1>1, AppendProperties
  <2>6. /\ Len(new) = Len(queue) /\ new[Len(new)] = item /\ DOMAIN new = 1 .. Len(queue)
        /\ Len(queue) \in Nat \ {0}
        /\ \A n \in 1 .. Len(queue) - 1 : new[n] = queue[n + 1]
    BY <1>1, <1>4, <2>3, <2>5
  <2>7. /\ DOMAIN gone' = DOMAIN gone
        /\ \A o \in DOMAIN gone : \A e : e \in gone'[o] <=> e \in gone[o] \/ (o = "dropped" /\ e = queue[1])
    BY <1>2, <1>3, <2>4
  <2>8. \A n \in DOMAIN new : n = Len(new) \/ (n + 1 \in DOMAIN queue /\ new[n] = queue[n + 1])
    BY <1>1, <2>6
  <2>9. \A n \in DOMAIN queue : n # 1 => n - 1 \in DOMAIN new /\ new[n - 1] = queue[n]
    <3> SUFFICES ASSUME NEW n \in DOMAIN queue, n # 1 PROVE n - 1 \in DOMAIN new /\ new[n - 1] = queue[n]
      OBVIOUS
    <3>1. n - 1 \in 1 .. Len(queue) - 1 /\ n - 1 + 1 = n
      BY <1>1
    <3> QED
      BY <2>6, <3>1
  <2>10. queue' = new /\ Len(new) \in DOMAIN new
    BY <2>4, <2>5, <2>6
  <2> HIDE DEF Puts
  <2> QED
    BY <1>2, <1>3, <1>4, <2>1, <2>6, <2>7, <2>8, <2>9, <2>10
<1>5. CASE Len(queue) # QueueMax
  <2>1. queue' = Append(queue, item) /\ gone' = gone
    BY <1>1, <1>5 DEF Push
  <2>2. PICK new \in Seq(Entry) : new = Append(queue, item)
    BY <1>1, AppendProperties
  <2>3. /\ Len(new) = Len(queue) + 1 /\ new[Len(new)] = item /\ DOMAIN new = 1 .. Len(queue) + 1
        /\ Len(queue) \in Nat /\ DOMAIN queue = 1 .. Len(queue)
        /\ \A n \in 1 .. Len(queue) : new[n] = queue[n]
    BY <1>1, <2>2
  <2>4. \A n \in DOMAIN new : n = Len(new) \/ (n + 0 \in DOMAIN queue /\ new[n] = queue[n + 0])
    BY <2>3
  <2>5. \A n \in DOMAIN queue : n \in DOMAIN new /\ new[n] = queue[n]
    BY <2>3
  <2>6. queue' = new /\ Len(new) \in DOMAIN new
    BY <2>1, <2>2, <2>3
  <2> QED
    BY <1>2, <1>3, <1>5, <2>1, <2>3, <2>4, <2>5, <2>6
<1> QED
  BY <1>4, <1>5

LEMMA PutsPlaces ==
  ASSUME ShapeFit, ItemsMade, PlacesFit, NEW t \in Thread, NEW item, Puts(t, item)
  PROVE  PlacesFit'
<1>1. Unplaced(item)
  BY FreshUnplaced DEF Puts, Item
<1>2. PICK d \in {0, 1} :
        \A n \in DOMAIN queue' :
          \/ n = Len(queue') /\ queue'[n] = item
          \/ n # Len(queue') /\ n + d \in DOMAIN queue /\ queue'[n] = queue[n + d]
  BY PushMoves
<1>3. \A n \in DOMAIN queue' : n \in Nat
  <2>1. queue' \in Seq(Entry)
    BY PutsShape DEF ShapeFit
  <2> QED
    BY <2>1
<1>4. Apart(queue')
  <2> SUFFICES ASSUME NEW m \in DOMAIN queue', NEW n \in DOMAIN queue', Same(queue'[m], queue'[n]) PROVE m = n
    BY DEF Apart
  <2>1. CASE m = Len(queue') /\ n = Len(queue')
    BY <2>1
  <2>2. CASE m # Len(queue') /\ n = Len(queue')
    BY <1>1, <1>2, <2>2 DEF Unplaced, Has
  <2>3. CASE m = Len(queue') /\ n # Len(queue')
    BY <1>1, <1>2, <2>3, SameSym DEF Unplaced, Has
  <2>4. CASE m # Len(queue') /\ n # Len(queue')
    <3>1. m + d \in DOMAIN queue /\ n + d \in DOMAIN queue /\ Same(queue[m + d], queue[n + d])
      BY <1>2, <2>4
    <3>2. m + d = n + d
      BY <3>1 DEF PlacesFit, Apart
    <3> QED
      BY <1>3, <3>2
  <2> QED
    BY <2>1, <2>2, <2>3, <2>4
<1>5. \A n \in DOMAIN queue' : queue'[n] = item \/ \E m \in DOMAIN queue : queue'[n] = queue[m]
  BY <1>2
<1>6. \A p \in Sender : \A m \in DOMAIN todo[p] : ~ Share(todo[p][m].items, queue')
  BY <1>1, <1>5 DEF PlacesFit, Share, Unplaced, Has
<1> QED
  BY <1>4, <1>6 DEF PlacesFit, Puts

LEMMA TakesPlaces ==
  ASSUME ShapeFit, PlacesFit, NEW p \in Sender, Takes(p)
  PROVE  PlacesFit'
<1>1. queue \in Seq(Entry) /\ todo \in [Sender -> Seq(Parcel)] /\ BatchMax \in Nat \ {0} /\ todo[p] = << >>
  BY TelemetryAssumption DEF ShapeFit, Takes
<1>2. PICK posts \in Seq(Parcel) :
        /\ posts = Chunks(queue)
        /\ \A k \in DOMAIN posts : \A a \in DOMAIN posts[k].items :
             /\ a \in 1 .. BatchMax /\ (k - 1) * BatchMax + a \in DOMAIN queue
             /\ posts[k].items[a] = queue[(k - 1) * BatchMax + a]
  BY <1>1, ChunksAre
<1>3. todo' = [todo EXCEPT ![p] = posts] /\ queue' = << >> /\ pending' = pending
  BY <1>2 DEF Takes
<1>4. ASSUME NEW k \in DOMAIN posts, NEW l \in DOMAIN posts, NEW a \in DOMAIN posts[k].items,
             NEW b \in DOMAIN posts[l].items, Same(posts[k].items[a], posts[l].items[b])
      PROVE  k = l /\ a = b
  <2>1. k \in Nat \ {0} /\ l \in Nat \ {0}
    OBVIOUS
  <2>2. a \in 1 .. BatchMax /\ b \in 1 .. BatchMax
    BY <1>2
  <2>3. PICK i \in DOMAIN queue, j \in DOMAIN queue :
          i = (k - 1) * BatchMax + a /\ j = (l - 1) * BatchMax + b /\ Same(queue[i], queue[j])
    BY <1>2, <1>4
  <2>4. i = j
    BY <2>3 DEF PlacesFit, Apart
  <2> QED
    BY <1>1, <2>1, <2>2, <2>3, <2>4, OneChunk
<1>5. \A k \in DOMAIN posts : \A a \in DOMAIN posts[k].items : \E n \in DOMAIN queue : posts[k].items[a] = queue[n]
  BY <1>2
<1>6. ASSUME NEW q \in Sender \ {p}, NEW n \in DOMAIN todo[q], NEW k \in DOMAIN posts
      PROVE  ~ Share(todo[q][n].items, posts[k].items) /\ ~ Share(posts[k].items, todo[q][n].items)
  BY <1>5, SameSym DEF PlacesFit, Share
<1>7. todo'[p] = posts /\ \A q \in Sender \ {p} : todo'[q] = todo[q]
  BY <1>1, <1>3
<1>8. \A items : ~ Share(items, queue')
  BY <1>3 DEF Share
<1>9. Apart(queue')
  BY <1>3 DEF Apart
<1>10. \A k, l \in DOMAIN posts : Share(posts[k].items, posts[l].items) => k = l
  BY <1>4 DEF Share
<1>11. \A k \in DOMAIN posts : Apart(posts[k].items)
  BY <1>4 DEF Apart
<1>12. ASSUME NEW q \in Sender, NEW m \in DOMAIN todo'[q]
       PROVE  /\ Apart(todo'[q][m].items)
              /\ \A u \in Sender : \A n \in DOMAIN todo'[u] :
                   Share(todo'[q][m].items, todo'[u][n].items) => q = u /\ m = n
  <2>1. CASE q = p
    BY <1>6, <1>7, <1>10, <1>11, <2>1
  <2>2. CASE q # p
    BY <1>6, <1>7, <2>2 DEF PlacesFit
  <2> QED
    BY <2>1, <2>2
<1> QED
  BY <1>3, <1>8, <1>9, <1>12 DEF PlacesFit

LEMMA SettlesPlaces ==
  ASSUME ShapeFit, PlacesFit, NEW p \in Sender, todo[p] # << >>, Settles(p), queue' = queue, pending' = pending
  PROVE  PlacesFit'
<1>1. CASE todo' = todo
  BY <1>1 DEF PlacesFit
<1>2. ASSUME NEW outcome \in {"lost", "answered"}, PostEnds(p, outcome) PROVE PlacesFit'
  <2>1. \A q \in Sender : \E d \in {0, 1} : \A n \in DOMAIN todo'[q] :
          n + d \in DOMAIN todo[q] /\ todo'[q][n] = todo[q][n + d] /\ n \in Nat
    <3> SUFFICES ASSUME NEW q \in Sender
                 PROVE  \E d \in {0, 1} : \A n \in DOMAIN todo'[q] :
                          n + d \in DOMAIN todo[q] /\ todo'[q][n] = todo[q][n + d] /\ n \in Nat
      OBVIOUS
    <3>1. todo'[q] \in Seq(Parcel)
      BY <1>2, PostEndsShape
    <3>2. \A n \in DOMAIN todo'[q] : n \in Nat /\ n + 0 = n
      BY <3>1
    <3>3. CASE q = p
      BY <1>2, <3>2, <3>3, PostEndsMoves
    <3>4. CASE q # p
      <4>1. \A n \in DOMAIN todo'[q] : n + 0 \in DOMAIN todo[q] /\ todo'[q][n] = todo[q][n + 0] /\ n \in Nat
        BY <1>2, <3>2, <3>4, PostEndsMoves
      <4> QED
        BY <4>1
    <3> QED
      BY <3>3, <3>4
  <2>2. ASSUME NEW q \in Sender, NEW u \in Sender, NEW m \in DOMAIN todo'[q], NEW n \in DOMAIN todo'[u],
               Share(todo'[q][m].items, todo'[u][n].items)
        PROVE  q = u /\ m = n
    <3>1. PICK d \in {0, 1} : \A i \in DOMAIN todo'[q] :
            i + d \in DOMAIN todo[q] /\ todo'[q][i] = todo[q][i + d] /\ i \in Nat
      BY <2>1
    <3>2. PICK e \in {0, 1} : \A i \in DOMAIN todo'[u] :
            i + e \in DOMAIN todo[u] /\ todo'[u][i] = todo[u][i + e] /\ i \in Nat
      BY <2>1
    <3>3. q = u
      BY <2>2, <3>1, <3>2 DEF PlacesFit
    <3>4. n + d \in DOMAIN todo[q] /\ todo'[u][n] = todo[q][n + d] /\ n \in Nat /\ m \in Nat
      BY <3>1, <3>3
    <3>5. Share(todo[q][m + d].items, todo[q][n + d].items)
      BY <2>2, <3>1, <3>4
    <3>6. m + d = n + d
      BY <3>1, <3>4, <3>5 DEF PlacesFit
    <3> QED
      BY <3>3, <3>4, <3>6
  <2>3. \A q \in Sender : \A m \in DOMAIN todo'[q] : \E k \in DOMAIN todo[q] : todo'[q][m] = todo[q][k]
    BY <2>1
  <2> QED
    BY <2>2, <2>3 DEF PlacesFit
<1> QED
  BY <1>1, <1>2 DEF Settles

LEMMA NextPlaces ==
  ASSUME ShapeFit, ItemsMade, PlacesFit, [Next]_vars
  PROVE  PlacesFit'
<1>1. CASE UNCHANGED <<queue, pending, todo>>
  BY <1>1 DEF PlacesFit
<1>2. ASSUME NEW t \in Thread, Step(t) PROVE PlacesFit'
  <2>1. CASE Enqueue(t)
    BY <2>1, EnqueuePuts, PutsPlaces
  <2>2. CASE Flush(t)
    BY <2>2, FlushTakes, TakesPlaces, SenderIs
  <2>3. CASE BlockStep(t)
    BY <2>3, BlockStepPlaces
  <2> QED
    BY <1>2, <2>1, <2>2, <2>3 DEF Step, BlockStep
<1>3. ASSUME NEW f \in Flusher, FlushAsync(f) PROVE PlacesFit'
  BY <1>3, FlushAsyncTakes, TakesPlaces, SenderIs
<1>4. ASSUME NEW p \in Sender, Post(p) PROVE PlacesFit'
  <2>1. /\ todo[p] # << >> /\ Kept /\ queue' = queue
        /\ Settles(p) \/ todo' = todo
    BY <1>4, SendIs, TimeOutIs, AnsweredIs DEF Post, Settles
  <2> QED
    BY <1>1, <2>1, SettlesPlaces DEF Kept
<1>5. ASSUME NEW r \in DOMAIN net, ServeItem(r) \/ Commit(r) \/ Fail(r) PROVE PlacesFit'
  <2>1. UNCHANGED <<blocks, buffer, posting>>
    <3>1. CASE ServeItem(r)
      BY <3>1, ServeItemServes
    <3>2. CASE Commit(r)
      BY <3>2, CommitReplies
    <3>3. CASE Fail(r)
      BY <3>3, FailReplies
    <3> QED
      BY <1>5, <3>1, <3>2, <3>3
  <2> QED
    BY <1>1, <2>1 DEF blocks, buffer, posting
<1>6. CASE UNCHANGED vars
  BY <1>1, <1>6 DEF vars
<1> QED
  BY <1>2, <1>3, <1>4, <1>5, <1>6 DEF Next


-----------------------------------------------------------------------------
(* Nothing that was enqueued is forgotten *)

LEMMA WasPutNext ==
  ASSUME ShapeFit, NEW t \in Thread, Goes(t), NEW item, WasPut(item, script, next')
  PROVE  \/ WasPut(item, script, next)
         \/ script[t][next[t]].op = "enqueue" /\ item = Put(script, t, next[t])
<1>1. next \in [Thread -> Nat \ {0}] /\ next' = [next EXCEPT ![t] = next[t] + 1]
  BY DEF ShapeFit, BlocksFit, Goes
<1>2. PICK u \in Thread :
        \E k \in 1 .. next'[u] - 1 : script[u][k].op = "enqueue" /\ item = Put(script, u, k)
  BY DEF WasPut
<1>3. PICK k \in 1 .. next'[u] - 1 : script[u][k].op = "enqueue" /\ item = Put(script, u, k)
  BY <1>2
<1>4. k \in 1 .. next[u] - 1 \/ (u = t /\ k = next[t])
  BY <1>1
<1> QED
  BY <1>3, <1>4 DEF WasPut

LEMMA BlockStepOp ==
  ASSUME ShapeFit, NEW t \in Thread, BlockStep(t)
  PROVE  script[t][next[t]].op # "enqueue"
BY DEF BlockStep, EnterTrace, NoopCall, OpenSpan, AddModelCall, LeaveSpan, Event, ExitTrace, Shut, Live, Call, TraceOp

LEMMA BlockStepGone ==
  ASSUME ShapeFit, ItemsMade, GoneFit, NEW t \in Thread, BlockStep(t), ItemsMade'
  PROVE  GoneFit'
<1>1. Goes(t) /\ script' = script /\ script[t][next[t]].op # "enqueue"
  BY BlockStepMoves, BlockStepOp DEF Goes
<1>2. \A item : WasPut(item, script, next') => WasPut(item, script, next)
  BY <1>1, WasPutNext
<1>3. CASE Passes(t)
  BY <1>1, <1>2, <1>3 DEF GoneFit, Waits, Passes
<1>4. ASSUME NEW items, Posts(t, items) PROVE GoneFit'
  <2>1. todo[t] = << >> /\ queue' = queue /\ gone' = gone
    BY <1>4 DEF Posts, Goes
  <2>2. /\ \A n \in DOMAIN todo'[t] : todo'[t][n].batch = FALSE
        /\ \A p \in Sender \ {t} : todo'[p] = todo[p]
    <3>1. \A n \in DOMAIN todo'[t] : n \in DOMAIN items
      BY <1>4, PostsShape
    <3>2. \A n \in DOMAIN todo'[t] : todo'[t][n] = [batch |-> FALSE, items |-> <<items[n]>>]
      BY <1>4, <3>1, PostsShape
    <3>3. ASSUME NEW n \in DOMAIN todo'[t] PROVE todo'[t][n].batch = FALSE
      <4>1. PICK one : one = <<items[n]>>
        OBVIOUS
      <4>2. todo'[t][n] = [batch |-> FALSE, items |-> one]
        BY <3>2, <4>1
      <4> QED
        BY <4>2
    <3> QED
      BY <1>4, <3>3, PostsShape
  <2>3. ASSUME NEW item, Waits(item) PROVE Waits(item)'
    <3>1. \A p \in Sender : \A n \in DOMAIN todo[p] : p # t
      BY <2>1
    <3> QED
      BY <2>1, <2>2, <2>3, <3>1 DEF Waits
  <2>4. ASSUME NEW o \in DOMAIN gone, NEW item \in gone[o] PROVE ~ Waits(item)'
    <3>1. OpOf(item, script) = "enqueue"
      BY DEF ItemsMade, Stock, Queued
    <3>2. ~ Waits(item)
      BY DEF GoneFit
    <3>3. ASSUME NEW n \in DOMAIN todo'[t], NEW a \in DOMAIN todo'[t][n].items, todo'[t][n].items[a] = item
          PROVE  FALSE
      <4>1. Load(todo'[t][n], script, next')
        BY <1>1, SenderIs DEF ItemsMade, Stock
      <4> QED
        BY <2>2, <3>1, <3>3, <4>1 DEF Load
    <3> QED
      BY <2>1, <2>2, <3>2, <3>3 DEF Waits, In
  <2>5. ASSUME NEW item, WasPut(item, script', next')
        PROVE  Waits(item)' \/ \E o \in DOMAIN gone' : item \in gone'[o]
    BY <1>1, <1>2, <2>1, <2>3, <2>5 DEF GoneFit
  <2> QED
    BY <2>1, <2>4, <2>5 DEF GoneFit
<1> QED
  BY <1>3, <1>4, BlockStepMoves

LEMMA PutsGone ==
  ASSUME ShapeFit, ItemsMade, PlacesFit, GoneFit, NEW t \in Thread, NEW item, Puts(t, item)
  PROVE  GoneFit'
<1>1. Goes(t) /\ script' = script /\ todo' = todo /\ item = Put(script, t, next[t]) /\ item.id = <<t, next[t]>>
  BY DEF Puts, Goes, Item, Put
<1>2. Unplaced(item)
  BY <1>1, FreshUnplaced
<1>3. /\ \A n \in DOMAIN queue' : queue'[n] = item \/ \E m \in DOMAIN queue : queue'[n] = queue[m]
      /\ \E n \in DOMAIN queue' : queue'[n] = item
      /\ \A n \in DOMAIN queue :
           (\E m \in DOMAIN queue' : queue'[m] = queue[n]) \/ (n = 1 /\ Len(queue) = QueueMax)
      /\ DOMAIN gone' = DOMAIN gone /\ "dropped" \in DOMAIN gone
      /\ \A o \in DOMAIN gone : \A e :
           e \in gone'[o] <=> e \in gone[o] \/ (o = "dropped" /\ Len(queue) = QueueMax /\ e = queue[1])
      /\ 1 \in DOMAIN queue \/ Len(queue) # QueueMax
  BY PushMoves
<1>4. ASSUME NEW e, WasPut(e, script, next')
      PROVE  Waits(e)' \/ \E o \in DOMAIN gone' : e \in gone'[o]
  <2>1. CASE e = item
    BY <1>3, <2>1 DEF Waits, In
  <2>2. CASE WasPut(e, script, next)
    <3>1. CASE \E o \in DOMAIN gone : e \in gone[o]
      BY <1>3, <3>1
    <3>2. CASE In(queue, e)
      <4>1. PICK n \in DOMAIN queue : queue[n] = e
        BY <3>2 DEF In
      <4>2. CASE \E m \in DOMAIN queue' : queue'[m] = queue[n]
        BY <4>1, <4>2 DEF Waits, In
      <4>3. CASE n = 1 /\ Len(queue) = QueueMax
        BY <1>3, <4>1, <4>3
      <4> QED
        BY <1>3, <4>2, <4>3
    <3>3. CASE \E p \in Sender : \E n \in DOMAIN todo[p] : In(todo[p][n].items, e)
      BY <1>1, <3>3 DEF Waits
    <3> QED
      BY <2>2, <3>1, <3>2, <3>3 DEF GoneFit, Waits
  <2> QED
    BY <1>1, <1>4, <2>1, <2>2, WasPutNext
<1>5. ASSUME NEW o \in DOMAIN gone, NEW e \in gone[o], Waits(e)' PROVE FALSE
  <2>1. ~ Waits(e)
    BY DEF GoneFit
  <2>2. e = item
    BY <1>1, <1>3, <1>5, <2>1 DEF Waits, In
  <2>3. Made(e, script, next) /\ e \in Entry
    BY DEF ItemsMade, Stock, Queued, ShapeFit
  <2>4. e.id[1] \in Thread
    BY <2>3 DEF Entry
  <2> QED
    BY <1>1, <2>2, <2>3, <2>4, NotYet DEF Same
<1>6. ASSUME 1 \in DOMAIN queue, Len(queue) = QueueMax, NEW e, e = queue[1]
      PROVE  ~ Waits(e)' /\ \A o \in DOMAIN gone : e \notin gone[o]
  <2>1. \A o \in DOMAIN gone : e \notin gone[o]
    BY <1>6 DEF GoneFit, Waits, In
  <2>2. ~ Same(e, item)
    BY <1>2, <1>6 DEF Unplaced, Has
  <2>3. ~ In(queue', e)
    <3> SUFFICES ASSUME NEW n \in DOMAIN queue', queue'[n] = e PROVE FALSE
      BY DEF In
    <3>1. queue'[n] # item
      BY <2>2 DEF Same
    <3>2. PICK d \in {0, 1} :
            /\ d = IF Len(queue) = QueueMax THEN 1 ELSE 0
            /\ n + d \in DOMAIN queue /\ queue'[n] = queue[n + d]
      BY <3>1, PushMoves
    <3>3. d = 1
      BY <1>6, <3>2
    <3>4. Same(queue[n + 1], queue[1])
      BY <1>6, <3>2, <3>3 DEF Same
    <3>5. n + 1 = 1
      BY <1>6, <3>2, <3>3, <3>4 DEF PlacesFit, Apart
    <3>6. queue' \in Seq(Entry)
      BY PutsShape DEF ShapeFit
    <3>7. n \in Nat \ {0}
      BY <3>6
    <3> QED
      BY <3>5, <3>7
  <2>4. \A p \in Sender : \A n \in DOMAIN todo'[p] : ~ In(todo'[p][n].items, e)
    BY <1>1, <1>6 DEF PlacesFit, Share, In, Same
  <2> QED
    BY <2>1, <2>3, <2>4 DEF Waits
<1>7. ASSUME NEW o \in DOMAIN gone', NEW e \in gone'[o]
      PROVE  ~ Waits(e)' /\ \A oo \in DOMAIN gone' : e \in gone'[oo] => oo = o
  <2>1. CASE e \in gone[o]
    <3>1. ~ Waits(e)' /\ \A oo \in DOMAIN gone : e \in gone[oo] => oo = o
      BY <1>3, <1>5, <2>1 DEF GoneFit
    <3>2. ~ (1 \in DOMAIN queue /\ Len(queue) = QueueMax /\ e = queue[1])
      BY <1>3, <1>6, <2>1
    <3> QED
      BY <1>3, <3>1, <3>2
  <2>2. CASE o = "dropped" /\ Len(queue) = QueueMax /\ e = queue[1]
    <3>1. ~ Waits(e)' /\ \A oo \in DOMAIN gone : e \notin gone[oo]
      BY <1>3, <1>6, <2>2
    <3> QED
      BY <1>3, <2>2, <3>1
  <2> QED
    BY <1>3, <2>1, <2>2
<1> QED
  BY <1>1, <1>4, <1>7 DEF GoneFit

LEMMA TakesGone ==
  ASSUME ShapeFit, GoneFit, NEW p \in Sender, Takes(p),
         \A item : WasPut(item, script', next') => WasPut(item, script, next)
  PROVE  GoneFit'
<1>1. queue \in Seq(Entry) /\ todo \in [Sender -> Seq(Parcel)] /\ todo[p] = << >> /\ gone' = gone
  BY DEF ShapeFit, Takes
<1>2. PICK posts \in Seq(Parcel) :
        /\ posts = Chunks(queue)
        /\ \A k \in DOMAIN posts : \A a \in DOMAIN posts[k].items : \E n \in DOMAIN queue : posts[k].items[a] = queue[n]
        /\ \A n \in DOMAIN queue : \E k \in DOMAIN posts : \E a \in DOMAIN posts[k].items : posts[k].items[a] = queue[n]
  <2>1. PICK posts \in Seq(Parcel) :
          /\ posts = Chunks(queue)
          /\ \A k \in DOMAIN posts : \A a \in DOMAIN posts[k].items :
               LET n == (k - 1) * BatchMax + a IN n \in DOMAIN queue /\ posts[k].items[a] = queue[n]
          /\ \A n \in DOMAIN queue : \E k \in DOMAIN posts : \E a \in DOMAIN posts[k].items :
               n = (k - 1) * BatchMax + a
    BY <1>1, ChunksAre
  <2>2. \A n \in DOMAIN queue : \E k \in DOMAIN posts : \E a \in DOMAIN posts[k].items : posts[k].items[a] = queue[n]
    BY <2>1
  <2> QED
    BY <2>1, <2>2
<1>3. todo' = [todo EXCEPT ![p] = posts] /\ queue' = << >>
  BY <1>2 DEF Takes
<1>4. todo'[p] = posts /\ \A q \in Sender \ {p} : todo'[q] = todo[q]
  BY <1>1, <1>3
<1>5. ASSUME NEW item PROVE Waits(item)' <=> Waits(item)
  <2>1. ~ In(queue', item)
    BY <1>3 DEF In
  <2>2. (\E n \in DOMAIN posts : In(posts[n].items, item)) <=> In(queue, item)
    BY <1>2 DEF In
  <2>3. \A n \in DOMAIN todo[p] : FALSE
    BY <1>1
  <2>4. Waits(item)' <=> \E q \in Sender : \E n \in DOMAIN todo'[q] : In(todo'[q][n].items, item)
    BY <2>1 DEF Waits
  <2>5. (\E q \in Sender : \E n \in DOMAIN todo'[q] : In(todo'[q][n].items, item)) <=>
          \/ \E n \in DOMAIN posts : In(posts[n].items, item)
          \/ \E q \in Sender \ {p} : \E n \in DOMAIN todo[q] : In(todo[q][n].items, item)
    BY <1>4
  <2>6. (\E q \in Sender : \E n \in DOMAIN todo[q] : In(todo[q][n].items, item)) <=>
          \E q \in Sender \ {p} : \E n \in DOMAIN todo[q] : In(todo[q][n].items, item)
    BY <2>3
  <2> QED
    BY <2>2, <2>4, <2>5, <2>6 DEF Waits
<1> QED
  BY <1>1, <1>5 DEF GoneFit


LEMMA SettlesGone ==
  ASSUME ShapeFit, ItemsMade, PlacesFit, GoneFit, NEW p \in Sender, todo[p] # << >>, Settles(p),
         queue' = queue, script' = script, next' = next
  PROVE  GoneFit'
<1>1. CASE todo' = todo /\ gone' = gone
  BY <1>1 DEF GoneFit, Waits
<1>2. ASSUME NEW outcome \in {"lost", "answered"}, PostEnds(p, outcome) PROVE GoneFit'
  <2> DEFINE head == todo[p][1]
  <2>1. /\ \A n \in DOMAIN todo'[p] : n + 1 \in DOMAIN todo[p] /\ todo'[p][n] = todo[p][n + 1]
        /\ \A n \in DOMAIN todo[p] : n # 1 => n - 1 \in DOMAIN todo'[p] /\ todo'[p][n - 1] = todo[p][n]
        /\ \A q \in Sender : q # p => todo'[q] = todo[q]
        /\ DOMAIN gone = {"dropped", "lost", "answered"} /\ DOMAIN gone' = DOMAIN gone
        /\ \A o \in DOMAIN gone : \A item :
             item \in gone'[o] <=> item \in gone[o] \/ (o = outcome /\ head.batch /\ In(head.items, item))
    <3>1. \A item : In(head.items, item) <=> \E a \in DOMAIN head.items : item = head.items[a]
      BY DEF In
    <3> HIDE DEF In
    <3> QED
      BY <1>2, <3>1, PostEndsMoves
  <2>2. 1 \in DOMAIN todo[p] /\ todo'[p] \in Seq(Parcel)
    BY <1>2, RequestShape, PostEndsShape
  <2>3. ASSUME NEW item, Waits(item)' PROVE Waits(item) /\ ~ In(head.items, item)
    <3>1. CASE In(queue', item)
      <4>1. In(queue, item)
        BY <3>1
      <4> QED
        BY <2>2, <4>1 DEF Waits, In, PlacesFit, Share, Same
    <3>2. ASSUME NEW q \in Sender, NEW n \in DOMAIN todo'[q], In(todo'[q][n].items, item)
          PROVE  Waits(item) /\ ~ In(head.items, item)
      <4>1. PICK m \in DOMAIN todo[q] : todo'[q][n] = todo[q][m] /\ (q = p => m # 1)
        <5>1. CASE q = p
          <6>1. n \in Nat \ {0}
            BY <2>2, <3>2, <5>1
          <6>2. n + 1 \in DOMAIN todo[q] /\ todo'[q][n] = todo[q][n + 1] /\ n + 1 # 1
            BY <2>1, <5>1, <6>1
          <6> QED
            BY <6>2
        <5>2. CASE q # p
          BY <2>1, <5>2
        <5> QED
          BY <5>1, <5>2
      <4>2. In(todo[q][m].items, item)
        BY <3>2, <4>1
      <4>3. ~ Share(head.items, todo[q][m].items)
        BY <2>2, <4>1 DEF PlacesFit
      <4>4. ~ In(head.items, item)
        BY <4>2, <4>3 DEF In, Share, Same
      <4> QED
        BY <4>2, <4>4 DEF Waits
    <3> QED
      BY <2>3, <3>1, <3>2 DEF Waits
  <2>4. ASSUME NEW item, Waits(item) PROVE Waits(item)' \/ In(head.items, item)
    <3>1. CASE In(queue, item)
      BY <3>1 DEF Waits
    <3>2. ASSUME NEW q \in Sender, NEW n \in DOMAIN todo[q], In(todo[q][n].items, item)
          PROVE  Waits(item)' \/ In(head.items, item)
      <4>1. CASE q = p /\ n = 1
        BY <3>2, <4>1
      <4>2. CASE q = p /\ n # 1
        <5>1. n - 1 \in DOMAIN todo'[q] /\ In(todo'[q][n - 1].items, item)
          BY <2>1, <3>2, <4>2
        <5> QED
          BY <5>1 DEF Waits
      <4>3. CASE q # p
        <5>1. n \in DOMAIN todo'[q] /\ In(todo'[q][n].items, item)
          BY <2>1, <3>2, <4>3
        <5> QED
          BY <5>1 DEF Waits
      <4> QED
        BY <4>1, <4>2, <4>3
    <3> QED
      BY <2>4, <3>1, <3>2 DEF Waits
  <2>5. ASSUME NEW item, WasPut(item, script, next), In(head.items, item) PROVE head.batch
    <3>1. OpOf(item, script) = "enqueue"
      BY <2>5 DEF WasPut, Put, OpOf
    <3> QED
      BY <2>2, <2>5, <3>1, Stocked DEF In
  <2>6. ASSUME NEW item, WasPut(item, script, next)
        PROVE  Waits(item)' \/ \E o \in DOMAIN gone' : item \in gone'[o]
    BY <2>1, <2>4, <2>5, <2>6 DEF GoneFit
  <2>7. ASSUME NEW o \in DOMAIN gone', NEW item \in gone'[o]
        PROVE  ~ Waits(item)' /\ \A oo \in DOMAIN gone' : item \in gone'[oo] => oo = o
    <3>1. In(head.items, item) => Waits(item)
      BY <2>2 DEF Waits
    <3>2. CASE item \in gone[o]
      BY <2>1, <2>3, <2>7, <3>1, <3>2 DEF GoneFit
    <3>3. CASE o = outcome /\ In(head.items, item)
      BY <2>1, <2>3, <2>7, <3>1, <3>3 DEF GoneFit
    <3> QED
      BY <2>1, <2>7, <3>2, <3>3
  <2> QED
    BY <2>6, <2>7 DEF GoneFit
<1> QED
  BY <1>1, <1>2 DEF Settles

LEMMA NextGone ==
  ASSUME ShapeFit, ItemsMade, PlacesFit, GoneFit, [Next]_vars, ItemsMade'
  PROVE  GoneFit'
<1>1. CASE UNCHANGED <<script, next, queue, todo, gone>>
  BY <1>1 DEF GoneFit, Waits
<1>2. ASSUME NEW t \in Thread, Step(t) PROVE GoneFit'
  <2>1. CASE Enqueue(t)
    BY <2>1, EnqueuePuts, PutsGone
  <2>2. CASE Flush(t)
    <3>1. Takes(t) /\ Goes(t) /\ script[t][next[t]].op = "flush" /\ script' = script
      BY <2>2, FlushTakes DEF Goes
    <3>2. \A item : WasPut(item, script', next') => WasPut(item, script, next)
      BY <3>1, WasPutNext
    <3> QED
      BY <3>1, <3>2, TakesGone, SenderIs
  <2>3. CASE BlockStep(t)
    BY <2>3, BlockStepGone
  <2> QED
    BY <1>2, <2>1, <2>2, <2>3 DEF Step, BlockStep
<1>3. ASSUME NEW f \in Flusher, FlushAsync(f) PROVE GoneFit'
  <2>1. Takes(f) /\ script' = script /\ next' = next
    BY <1>3, FlushAsyncTakes
  <2> QED
    BY <2>1, TakesGone, SenderIs
<1>4. ASSUME NEW p \in Sender, Post(p) PROVE GoneFit'
  <2>1. /\ todo[p] # << >> /\ Kept /\ queue' = queue
        /\ Settles(p) \/ (todo' = todo /\ gone' = gone)
    BY <1>4, SendIs, TimeOutIs, AnsweredIs DEF Post, Settles
  <2> QED
    BY <1>1, <2>1, SettlesGone DEF Kept
<1>5. ASSUME NEW r \in DOMAIN net, ServeItem(r) \/ Commit(r) \/ Fail(r) PROVE GoneFit'
  <2>1. UNCHANGED <<blocks, buffer, posting>>
    <3>1. CASE ServeItem(r)
      BY <3>1, ServeItemServes
    <3>2. CASE Commit(r)
      BY <3>2, CommitReplies
    <3>3. CASE Fail(r)
      BY <3>3, FailReplies
    <3> QED
      BY <1>5, <3>1, <3>2, <3>3
  <2> QED
    BY <1>1, <2>1 DEF blocks, buffer, posting
<1>6. CASE UNCHANGED vars
  BY <1>1, <1>6 DEF vars
<1> QED
  BY <1>2, <1>3, <1>4, <1>5, <1>6 DEF Next

PlacesHold == BlocksHold /\ PlacesFit /\ GoneFit

LEMMA PlacesInvariant == Spec => []PlacesHold
<1>1. Init => PlacesHold
  <2>1. ASSUME Init PROVE PlacesFit /\ GoneFit
    <3>1. PlacesFit
      BY <2>1 DEF Init, PlacesFit, Apart
    <3>2. \A item : ~ WasPut(item, script, next)
      BY <2>1 DEF Init, WasPut
    <3>3. GoneFit
      BY <2>1, <3>2 DEF Init, GoneFit
    <3> QED
      BY <3>1, <3>3
  <2> QED
    BY <2>1, InitShape, InitStacks, InitMade DEF PlacesHold, BlocksHold
<1>2. PlacesHold /\ [Next]_vars => PlacesHold'
  BY NextShape, NextStacks, NextMade, NextPlaces, NextGone DEF PlacesHold, BlocksHold
<1> QED
  BY <1>1, <1>2, PTL DEF Spec

LEMMA AtMostOne ==
  ASSUME NEW S, \A a, b \in S : a = b
  PROVE  /\ Cardinality(S) = IF S = {} THEN 0 ELSE 1
<1>1. CASE S = {}
  BY <1>1, FS_EmptySet
<1>2. CASE S # {}
  <2>1. PICK a : S = {a}
    BY <1>2
  <2> QED
    BY <2>1, FS_Singleton
<1> QED
  BY <1>1, <1>2

LEMMA OnePlace ==
  ASSUME PlacesHold
  PROVE  ItemsHaveOnePlace
<1>1. ShapeFit /\ ItemsMade /\ PlacesFit /\ GoneFit
  BY DEF PlacesHold, BlocksHold
<1>2. Len(queue) <= QueueMax
  BY <1>1 DEF ShapeFit
<1>3. \A a : Same(a, a)
  BY DEF Same
<1>4. ASSUME NEW items, Apart(items), NEW item
      PROVE  Occurrences(items, item) = IF In(items, item) THEN 1 ELSE 0
  <2> DEFINE S == {n \in DOMAIN items : items[n] = item}
  <2>1. \A a, b \in S : a = b
    BY <1>3, <1>4 DEF Apart
  <2>2. S = {} <=> ~ In(items, item)
    BY DEF In
  <2> HIDE DEF S
  <2>3. Cardinality(S) = IF S = {} THEN 0 ELSE 1
    BY <2>1, AtMostOne
  <2> QED
    BY <2>2, <2>3 DEF Occurrences, S
<1>5. ASSUME NEW item
      PROVE  /\ \A h : h \in Held(item) <=> h \in UNION {{p} \X DOMAIN todo[p] : p \in Sender} /\ In(todo[h[1]][h[2]].items, item)
             /\ Cardinality(Held(item)) = IF Held(item) = {} THEN 0 ELSE 1
             /\ Held(item) # {} <=> \E p \in Sender : \E n \in DOMAIN todo[p] : In(todo[p][n].items, item)
  <2>1. \A items : item \in ToSet(items) <=> In(items, item)
    BY DEF ToSet, In
  <2>2. \A h : h \in Held(item) <=> h \in UNION {{p} \X DOMAIN todo[p] : p \in Sender} /\ In(todo[h[1]][h[2]].items, item)
    BY <2>1 DEF Held
  <2>3. ASSUME NEW h \in Held(item)
        PROVE  \E p \in Sender : \E n \in DOMAIN todo[p] : h = <<p, n>> /\ In(todo[p][n].items, item)
    BY <2>2
  <2>4. ASSUME NEW p \in Sender, NEW n \in DOMAIN todo[p], In(todo[p][n].items, item)
        PROVE  <<p, n>> \in Held(item)
    BY <2>2, <2>4
  <2>5. \A g, h \in Held(item) : g = h
    <3> SUFFICES ASSUME NEW g \in Held(item), NEW h \in Held(item) PROVE g = h
      OBVIOUS
    <3>1. PICK p \in Sender : \E n \in DOMAIN todo[p] : g = <<p, n>> /\ In(todo[p][n].items, item)
      BY <2>3
    <3>2. PICK n \in DOMAIN todo[p] : g = <<p, n>> /\ In(todo[p][n].items, item)
      BY <3>1
    <3>3. PICK q \in Sender : \E m \in DOMAIN todo[q] : h = <<q, m>> /\ In(todo[q][m].items, item)
      BY <2>3
    <3>4. PICK m \in DOMAIN todo[q] : h = <<q, m>> /\ In(todo[q][m].items, item)
      BY <3>3
    <3>5. Share(todo[p][n].items, todo[q][m].items)
      BY <1>3, <3>2, <3>4 DEF Share, In
    <3> QED
      BY <1>1, <3>2, <3>4, <3>5 DEF PlacesFit
  <2> QED
    BY <2>2, <2>3, <2>4, <2>5, AtMostOne
<1>6. ASSUME NEW item
      PROVE  /\ Cardinality(Gone(item)) = IF Gone(item) = {} THEN 0 ELSE 1
             /\ Gone(item) # {} <=> \E o \in DOMAIN gone : item \in gone[o]
  BY <1>1, AtMostOne DEF Gone, GoneFit
<1>7. ASSUME NEW item \in Enqueued
      PROVE  /\ Occurrences(queue, item) + Cardinality(Held(item)) + Cardinality(Gone(item)) = 1
             /\ \A h \in Held(item) : Occurrences(todo[h[1]][h[2]].items, item) = 1
  <2>1. WasPut(item, script, next)
    BY DEF Enqueued, WasPut, Put
  <2>2. Waits(item) \/ \E o \in DOMAIN gone : item \in gone[o]
    BY <1>1, <2>1 DEF GoneFit
  <2>3. ~ (Waits(item) /\ \E o \in DOMAIN gone : item \in gone[o])
    BY <1>1 DEF GoneFit
  <2>4. ~ (In(queue, item) /\ \E p \in Sender : \E n \in DOMAIN todo[p] : In(todo[p][n].items, item))
    BY <1>1, <1>3 DEF PlacesFit, In, Share
  <2>5. Occurrences(queue, item) = IF In(queue, item) THEN 1 ELSE 0
    BY <1>1, <1>4 DEF PlacesFit
  <2>6. Occurrences(queue, item) + Cardinality(Held(item)) + Cardinality(Gone(item)) = 1
    BY <1>5, <1>6, <2>2, <2>3, <2>4, <2>5 DEF Waits
  <2>7. ASSUME NEW h \in Held(item) PROVE Occurrences(todo[h[1]][h[2]].items, item) = 1
    <3>1. In(todo[h[1]][h[2]].items, item) /\ h[1] \in Sender /\ h[2] \in DOMAIN todo[h[1]]
      BY <1>5
    <3>2. Apart(todo[h[1]][h[2]].items)
      BY <1>1, <3>1 DEF PlacesFit
    <3> QED
      BY <1>4, <3>1, <3>2
  <2> QED
    BY <2>6, <2>7
<1> QED
  BY <1>2, <1>7 DEF ItemsHaveOnePlace

(* Whatever the order in which threads push, take and post the queue, an   *)
(* item that was enqueued is in one place: queued, in one post, or gone in *)
(* one way.                                                                *)
THEOREM NothingIsForgotten == Spec => []ItemsHaveOnePlace
BY PlacesInvariant, OnePlace, PTL


-----------------------------------------------------------------------------
(* Requests are attempts, and copies are late ones *)

LEMMA Recalled ==
  ASSUME ShapeFit, ItemsMade
  PROVE  /\ \A r \in DOMAIN net : net[r] # Null => \A a \in DOMAIN net[r].items :
              Posted(net[r].items[a], script, next) /\ net[r].items[a].id[1] \in Thread
         /\ \A n \in DOMAIN rows : Posted(rows[n].item, script, next) /\ rows[n].item.id[1] \in Thread
<1>1. \A e \in Entry : e.id[1] \in Thread
  BY DEF Entry
<1>2. ASSUME NEW r \in DOMAIN net, net[r] # Null, NEW a \in DOMAIN net[r].items
      PROVE  Posted(net[r].items[a], script, next) /\ net[r].items[a].id[1] \in Thread
  <2>1. net[r].items \in Seq(Entry)
    BY <1>2, Requests
  <2>2. net[r].items[a] \in Entry
    BY <2>1
  <2>3. Load(net[r], script, next)
    BY <1>2 DEF ItemsMade, Stock
  <2> QED
    BY <1>1, <2>2, <2>3 DEF Load
<1>3. ASSUME NEW n \in DOMAIN rows
      PROVE  Posted(rows[n].item, script, next) /\ rows[n].item.id[1] \in Thread
  <2>1. rows[n].item \in Entry
    BY LineShape DEF ShapeFit
  <2> QED
    BY <1>1, <2>1 DEF ItemsMade, Stock
<1> QED
  BY <1>2, <1>3

(* Whoever has nothing to post takes up what no request had so far. *)
LEMMA Loads ==
  ASSUME ShapeFit, AttemptsFit, RowsFit, net' = net, rows' = rows, attempt' = attempt,
         NEW p \in Sender, todo[p] = << >>, \A q \in Sender \ {p} : todo'[q] = todo[q],
         \A r \in DOMAIN net : net[r] # Null =>
           /\ ~ Share(net[r].items, queue')
           /\ \A m \in DOMAIN todo'[p] : ~ Share(net[r].items, todo'[p][m].items),
         \A n \in DOMAIN rows :
           /\ ~ Has(queue', rows[n].item)
           /\ \A m \in DOMAIN todo'[p] : ~ Has(todo'[p][m].items, rows[n].item)
  PROVE  AttemptsFit' /\ RowsFit'
<1>1. ASSUME NEW r \in DOMAIN net, net[r] # Null
      PROVE  Apart(net[r].items) /\ ~ Share(net[r].items, queue')
  BY <1>1 DEF AttemptsFit
<1>2. ASSUME NEW q \in Sender, net[q] # Null
      PROVE  /\ todo'[q] # << >> /\ net[q].items = todo'[q][1].items /\ net[q].tag[2] = attempt'[q]
  <2>1. q # p
    BY <1>2 DEF AttemptsFit
  <2> QED
    BY <1>2, <2>1 DEF AttemptsFit
<1>3. ASSUME NEW l \in Late, net[l] # Null, NEW q \in Sender, NEW n \in DOMAIN todo'[q],
             Share(net[l].items, todo'[q][n].items)
      PROVE  n = 1 /\ net[l].tag[2] < attempt'[q]
  <2>1. q # p
    BY <1>3, NetDomain
  <2> QED
    BY <1>3, <2>1 DEF AttemptsFit
<1>4. ASSUME NEW n \in DOMAIN rows, NEW q \in Sender, NEW m \in DOMAIN todo'[q],
             Has(todo'[q][m].items, rows[n].item)
      PROVE  /\ m = 1
             /\ \/ rows[n].by[2] < attempt[q] /\ Covers(net, rows[n])
                \/ net[q] # Null /\ net[q].http = 200 /\ rows[n].by = net[q].tag
  <2>1. q # p
    BY <1>4
  <2> QED
    BY <1>4, <2>1 DEF RowsFit
<1>5. AttemptsFit'
  BY <1>1, <1>2, <1>3 DEF AttemptsFit
<1>6. RowsFit'
  BY <1>4 DEF RowsFit
<1> QED
  BY <1>5, <1>6


LEMMA PostsLoads ==
  ASSUME ShapeFit, ItemsMade, AttemptsFit, RowsFit, NEW t \in Thread, NEW items, Posts(t, items),
         \A a \in DOMAIN items : Unposted(items[a])
  PROVE  AttemptsFit' /\ RowsFit'
<1>1. t \in Sender /\ todo[t] = << >> /\ net' = net /\ rows' = rows /\ attempt' = attempt /\ queue' = queue
  BY SenderIs DEF Posts, Goes
<1>2. \A q \in Sender \ {t} : todo'[q] = todo[q]
  BY PostsShape
<1>3. ASSUME NEW m \in DOMAIN todo'[t], NEW e, Posted(e, script, next), e.id[1] \in Thread,
             NEW a \in DOMAIN todo'[t][m].items
      PROVE  ~ Same(e, todo'[t][m].items[a]) /\ ~ Same(todo'[t][m].items[a], e)
  <2>1. m \in DOMAIN items /\ todo'[t][m] = [batch |-> FALSE, items |-> <<items[m]>>]
    BY PostsShape
  <2>2. PICK d : d = items[m]
    OBVIOUS
  <2>3. PICK one : one = <<d>>
    OBVIOUS
  <2>4. todo'[t][m] = [batch |-> FALSE, items |-> one]
    BY <2>1, <2>2, <2>3
  <2>5. todo'[t][m].items = one
    BY <2>4
  <2>6. todo'[t][m].items[a] = d
    BY <2>3, <2>5
  <2>7. ~ Same(e, d)
    BY <1>3, <2>1, <2>2 DEF Unposted
  <2> QED
    BY <2>6, <2>7, SameSym
<1>4. \A r \in DOMAIN net : net[r] # Null =>
        /\ ~ Share(net[r].items, queue')
        /\ \A m \in DOMAIN todo'[t] : ~ Share(net[r].items, todo'[t][m].items)
  BY <1>1, <1>3, Recalled DEF AttemptsFit, Share
<1>5. \A n \in DOMAIN rows :
        /\ ~ Has(queue', rows[n].item)
        /\ \A m \in DOMAIN todo'[t] : ~ Has(todo'[t][m].items, rows[n].item)
  BY <1>1, <1>3, Recalled DEF RowsFit, Has
<1> QED
  BY <1>1, <1>2, <1>4, <1>5, Loads

LEMMA PassesLoads ==
  ASSUME ShapeFit, AttemptsFit, RowsFit, NEW t \in Thread, Passes(t)
  PROVE  AttemptsFit' /\ RowsFit'
<1>1. AttemptsFit'
  BY DEF AttemptsFit, Passes
<1>2. RowsFit'
  BY DEF RowsFit, Passes
<1> QED
  BY <1>1, <1>2

LEMMA PutsLoads ==
  ASSUME ShapeFit, ItemsMade, AttemptsFit, RowsFit, NEW t \in Thread, NEW item, Puts(t, item)
  PROVE  AttemptsFit' /\ RowsFit'
<1>1. t \in Sender /\ todo[t] = << >> /\ net' = net /\ rows' = rows /\ attempt' = attempt /\ todo' = todo
  BY SenderIs DEF Puts, Goes
<1>2. Unposted(item)
  BY FreshUnposted DEF Puts, Item
<1>3. \A n \in DOMAIN queue' : queue'[n] = item \/ \E m \in DOMAIN queue : queue'[n] = queue[m]
  BY PushMoves
<1>4. \A r \in DOMAIN net : net[r] # Null => ~ Share(net[r].items, queue')
  BY <1>2, <1>3, Recalled DEF AttemptsFit, Share, Unposted
<1>5. \A n \in DOMAIN rows : ~ Has(queue', rows[n].item)
  BY <1>2, <1>3, Recalled, SameSym DEF RowsFit, Has, Unposted
<1>6. \A m \in DOMAIN todo'[t] : FALSE
  BY <1>1
<1> QED
  BY <1>1, <1>4, <1>5, <1>6, Loads

LEMMA TakesLoads ==
  ASSUME ShapeFit, AttemptsFit, RowsFit, NEW p \in Sender, Takes(p)
  PROVE  AttemptsFit' /\ RowsFit'
<1>1. /\ queue \in Seq(Entry) /\ todo \in [Sender -> Seq(Parcel)] /\ todo[p] = << >>
      /\ net' = net /\ rows' = rows /\ attempt' = attempt
  BY DEF ShapeFit, Takes
<1>2. PICK posts \in Seq(Parcel) :
        /\ posts = Chunks(queue)
        /\ \A k \in DOMAIN posts : \A a \in DOMAIN posts[k].items :
             \E n \in DOMAIN queue : posts[k].items[a] = queue[n]
  BY <1>1, ChunksAre
<1>3. todo' = [todo EXCEPT ![p] = posts] /\ queue' = << >>
  BY <1>2 DEF Takes
<1>4. todo'[p] = posts /\ \A q \in Sender \ {p} : todo'[q] = todo[q]
  BY <1>1, <1>3
<1>5. \A r \in DOMAIN net : net[r] # Null =>
        /\ ~ Share(net[r].items, queue')
        /\ \A m \in DOMAIN posts : ~ Share(net[r].items, posts[m].items)
  BY <1>2, <1>3 DEF AttemptsFit, Share
<1>6. \A n \in DOMAIN rows :
        /\ ~ Has(queue', rows[n].item)
        /\ \A m \in DOMAIN posts : ~ Has(posts[m].items, rows[n].item)
  BY <1>2, <1>3 DEF RowsFit, Has
<1> QED
  BY <1>1, <1>4, <1>5, <1>6, Loads

(* Requests for an item are told apart by their tags. *)
LEMMA OneTag ==
  ASSUME ShapeFit, PlacesFit, AttemptsFit, NEW r \in DOMAIN net, NEW s \in DOMAIN net,
         net[r] # Null, net[s] # Null, Share(net[r].items, net[s].items), net[r].tag = net[s].tag
  PROVE  r = s
<1>1. Share(net[s].items, net[r].items)
  BY SameSym DEF Share
<1>2. \A p \in Sender : net[p] # Null => 1 \in DOMAIN todo[p] /\ net[p].items = todo[p][1].items
  BY RequestShape DEF AttemptsFit
<1>3. attempt \in [Sender -> Nat] /\ DOMAIN net = Sender \cup Late
  BY NetDomain DEF ShapeFit
<1>4. CASE r \in Late /\ s \in Late
  BY <1>4 DEF AttemptsFit
<1>5. CASE r \in Sender /\ s \in Sender
  BY <1>2, <1>5 DEF PlacesFit
<1>6. ASSUME NEW l \in Late, NEW p \in Sender, net[l] # Null, net[p] # Null,
             Share(net[l].items, net[p].items), net[l].tag = net[p].tag
      PROVE  FALSE
  <2>1. net[p].tag[2] = attempt[p] /\ net[l].tag[2] < attempt[p]
    BY <1>2, <1>6 DEF AttemptsFit
  <2> QED
    BY <1>3, <1>6, <2>1
<1> QED
  BY <1>1, <1>3, <1>4, <1>5, <1>6

(* The request of p is over, or it was given up on and is late now. *)
Releases(p) ==
  /\ net'[p] = Null /\ DOMAIN net' = DOMAIN net
  /\ \A q \in Sender \ {p} : net'[q] = net[q]
  /\ \A l \in Late : net'[l] = net[l] \/ (net[l] = Null /\ net'[l] = net[p])
  /\ \A l, m \in Late : net'[l] # net[l] /\ net'[m] # net[m] => l = m

Ends(p) == \E outcome \in {"lost", "answered"} : PostEnds(p, outcome)

LEMMA EndsOrGoesOn ==
  ASSUME ShapeFit, NEW p \in Sender, todo[p] # << >>, Settles(p)
  PROVE  /\ \A q \in Sender \ {p} : todo'[q] = todo[q] /\ attempt'[q] = attempt[q]
         /\ Ends(p) => \A n \in DOMAIN todo'[p] :
              n + 1 \in DOMAIN todo[p] /\ n + 1 # 1 /\ todo'[p][n] = todo[p][n + 1]
         /\ Ends(p) \/ (todo' = todo /\ attempt[p] \in Nat /\ attempt'[p] = attempt[p] + 1)
<1>1. attempt \in [Sender -> Nat]
  BY DEF ShapeFit
<1>2. ASSUME NEW outcome \in {"lost", "answered"}, PostEnds(p, outcome)
      PROVE  /\ \A q \in Sender \ {p} : todo'[q] = todo[q] /\ attempt'[q] = attempt[q]
             /\ \A n \in DOMAIN todo'[p] : n + 1 \in DOMAIN todo[p] /\ n + 1 # 1 /\ todo'[p][n] = todo[p][n + 1]
  <2>1. \A q \in Sender \ {p} : todo'[q] = todo[q]
    BY <1>2, PostEndsMoves
  <2>2. \A q \in Sender \ {p} : attempt'[q] = attempt[q]
    BY <1>1, <1>2, PostEndsShape
  <2>3. ASSUME NEW n \in DOMAIN todo'[p]
        PROVE  n + 1 \in DOMAIN todo[p] /\ n + 1 # 1 /\ todo'[p][n] = todo[p][n + 1]
    <3>1. n + 1 \in DOMAIN todo[p] /\ todo'[p][n] = todo[p][n + 1]
      BY <1>2, PostEndsMoves
    <3>2. todo'[p] \in Seq(Parcel)
      BY <1>2, PostEndsShape
    <3> QED
      BY <3>1, <3>2
  <2> QED
    BY <2>1, <2>2, <2>3
<1>3. CASE ~ Ends(p) /\ todo' = todo /\ attempt' = [attempt EXCEPT ![p] = attempt[p] + 1]
  BY <1>1, <1>3
<1>4. CASE Ends(p)
  BY <1>2, <1>4 DEF Ends
<1> QED
  BY <1>3, <1>4 DEF Settles, Ends

LEMMA ReleasesAttempts ==
  ASSUME ShapeFit, PlacesFit, AttemptsFit, NEW p \in Sender, todo[p] # << >>, Settles(p), Releases(p),
         queue' = queue
  PROVE  AttemptsFit'
<1>0. attempt \in [Sender -> Nat] /\ DOMAIN net = Sender \cup Late /\ 1 \in DOMAIN todo[p]
  BY NetDomain, RequestShape DEF ShapeFit
<1>1. /\ \A q \in Sender \ {p} : todo'[q] = todo[q] /\ attempt'[q] = attempt[q]
      /\ \/ \A n \in DOMAIN todo'[p] : n + 1 \in DOMAIN todo[p] /\ n + 1 # 1 /\ todo'[p][n] = todo[p][n + 1]
         \/ todo' = todo /\ attempt[p] \in Nat /\ attempt'[p] = attempt[p] + 1
  BY EndsOrGoesOn
<1>2. \A r \in DOMAIN net' : net'[r] # Null => r # p /\ r \in DOMAIN net
        /\ (net'[r] = net[r] \/ (r \in Late /\ net[r] = Null /\ net'[r] = net[p] /\ net[p] # Null))
  BY <1>0 DEF Releases
<1>3. ASSUME NEW r \in DOMAIN net', net'[r] # Null
      PROVE  Apart(net'[r].items) /\ ~ Share(net'[r].items, queue')
  BY <1>0, <1>2, <1>3 DEF AttemptsFit
<1>4. ASSUME NEW q \in Sender, net'[q] # Null
      PROVE  todo'[q] # << >> /\ net'[q].items = todo'[q][1].items /\ net'[q].tag[2] = attempt'[q]
  <2>1. q # p /\ net'[q] = net[q]
    BY <1>4 DEF Releases
  <2> QED
    BY <1>1, <1>4, <2>1 DEF AttemptsFit
<1>5. ASSUME NEW l \in Late, net'[l] # Null, NEW q \in Sender, NEW n \in DOMAIN todo'[q],
             Share(net'[l].items, todo'[q][n].items)
      PROVE  n = 1 /\ net'[l].tag[2] < attempt'[q]
  <2>0. \/ net'[l] = net[l] /\ net[l] # Null
        \/ net'[l] = net[p] /\ net[p] # Null
    BY <1>5 DEF Releases
  <2>1. CASE net'[l] = net[l] /\ net[l] # Null
    <3>1. CASE q # p
      BY <1>1, <1>5, <2>1, <3>1 DEF AttemptsFit
    <3>2. CASE q = p /\ n + 1 \in DOMAIN todo[p] /\ n + 1 # 1 /\ todo'[p][n] = todo[p][n + 1]
      <4>1. Share(net[l].items, todo[p][n + 1].items)
        BY <1>5, <2>1, <3>2
      <4> QED
        BY <2>1, <3>2, <4>1 DEF AttemptsFit
    <3>3. CASE q = p /\ todo' = todo /\ attempt'[p] = attempt[p] + 1
      <4>1. n = 1 /\ net[l].tag[2] < attempt[p]
        BY <1>5, <2>1, <3>3 DEF AttemptsFit
      <4>2. net[l].tag[2] \in Nat
        <5>1. l \in DOMAIN net
          BY <1>0
        <5> QED
          BY <2>1, <5>1, Requests DEF Tag
      <4> QED
        BY <1>0, <2>1, <3>3, <4>1, <4>2
    <3> QED
      BY <1>1, <1>5, <3>1, <3>2, <3>3
  <2>2. CASE net'[l] = net[p] /\ net[p] # Null
    <3>1. net[p].items = todo[p][1].items /\ net[p].tag[2] = attempt[p]
      BY <2>2 DEF AttemptsFit
    <3>2. Share(todo[p][1].items, todo'[q][n].items)
      BY <1>5, <2>2, <3>1
    <3>3. CASE q # p
      BY <1>0, <1>1, <1>5, <3>2, <3>3 DEF PlacesFit
    <3>4. CASE q = p /\ n + 1 \in DOMAIN todo[p] /\ n + 1 # 1 /\ todo'[p][n] = todo[p][n + 1]
      <4>1. Share(todo[p][1].items, todo[p][n + 1].items)
        BY <3>2, <3>4
      <4> QED
        BY <1>0, <3>4, <4>1 DEF PlacesFit
    <3>5. CASE q = p /\ todo' = todo /\ attempt'[p] = attempt[p] + 1
      <4>1. n = 1
        BY <1>0, <1>5, <3>2, <3>5 DEF PlacesFit
      <4> QED
        BY <1>0, <2>2, <3>1, <3>5, <4>1
    <3> QED
      BY <1>1, <1>5, <3>3, <3>4, <3>5
  <2> QED
    BY <2>0, <2>1, <2>2
<1>6. ASSUME NEW l \in Late, NEW m \in Late, net'[l] # Null, net'[m] # Null,
             Share(net'[l].items, net'[m].items), net'[l].tag = net'[m].tag
      PROVE  l = m
  <2>0. \A k \in Late : net'[k] # Null =>
          \/ net'[k] = net[k] /\ net[k] # Null
          \/ net'[k] # net[k] /\ net'[k] = net[p] /\ net[p] # Null
    BY DEF Releases
  <2>1. ASSUME NEW k \in Late, net[k] # Null, net[p] # Null, Share(net[k].items, net[p].items) \/ Share(net[p].items, net[k].items),
               net[k].tag = net[p].tag
        PROVE  FALSE
    <3>1. k \in DOMAIN net /\ p \in DOMAIN net /\ k # p
      BY <1>0, TelemetryAssumption
    <3> QED
      BY <2>1, <3>1, OneTag
  <2>2. CASE net'[l] = net[l] /\ net[l] # Null /\ net'[m] = net[m] /\ net[m] # Null
    BY <1>6, <2>2 DEF AttemptsFit
  <2>3. CASE net'[l] # net[l] /\ net'[m] # net[m]
    BY <2>3 DEF Releases
  <2> QED
    BY <1>6, <2>0, <2>1, <2>2, <2>3
<1> QED
  BY <1>3, <1>4, <1>5, <1>6 DEF AttemptsFit

LEMMA ReleasesRows ==
  ASSUME ShapeFit, AttemptsFit, RowsFit, NEW p \in Sender, todo[p] # << >>, Settles(p), Releases(p),
         queue' = queue, rows' = rows,
         Ends(p) \/ (net[p] # Null /\ (net[p].http # 200 \/ \E l \in Late : net'[l] = net[p]))
  PROVE  RowsFit'
<1>0. attempt \in [Sender -> Nat] /\ DOMAIN net = Sender \cup Late /\ 1 \in DOMAIN todo[p]
  BY NetDomain, RequestShape DEF ShapeFit
<1>1. /\ \A q \in Sender \ {p} : todo'[q] = todo[q] /\ attempt'[q] = attempt[q]
      /\ Ends(p) => \A n \in DOMAIN todo'[p] :
           n + 1 \in DOMAIN todo[p] /\ n + 1 # 1 /\ todo'[p][n] = todo[p][n + 1]
      /\ Ends(p) \/ (todo' = todo /\ attempt[p] \in Nat /\ attempt'[p] = attempt[p] + 1)
  BY EndsOrGoesOn
<1>2. \A r \in DOMAIN net' : net'[r] # Null => r \in DOMAIN net
        /\ (net'[r] = net[r] \/ (net'[r] = net[p] /\ net[p] # Null))
  BY <1>0 DEF Releases
<1>3. ASSUME NEW r \in DOMAIN net', net'[r] # Null
      PROVE  Wrote(net'[r]) /\ Recorded(net'[r], rows')
  BY <1>0, <1>2, <1>3 DEF RowsFit
<1>4. ASSUME NEW line, Covers(net, line) PROVE Covers(net', line)
  BY <1>4 DEF Covers, Releases
<1>5. ASSUME NEW n \in DOMAIN rows, NEW q \in Sender, NEW m \in DOMAIN todo'[q],
             Has(todo'[q][m].items, rows[n].item)
      PROVE  /\ m = 1
             /\ \/ rows[n].by[2] < attempt'[q] /\ Covers(net', rows[n])
                \/ net'[q] # Null /\ net'[q].http = 200 /\ rows[n].by = net'[q].tag
  <2>1. CASE q # p
    <3>1. todo'[q] = todo[q] /\ attempt'[q] = attempt[q] /\ net'[q] = net[q]
      BY <1>1, <2>1 DEF Releases
    <3> QED
      BY <1>4, <1>5, <3>1 DEF RowsFit
  <2>2. CASE q = p /\ n \in DOMAIN rows /\ m + 1 \in DOMAIN todo[p] /\ m + 1 # 1 /\ todo'[p][m] = todo[p][m + 1]
    <3>1. Has(todo[p][m + 1].items, rows[n].item)
      BY <1>5, <2>2
    <3> QED
      BY <2>2, <3>1 DEF RowsFit
  <2>3. CASE q = p /\ ~ Ends(p) /\ todo' = todo /\ attempt'[p] = attempt[p] + 1
    <3>1. /\ m = 1
          /\ \/ rows[n].by[2] < attempt[p] /\ Covers(net, rows[n])
             \/ net[p] # Null /\ net[p].http = 200 /\ rows[n].by = net[p].tag
      BY <1>5, <2>3 DEF RowsFit
    <3>2. rows[n].by[2] \in Nat
      BY LineShape DEF ShapeFit, Tag
    <3>3. CASE rows[n].by[2] < attempt[p] /\ Covers(net, rows[n])
      <4>1. rows[n].by[2] < attempt[p] + 1
        BY <1>0, <3>2, <3>3
      <4> QED
        BY <1>4, <2>3, <3>1, <3>3, <4>1
    <3>4. CASE net[p] # Null /\ net[p].http = 200 /\ rows[n].by = net[p].tag
      <4>1. PICK l \in Late : net'[l] = net[p]
        BY <2>3, <3>4
      <4>2. net[p].items = todo[p][1].items /\ net[p].tag[2] = attempt[p]
        BY <3>4 DEF AttemptsFit
      <4>3. Covers(net', rows[n])
        BY <1>5, <2>3, <3>1, <3>4, <4>1, <4>2 DEF Covers
      <4>4. rows[n].by[2] = attempt[p]
        BY <3>4, <4>2
      <4> QED
        BY <1>0, <2>3, <3>1, <4>3, <4>4
    <3> QED
      BY <3>1, <3>3, <3>4
  <2> QED
    BY <1>1, <1>5, <2>1, <2>2, <2>3
<1>6. ASSUME NEW m \in DOMAIN rows, NEW n \in DOMAIN rows, Same(rows[m].item, rows[n].item), m # n
      PROVE  rows[m].by # rows[n].by /\ (Covers(net', rows[m]) \/ Covers(net', rows[n]))
  BY <1>4, <1>6 DEF RowsFit
<1>7. \A n \in DOMAIN rows : ~ Has(queue', rows[n].item)
  BY DEF RowsFit
<1> QED
  BY <1>3, <1>5, <1>6, <1>7 DEF RowsFit

LEMMA SendLoads ==
  ASSUME ShapeFit, PlacesFit, AttemptsFit, RowsFit, NEW p \in Sender, Send(p)
  PROVE  AttemptsFit' /\ RowsFit'
<1>0. /\ todo[p] # << >> /\ net[p] = Null /\ queue' = queue /\ rows' = rows
      /\ DOMAIN net = Sender \cup Late /\ 1 \in DOMAIN todo[p] /\ attempt \in [Sender -> Nat]
  BY SendIs, NetDomain, RequestShape DEF ShapeFit
<1>1. CASE PostEnds(p, "lost") /\ net' = net
  <2>1. Settles(p) /\ Ends(p)
    BY <1>1 DEF Settles, Ends
  <2>2. Releases(p)
    BY <1>0, <1>1 DEF Releases
  <2> QED
    BY <1>0, <2>1, <2>2, ReleasesAttempts, ReleasesRows
<1>2. CASE /\ net' = [net EXCEPT ![p] = Request(p, todo[p][1])]
           /\ todo' = todo /\ attempt' = attempt /\ gone' = gone
  <2>1. PICK q \in Carried : q = Request(p, todo[p][1])
    BY <1>0, RequestShape
  <2>2. q.items = todo[p][1].items /\ q.tag[2] = attempt[p] /\ q.oks = << >> /\ q.new = << >> /\ q.http = Null
    BY <2>1 DEF Request
  <2>3. net'[p] = q /\ DOMAIN net' = DOMAIN net /\ \A r \in DOMAIN net : r # p => net'[r] = net[r]
    BY <1>0, <1>2, <2>1
  <2>4. \A l \in Late : l # p /\ net'[l] = net[l]
    BY <1>0, <2>3, TelemetryAssumption
  <2>5. Apart(q.items) /\ ~ Share(q.items, queue)
    BY <1>0, <2>2 DEF PlacesFit
  <2>6. AttemptsFit'
    <3>1. ASSUME NEW r \in DOMAIN net', net'[r] # Null
          PROVE  Apart(net'[r].items) /\ ~ Share(net'[r].items, queue')
      BY <1>0, <2>3, <2>5, <3>1 DEF AttemptsFit
    <3>2. ASSUME NEW s \in Sender, net'[s] # Null
          PROVE  todo'[s] # << >> /\ net'[s].items = todo'[s][1].items /\ net'[s].tag[2] = attempt'[s]
      BY <1>0, <1>2, <2>2, <2>3, <3>2 DEF AttemptsFit
    <3>3. /\ \A l \in Late : net'[l] # Null =>
              \A s \in Sender : \A n \in DOMAIN todo'[s] :
                Share(net'[l].items, todo'[s][n].items) => n = 1 /\ net'[l].tag[2] < attempt'[s]
          /\ \A l, m \in Late : net'[l] # Null /\ net'[m] # Null =>
              (Share(net'[l].items, net'[m].items) /\ net'[l].tag = net'[m].tag => l = m)
      BY <1>2, <2>4 DEF AttemptsFit
    <3> QED
      BY <3>1, <3>2, <3>3 DEF AttemptsFit
  <2>7. RowsFit'
    <3>0. \A line : Covers(net, line) => Covers(net', line)
      BY <2>4 DEF Covers
    <3>1. Wrote(q)
      BY <2>2 DEF Wrote
    <3>2. ASSUME NEW n \in DOMAIN rows, NEW m \in DOMAIN todo[p], Has(todo[p][m].items, rows[n].item)
          PROVE  m = 1 /\ rows[n].by[2] < attempt[p] /\ Covers(net, rows[n])
      BY <1>0, <3>2 DEF RowsFit
    <3>3. Recorded(q, rows)
      <4>1. ASSUME NEW n \in DOMAIN rows, rows[n].by = q.tag, Has(q.items, rows[n].item) PROVE FALSE
        <5>1. rows[n].by[2] < attempt[p] /\ rows[n].by[2] = attempt[p]
          BY <1>0, <2>2, <3>2, <4>1
        <5> QED
          BY <1>0, <5>1
      <4> QED
        BY <4>1 DEF Recorded
    <3>4. ASSUME NEW r \in DOMAIN net', net'[r] # Null
          PROVE  Wrote(net'[r]) /\ Recorded(net'[r], rows')
      BY <1>0, <2>3, <3>1, <3>3, <3>4 DEF RowsFit
    <3>5. ASSUME NEW n \in DOMAIN rows, NEW s \in Sender, NEW m \in DOMAIN todo[s],
                 Has(todo[s][m].items, rows[n].item)
          PROVE  /\ m = 1
                 /\ \/ rows[n].by[2] < attempt[s] /\ Covers(net', rows[n])
                    \/ net'[s] # Null /\ net'[s].http = 200 /\ rows[n].by = net'[s].tag
      <4>1. CASE s = p
        BY <3>0, <3>2, <3>5, <4>1
      <4>2. CASE s # p
        <5>1. net'[s] = net[s]
          BY <1>0, <2>3, <4>2
        <5> QED
          BY <3>0, <3>5, <5>1 DEF RowsFit
      <4> QED
        BY <4>1, <4>2
    <3>6. ASSUME NEW m \in DOMAIN rows, NEW n \in DOMAIN rows, Same(rows[m].item, rows[n].item), m # n
          PROVE  rows[m].by # rows[n].by /\ (Covers(net', rows[m]) \/ Covers(net', rows[n]))
      BY <3>0, <3>6 DEF RowsFit
    <3>7. \A n \in DOMAIN rows : ~ Has(queue', rows[n].item)
      BY <1>0 DEF RowsFit
    <3>8. rows' = rows /\ todo' = todo /\ attempt' = attempt
      BY <1>0, <1>2
    <3> QED
      BY <3>4, <3>5, <3>6, <3>7, <3>8 DEF RowsFit
  <2> QED
    BY <2>6, <2>7
<1> QED
  BY <1>1, <1>2, SendIs

LEMMA PostLoads ==
  ASSUME ShapeFit, PlacesFit, AttemptsFit, RowsFit, NEW p \in Sender, Post(p)
  PROVE  AttemptsFit' /\ RowsFit'
<1>0. net \in [Sender \cup Late -> Carried \cup {Null}] /\ \A l \in Late : l \notin Sender
  BY TelemetryAssumption DEF ShapeFit
<1>1. CASE TimeOut(p)
  <2>1. todo[p] # << >> /\ net[p] # Null /\ queue' = queue /\ rows' = rows /\ Settles(p)
    BY <1>1, TimeOutIs
  <2>2. CASE net[p].http # 200 /\ net' = [net EXCEPT ![p] = Null]
    <3>1. Releases(p)
      BY <1>0, <2>2 DEF Releases
    <3> QED
      BY <2>1, <2>2, <3>1, ReleasesAttempts, ReleasesRows
  <2>3. ASSUME NEW l \in Late, net[l] = Null, net' = [net EXCEPT ![p] = Null, ![l] = net[p]]
        PROVE  AttemptsFit' /\ RowsFit'
    <3>1. net'[l] = net[p] /\ net'[p] = Null /\ DOMAIN net' = DOMAIN net
          /\ \A r \in DOMAIN net : r # p /\ r # l => net'[r] = net[r]
      BY <1>0, <2>3
    <3>2. Releases(p)
      BY <1>0, <2>3, <3>1 DEF Releases
    <3> QED
      BY <2>1, <3>1, <3>2, ReleasesAttempts, ReleasesRows
  <2> QED
    BY <1>1, <2>2, <2>3, TimeOutIs
<1>2. CASE Answered(p)
  <2>1. /\ todo[p] # << >> /\ net[p] # Null /\ queue' = queue /\ rows' = rows /\ Settles(p)
        /\ net' = [net EXCEPT ![p] = Null] /\ (net[p].http = 200 => Ends(p))
    BY <1>2, AnsweredIs DEF Ends
  <2>2. Releases(p)
    BY <1>0, <2>1 DEF Releases
  <2> QED
    BY <2>1, <2>2, ReleasesAttempts, ReleasesRows
<1> QED
  BY <1>1, <1>2, SendLoads DEF Post

(* A request that was not answered goes on. *)
Proceeds(r) ==
  /\ r \in DOMAIN net /\ net[r] # Null /\ net[r].http = Null
  /\ net'[r] # Null /\ net'[r].items = net[r].items /\ net'[r].tag = net[r].tag
  /\ DOMAIN net' = DOMAIN net /\ \A s \in DOMAIN net : s # r => net'[s] = net[s]
  /\ queue' = queue /\ todo' = todo /\ attempt' = attempt

LEMMA ProceedsAttempts ==
  ASSUME ShapeFit, AttemptsFit, NEW r, Proceeds(r)
  PROVE  AttemptsFit' /\ \A line : Covers(net, line) => Covers(net', line)
<1>1. /\ DOMAIN net = Sender \cup Late /\ DOMAIN net' = DOMAIN net
      /\ queue' = queue /\ todo' = todo /\ attempt' = attempt
      /\ \A s \in DOMAIN net : net'[s] = Null <=> net[s] = Null
      /\ \A s \in DOMAIN net : net[s] # Null => net'[s].items = net[s].items /\ net'[s].tag = net[s].tag
  BY NetDomain DEF Proceeds
<1>2. \A s \in DOMAIN net' : net'[s] # Null => Apart(net'[s].items) /\ ~ Share(net'[s].items, queue')
  BY <1>1 DEF AttemptsFit
<1>3. \A p \in Sender : net'[p] # Null =>
        todo'[p] # << >> /\ net'[p].items = todo'[p][1].items /\ net'[p].tag[2] = attempt'[p]
  BY <1>1 DEF AttemptsFit
<1>4. \A l \in Late : net'[l] # Null =>
        \A p \in Sender : \A n \in DOMAIN todo'[p] :
          Share(net'[l].items, todo'[p][n].items) => n = 1 /\ net'[l].tag[2] < attempt'[p]
  BY <1>1 DEF AttemptsFit
<1>5. \A l, m \in Late : net'[l] # Null /\ net'[m] # Null =>
        (Share(net'[l].items, net'[m].items) /\ net'[l].tag = net'[m].tag => l = m)
  BY <1>1 DEF AttemptsFit
<1>6. \A line : Covers(net, line) => Covers(net', line)
  BY <1>1 DEF Covers
<1> QED
  BY <1>2, <1>3, <1>4, <1>5, <1>6 DEF AttemptsFit

LEMMA ProceedsLoads ==
  ASSUME ShapeFit, AttemptsFit, RowsFit, NEW r, Proceeds(r), Wrote(net'[r]), rows' = rows
  PROVE  AttemptsFit' /\ RowsFit'
<1>1. AttemptsFit' /\ \A line : Covers(net, line) => Covers(net', line)
  BY ProceedsAttempts
<1>2. /\ DOMAIN net = Sender \cup Late /\ DOMAIN net' = DOMAIN net
      /\ queue' = queue /\ todo' = todo /\ attempt' = attempt
      /\ \A s \in DOMAIN net : s # r => net'[s] = net[s]
      /\ r \in DOMAIN net /\ net[r] # Null
      /\ net'[r].items = net[r].items /\ net'[r].tag = net[r].tag /\ net[r].http = Null
  BY NetDomain DEF Proceeds
<1>3. Null # 200
  BY TelemetryAssumption
<1>4. Recorded(net'[r], rows)
  BY <1>2, <1>3 DEF RowsFit, Recorded
<1>5. \A s \in DOMAIN net' : net'[s] # Null => Wrote(net'[s]) /\ Recorded(net'[s], rows')
  BY <1>2, <1>4 DEF RowsFit
<1>6. ASSUME NEW n \in DOMAIN rows, NEW p \in Sender, NEW m \in DOMAIN todo[p], Has(todo[p][m].items, rows[n].item)
      PROVE  /\ m = 1
             /\ \/ rows[n].by[2] < attempt[p] /\ Covers(net', rows[n])
                \/ net'[p] # Null /\ net'[p].http = 200 /\ rows[n].by = net'[p].tag
  <2>1. /\ m = 1
        /\ \/ rows[n].by[2] < attempt[p] /\ Covers(net, rows[n])
           \/ net[p] # Null /\ net[p].http = 200 /\ rows[n].by = net[p].tag
    BY <1>6 DEF RowsFit
  <2>2. net[p] # Null /\ net[p].http = 200 => net'[p] = net[p]
    BY <1>2, <1>3
  <2> QED
    BY <1>1, <2>1, <2>2
<1>7. ASSUME NEW m \in DOMAIN rows, NEW n \in DOMAIN rows, Same(rows[m].item, rows[n].item), m # n
      PROVE  rows[m].by # rows[n].by /\ (Covers(net', rows[m]) \/ Covers(net', rows[n]))
  BY <1>1, <1>7 DEF RowsFit
<1>8. \A n \in DOMAIN rows : ~ Has(queue', rows[n].item)
  BY <1>2 DEF RowsFit
<1>9. RowsFit'
  <2>1. queue' = queue /\ todo' = todo /\ attempt' = attempt /\ rows' = rows
    BY <1>2
  <2> QED
    BY <1>5, <1>6, <1>7, <1>8, <2>1 DEF RowsFit
<1> QED
  BY <1>1, <1>9

(* What serving an item adds to a request. *)
LEMMA ServeItemWrites ==
  ASSUME ShapeFit, NEW r \in DOMAIN net, ServeItem(r)
  PROVE  /\ Proceeds(r) /\ net'[r].http = Null /\ rows' = rows
         /\ Len(net[r].oks) + 1 \in DOMAIN net[r].items /\ ServedItem(r) = net[r].items[Len(net[r].oks) + 1]
         /\ ServedItem(r) \in Entry
         /\ net'[r].oks = Append(net[r].oks, Accepted(r)) /\ Accepted(r) \in BOOLEAN
         /\ \/ net'[r].new = net[r].new /\ (Accepted(r) => Known(rows \o net[r].new, ServedItem(r)))
            \/ /\ Accepted(r) /\ ~ Known(rows \o net[r].new, ServedItem(r))
               /\ \E line \in Line :
                    /\ net'[r].new = Append(net[r].new, line)
                    /\ line.by = net[r].tag /\ line.item = Stored(rows \o net[r].new, ServedItem(r))
<1> DEFINE new == IF Accepted(r) THEN net[r].new \o Writes(r, rows \o net[r].new, ServedItem(r)) ELSE net[r].new
<1>1. /\ Len(net[r].oks) < Len(net[r].items) /\ ServedItem(r) \in Entry
      /\ Serves(r, Accepted(r), new)
      /\ UNCHANGED <<blocks, buffer, posting, rows>>
  BY ServeItemServes
<1>2. net[r] # Null /\ net[r].http = Null
  BY <1>1 DEF Serves
<1>3. new \in Seq(Line)
  <2>1. net[r].new \in Seq(Line)
    BY <1>2, Requests
  <2>2. net[r].new \o Writes(r, rows \o net[r].new, ServedItem(r)) \in Seq(Line)
    BY <1>1, <1>2, WritesShape
  <2> QED
    BY <2>1, <2>2
<1>4. Accepted(r) \in BOOLEAN
  BY DEF Accepted, Accepts, One, ServedItem
<1>5. /\ net'[r] # Null /\ net'[r].items = net[r].items /\ net'[r].tag = net[r].tag
      /\ net'[r].http = Null /\ net'[r].oks = Append(net[r].oks, Accepted(r)) /\ net'[r].new = new
      /\ \A p \in Sender \cup Late : p # r => net'[p] = net[p]
      /\ DOMAIN net' = Sender \cup Late
  <2> HIDE DEF new
  <2> QED
    BY <1>1, <1>3, <1>4, ServesShape
<1>6. Proceeds(r) /\ rows' = rows
  BY <1>1, <1>2, <1>5, NetDomain DEF Proceeds, buffer, posting
<1>7. Len(net[r].oks) + 1 \in DOMAIN net[r].items
  BY <1>1, <1>2, Requests
<1>8. CASE ~ Accepted(r) \/ Known(rows \o net[r].new, ServedItem(r))
  <2>1. new = net[r].new
    BY <1>1, <1>2, <1>8, WritesShape
  <2> QED
    BY <1>1, <1>4, <1>5, <1>6, <1>7, <1>8, <2>1 DEF ServedItem
<1>9. CASE Accepted(r) /\ ~ Known(rows \o net[r].new, ServedItem(r))
  <2>1. PICK line \in Line :
          /\ line.item = Stored(rows \o net[r].new, ServedItem(r)) /\ line.by = net[r].tag
          /\ net[r].new \o Writes(r, rows \o net[r].new, ServedItem(r)) = Append(net[r].new, line)
    BY <1>1, <1>2, <1>9, WritesShape
  <2>2. new = Append(net[r].new, line)
    BY <1>9, <2>1
  <2> HIDE DEF new
  <2> QED
    BY <1>1, <1>4, <1>5, <1>6, <1>7, <1>9, <2>1, <2>2 DEF ServedItem
<1> QED
  BY <1>8, <1>9

LEMMA ServeItemLoads ==
  ASSUME ShapeFit, AttemptsFit, RowsFit, NEW r \in DOMAIN net, ServeItem(r)
  PROVE  AttemptsFit' /\ RowsFit'
<1>1. /\ Proceeds(r) /\ rows' = rows /\ net[r] # Null
      /\ Len(net[r].oks) + 1 \in DOMAIN net[r].items /\ ServedItem(r) = net[r].items[Len(net[r].oks) + 1]
      /\ ServedItem(r) \in Entry
      /\ net'[r].oks = Append(net[r].oks, Accepted(r))
      /\ net'[r].items = net[r].items /\ net'[r].tag = net[r].tag
  BY ServeItemWrites DEF Proceeds
<1>2. PICK oks \in Seq(BOOLEAN) : oks = net[r].oks
  BY <1>1, Requests
<1>3. PICK new \in Seq(Line) : new = net[r].new
  BY <1>1, Requests
<1>4. Len(net'[r].oks) = Len(oks) + 1 /\ Len(oks) \in Nat
  BY <1>1, <1>2, AppendProperties, ServeItemWrites
<1>5. /\ \A n \in DOMAIN new :
           new[n].by = net[r].tag /\ \E a \in 1 .. Len(oks) : Same(net[r].items[a], new[n].item)
      /\ \A m, n \in DOMAIN new : Same(new[m].item, new[n].item) => m = n
  BY <1>1, <1>2, <1>3 DEF RowsFit, Wrote
<1>6. CASE net'[r].new = new
  <2>1. Wrote(net'[r])
    BY <1>1, <1>4, <1>5, <1>6 DEF Wrote
  <2> QED
    BY <1>1, <2>1, ProceedsLoads
<1>7. ASSUME NEW line \in Line, net'[r].new = Append(new, line),
             line.by = net[r].tag, line.item = Stored(rows \o net[r].new, ServedItem(r))
      PROVE  AttemptsFit' /\ RowsFit'
  <2>1. Same(net[r].items[Len(oks) + 1], line.item) /\ Same(line.item, net[r].items[Len(oks) + 1])
    BY <1>1, <1>2, <1>7, StoredShape, SameSym
  <2>2. /\ DOMAIN Append(new, line) = 1 .. Len(new) + 1 /\ DOMAIN new = 1 .. Len(new) /\ Len(new) \in Nat
        /\ \A i \in DOMAIN new : Append(new, line)[i] = new[i]
        /\ Append(new, line)[Len(new) + 1] = line
    BY AppendProperties
  <2>3. ASSUME NEW n \in DOMAIN new PROVE ~ Same(new[n].item, line.item) /\ ~ Same(line.item, new[n].item)
    <3>1. PICK a \in 1 .. Len(oks) : Same(net[r].items[a], new[n].item)
      BY <1>5
    <3>2. a \in DOMAIN net[r].items /\ a # Len(oks) + 1
      BY <1>1, <1>2, <1>4, Requests
    <3>3. ~ Same(net[r].items[a], net[r].items[Len(oks) + 1])
      BY <1>1, <1>2, <3>2 DEF AttemptsFit, Apart
    <3> QED
      BY <2>1, <3>1, <3>3 DEF Same
  <2>4. PICK more : more = Append(new, line)
    OBVIOUS
  <2>5. \A n \in DOMAIN more : (n \in DOMAIN new /\ more[n] = new[n]) \/ (n = Len(new) + 1 /\ more[n] = line)
    BY <2>2, <2>4
  <2>6. \A n \in DOMAIN more :
          more[n].by = net[r].tag /\ \E a \in 1 .. Len(oks) + 1 : Same(net[r].items[a], more[n].item)
    <3> SUFFICES ASSUME NEW n \in DOMAIN more
                 PROVE  more[n].by = net[r].tag /\ \E a \in 1 .. Len(oks) + 1 : Same(net[r].items[a], more[n].item)
      OBVIOUS
    <3>1. CASE n \in DOMAIN new /\ more[n] = new[n]
      <4>1. new[n].by = net[r].tag /\ \E a \in 1 .. Len(oks) : Same(net[r].items[a], new[n].item)
        BY <1>5, <3>1
      <4>2. \A a \in 1 .. Len(oks) : a \in 1 .. Len(oks) + 1
        BY <1>4
      <4> QED
        BY <3>1, <4>1, <4>2
    <3>2. CASE n = Len(new) + 1 /\ more[n] = line
      <4>1. Len(oks) + 1 \in 1 .. Len(oks) + 1
        BY <1>4
      <4> QED
        BY <1>7, <2>1, <3>2, <4>1
    <3> QED
      BY <2>5, <3>1, <3>2
  <2>7. \A m, n \in DOMAIN more : Same(more[m].item, more[n].item) => m = n
    BY <1>5, <2>3, <2>5
  <2>8. Wrote(net'[r])
    BY <1>1, <1>4, <1>7, <2>4, <2>6, <2>7 DEF Wrote
  <2> QED
    BY <1>1, <2>8, ProceedsLoads
<1> QED
  BY <1>3, <1>6, <1>7, ServeItemWrites

LEMMA RepliesProceeds ==
  ASSUME ShapeFit, NEW r \in DOMAIN net, NEW http \in {200, 404, 500, 503}, Replies(r, http),
         UNCHANGED <<blocks, buffer, posting>>
  PROVE  /\ Proceeds(r) /\ net'[r].http = http /\ net'[r].oks = net[r].oks /\ net'[r].new = net[r].new
         /\ net[r] # Null /\ net[r].http = Null
<1>1. /\ net' \in [Sender \cup Late -> Carried \cup {Null}]
      /\ net'[r] # Null /\ net'[r].items = net[r].items
      /\ net'[r].tag = net[r].tag
      /\ net'[r].http = http /\ net'[r].oks = net[r].oks /\ net'[r].new = net[r].new
      /\ \A p \in Sender \cup Late : p # r => net'[p] = net[p]
  BY RepliesShape, SMTT(30)
<1>2. net[r] # Null /\ net[r].http = Null /\ DOMAIN net' = DOMAIN net
  BY <1>1, NetDomain DEF Replies
<1> QED
  BY <1>1, <1>2, NetDomain DEF Proceeds, buffer, posting

LEMMA FailLoads ==
  ASSUME ShapeFit, AttemptsFit, RowsFit, NEW r \in DOMAIN net, NEW http \in {404, 500, 503}, Replies(r, http),
         UNCHANGED <<blocks, buffer, posting>>, rows' = rows
  PROVE  AttemptsFit' /\ RowsFit'
<1>1. /\ Proceeds(r) /\ net'[r].oks = net[r].oks /\ net'[r].new = net[r].new /\ net[r] # Null
      /\ net'[r].items = net[r].items /\ net'[r].tag = net[r].tag
  BY RepliesProceeds DEF Proceeds
<1>2. Wrote(net[r])
  BY <1>1 DEF RowsFit
<1>3. Wrote(net'[r])
  BY <1>1, <1>2 DEF Wrote
<1> QED
  BY <1>1, <1>3, ProceedsLoads

(* What a commit adds to the database. *)
LEMMA Joined ==
  ASSUME NEW old \in Seq(Line), NEW new \in Seq(Line)
  PROVE  /\ old \o new \in Seq(Line)
         /\ \A n \in DOMAIN old : n \in DOMAIN (old \o new) /\ (old \o new)[n] = old[n]
         /\ \A n \in DOMAIN new : Len(old) + n \in DOMAIN (old \o new) /\ (old \o new)[Len(old) + n] = new[n]
                                  /\ Len(old) + n \notin DOMAIN old
         /\ \A n \in DOMAIN (old \o new) :
              n \in DOMAIN old \/ \E m \in DOMAIN new : n = Len(old) + m
<1>1. /\ old \o new \in Seq(Line) /\ Len(old \o new) = Len(old) + Len(new)
      /\ \A i \in 1 .. Len(old) : (old \o new)[i] = old[i]
      /\ \A i \in 1 .. Len(new) : (old \o new)[Len(old) + i] = new[i]
  BY ConcatProperties
<1>2. /\ DOMAIN old = 1 .. Len(old) /\ DOMAIN new = 1 .. Len(new) /\ Len(old) \in Nat /\ Len(new) \in Nat
      /\ DOMAIN (old \o new) = 1 .. Len(old) + Len(new)
  BY <1>1
<1>3. ASSUME NEW n \in DOMAIN (old \o new)
      PROVE  n \in DOMAIN old \/ \E m \in DOMAIN new : n = Len(old) + m
  <2>1. CASE n \notin DOMAIN old
    <3>1. n - Len(old) \in DOMAIN new /\ n = Len(old) + (n - Len(old))
      BY <1>2, <1>3, <2>1
    <3> QED
      BY <3>1
  <2> QED
    BY <2>1
<1>4. PICK all : all = old \o new
  OBVIOUS
<1>5. all \in Seq(Line) /\ \A n \in DOMAIN old : n \in DOMAIN all /\ all[n] = old[n]
  BY <1>1, <1>2, <1>4
<1>6. \A n \in DOMAIN new : Len(old) + n \in DOMAIN all /\ all[Len(old) + n] = new[n] /\ Len(old) + n \notin DOMAIN old
  BY <1>1, <1>2, <1>4
<1> QED
  BY <1>3, <1>4, <1>5, <1>6

Adjoins(old, new, d, all) ==
  /\ \A n \in DOMAIN old : all[n] = old[n]
  /\ \A n \in DOMAIN new : all[d + n] = new[n]
  /\ \A n \in DOMAIN all : n \in DOMAIN old \/ \E m \in DOMAIN new : n = d + m

LEMMA JoinedAdjoins ==
  ASSUME NEW old \in Seq(Line), NEW new \in Seq(Line)
  PROVE  Adjoins(old, new, Len(old), old \o new)
<1>1. \A n \in DOMAIN old : (old \o new)[n] = old[n]
  BY Joined
<1>2. \A n \in DOMAIN new : (old \o new)[Len(old) + n] = new[n]
  BY Joined
<1>3. \A n \in DOMAIN (old \o new) : n \in DOMAIN old \/ \E m \in DOMAIN new : n = Len(old) + m
  BY Joined
<1> QED
  BY <1>1, <1>2, <1>3 DEF Adjoins

LEMMA CommitLoads ==
  ASSUME ShapeFit, PlacesFit, AttemptsFit, RowsFit, NEW r \in DOMAIN net, Replies(r, 200),
         UNCHANGED <<blocks, buffer, posting>>, rows' = rows \o net[r].new
  PROVE  AttemptsFit' /\ RowsFit'
<1>1. /\ Proceeds(r) /\ net'[r].http = 200 /\ net'[r].oks = net[r].oks /\ net'[r].new = net[r].new
      /\ net[r] # Null /\ net'[r] # Null /\ net[r].http = Null /\ Null # 200
      /\ net'[r].items = net[r].items /\ net'[r].tag = net[r].tag
      /\ DOMAIN net = Sender \cup Late /\ DOMAIN net' = DOMAIN net
      /\ queue' = queue /\ todo' = todo /\ attempt' = attempt
      /\ \A s \in DOMAIN net : s # r => net'[s] = net[s]
  <2>1. /\ Proceeds(r) /\ net'[r].http = 200 /\ net'[r].oks = net[r].oks /\ net'[r].new = net[r].new
        /\ net[r] # Null /\ net[r].http = Null
    BY RepliesProceeds
  <2>2. Null # 200 /\ DOMAIN net = Sender \cup Late
    BY NetDomain, TelemetryAssumption
  <2> QED
    BY <2>1, <2>2 DEF Proceeds
<1>2. AttemptsFit' /\ \A line : Covers(net, line) => Covers(net', line)
  BY <1>1, ProceedsAttempts
<1>3. PICK new \in Seq(Line) : new = net[r].new
  BY <1>1, Requests
<1>4. PICK d \in Nat : d = Len(rows)
  BY DEF ShapeFit
<1>5. /\ \A n \in DOMAIN rows : rows'[n] = rows[n]
      /\ \A n \in DOMAIN new : rows'[d + n] = new[n]
      /\ \A n \in DOMAIN rows' : n \in DOMAIN rows \/ \E m \in DOMAIN new : n = d + m
  <2>1. PICK old \in Seq(Line) : old = rows
    BY DEF ShapeFit
  <2>2. Adjoins(old, new, Len(old), old \o new)
    BY JoinedAdjoins
  <2>3. Len(old) = d /\ old \o new = rows'
    BY <1>3, <1>4, <2>1
  <2>4. Adjoins(rows, new, d, rows')
    BY <2>1, <2>2, <2>3
  <2> QED
    BY <2>4 DEF Adjoins
<1>6. ASSUME NEW n \in DOMAIN new
      PROVE  /\ new[n].by = net[r].tag
             /\ \E a \in DOMAIN net[r].items : Same(net[r].items[a], new[n].item) /\ Same(new[n].item, net[r].items[a])
  <2>1. new[n].by = net[r].tag /\ \E a \in 1 .. Len(net[r].oks) : Same(net[r].items[a], new[n].item)
    BY <1>1, <1>3, <1>6 DEF RowsFit, Wrote
  <2>2. \A a \in 1 .. Len(net[r].oks) : a \in DOMAIN net[r].items
    <3>1. Len(net[r].oks) \in Nat /\ Len(net[r].oks) <= Len(net[r].items)
      BY <1>1, Requests, ZenonT(60)
    <3>2. PICK items \in Seq(Entry) : items = net[r].items
      BY <1>1, Requests
    <3>3. DOMAIN items = 1 .. Len(items) /\ Len(items) \in Nat
      OBVIOUS
    <3> QED
      BY <3>1, <3>2, <3>3
  <2> QED
    BY <2>1, <2>2, SameSym
<1>7. \A m, n \in DOMAIN new : Same(new[m].item, new[n].item) => m = n
  BY <1>1, <1>3 DEF RowsFit, Wrote
<1>8. \A e, f, g : Same(e, f) /\ Same(f, g) => Same(e, g)
  BY DEF Same
<1>9. \A items : \A n \in DOMAIN new : Has(items, new[n].item) => Share(net[r].items, items)
  BY <1>6, <1>8, SameSym DEF Has, Share
<1>10. ASSUME NEW s \in DOMAIN net', net'[s] # Null
       PROVE  Wrote(net'[s]) /\ Recorded(net'[s], rows')
  <2>1. CASE s = r
    <3>1. Wrote(net'[r])
      <4>1. Wrote(net[r])
        BY <1>1 DEF RowsFit
      <4> QED
        BY <1>1, <4>1 DEF Wrote
    <3> QED
      BY <1>1, <2>1, <3>1 DEF Recorded
  <2>2. CASE s # r
    <3>1. net'[s] = net[s] /\ Wrote(net[s]) /\ Recorded(net[s], rows)
      BY <1>1, <1>10, <2>2 DEF RowsFit
    <3>2. ASSUME NEW n \in DOMAIN new, new[n].by = net[s].tag, Has(net[s].items, new[n].item)
          PROVE  FALSE
      <4>1. Share(net[r].items, net[s].items) /\ net[r].tag = net[s].tag
        BY <1>6, <1>9, <3>2
      <4> QED
        BY <1>1, <1>10, <2>2, <3>1, <4>1, OneTag
    <3>3. ASSUME NEW n \in DOMAIN rows', rows'[n].by = net[s].tag, Has(net[s].items, rows'[n].item)
          PROVE  net[s].http = 200
      <4>1. CASE n \in DOMAIN rows
        BY <1>5, <3>1, <3>3, <4>1 DEF Recorded
      <4>2. CASE \E m \in DOMAIN new : n = d + m
        <5>1. PICK m \in DOMAIN new : n = d + m
          BY <4>2
        <5>2. rows'[n] = new[m]
          BY <1>5, <5>1
        <5> QED
          BY <3>2, <3>3, <5>2
      <4> QED
        BY <1>5, <3>3, <4>1, <4>2
    <3>4. Recorded(net'[s], rows')
      BY <3>1, <3>3 DEF Recorded
    <3> QED
      BY <3>1, <3>4
  <2> QED
    BY <2>1, <2>2
<1>11. ASSUME NEW n \in DOMAIN rows' PROVE ~ Has(queue', rows'[n].item)
  <2>1. CASE n \in DOMAIN rows
    BY <1>1, <1>5, <2>1 DEF RowsFit
  <2>2. CASE \E m \in DOMAIN new : n = d + m
    BY <1>1, <1>5, <1>9, <2>2, SMTT(30) DEF AttemptsFit
  <2> QED
    BY <1>5, <1>11, <2>1, <2>2
<1>12. ASSUME NEW n \in DOMAIN rows', NEW p \in Sender, NEW m \in DOMAIN todo'[p],
              Has(todo'[p][m].items, rows'[n].item)
       PROVE  /\ m = 1
              /\ \/ rows'[n].by[2] < attempt'[p] /\ Covers(net', rows'[n])
                 \/ net'[p] # Null /\ net'[p].http = 200 /\ rows'[n].by = net'[p].tag
  <2>1. CASE n \in DOMAIN rows
    <3>1. /\ m = 1
          /\ \/ rows[n].by[2] < attempt[p] /\ Covers(net, rows[n])
             \/ net[p] # Null /\ net[p].http = 200 /\ rows[n].by = net[p].tag
      BY <1>1, <1>5, <1>12, <2>1 DEF RowsFit
    <3>2. net[p] # Null /\ net[p].http = 200 => net'[p] = net[p]
      BY <1>1
    <3> QED
      BY <1>1, <1>2, <1>5, <2>1, <3>1, <3>2
  <2>2. ASSUME NEW k \in DOMAIN new, n = d + k
        PROVE  /\ m = 1
               /\ \/ rows'[n].by[2] < attempt'[p] /\ Covers(net', rows'[n])
                  \/ net'[p] # Null /\ net'[p].http = 200 /\ rows'[n].by = net'[p].tag
    <3>1. rows'[n] = new[k] /\ new[k].by = net[r].tag
      BY <1>5, <1>6, <2>2
    <3>2. Share(net[r].items, todo[p][m].items)
      BY <1>1, <1>9, <1>12, <3>1
    <3>3. CASE r \in Late
      <4>1. m = 1 /\ net[r].tag[2] < attempt[p]
        BY <1>1, <1>12, <3>2, <3>3 DEF AttemptsFit
      <4>2. Covers(net', new[k])
        <5>1. Has(net'[r].items, new[k].item)
          BY <1>1, <1>6 DEF Has
        <5> QED
          BY <1>1, <3>1, <3>3, <5>1 DEF Covers
      <4> QED
        BY <1>1, <3>1, <4>1, <4>2
    <3>4. CASE r \in Sender
      <4>1. 1 \in DOMAIN todo[r] /\ net[r].items = todo[r][1].items
        BY <1>1, <3>4, RequestShape DEF AttemptsFit
      <4>2. r = p /\ m = 1
        BY <1>1, <1>12, <3>2, <3>4, <4>1 DEF PlacesFit
      <4> QED
        BY <1>1, <3>1, <4>2
    <3> QED
      BY <1>1, <3>3, <3>4
  <2> QED
    BY <1>5, <1>12, <2>1, <2>2
<1>13. ASSUME NEW m \in DOMAIN rows, NEW k \in DOMAIN new, Same(rows[m].item, new[k].item)
       PROVE  rows[m].by # new[k].by /\ (Covers(net', rows[m]) \/ Covers(net', new[k]))
  <2>1. PICK a \in DOMAIN net[r].items : Same(net[r].items[a], new[k].item) /\ Same(new[k].item, net[r].items[a])
    BY <1>6
  <2>2. Same(net[r].items[a], rows[m].item)
    BY <1>8, <1>13, <2>1, SameSym
  <2>3. Has(net[r].items, rows[m].item)
    BY <2>2 DEF Has
  <2>4. rows[m].by # new[k].by
    BY <1>1, <1>6, <2>3 DEF RowsFit, Recorded
  <2>5. CASE r \in Late
    <3>1. Has(net'[r].items, new[k].item) /\ net'[r].tag = new[k].by
      BY <1>1, <1>6 DEF Has
    <3> QED
      BY <1>1, <2>4, <2>5, <3>1 DEF Covers
  <2>6. CASE r \in Sender
    <3>1. 1 \in DOMAIN todo[r] /\ net[r].items = todo[r][1].items
      BY <1>1, <2>6, RequestShape DEF AttemptsFit
    <3>2. Covers(net, rows[m])
      BY <1>1, <2>3, <2>6, <3>1 DEF RowsFit
    <3> QED
      BY <1>2, <2>4, <3>2
  <2> QED
    BY <1>1, <2>5, <2>6
<1>14. ASSUME NEW m \in DOMAIN rows', NEW n \in DOMAIN rows', Same(rows'[m].item, rows'[n].item), m # n
       PROVE  rows'[m].by # rows'[n].by /\ (Covers(net', rows'[m]) \/ Covers(net', rows'[n]))
  <2>1. CASE m \in DOMAIN rows /\ n \in DOMAIN rows
    <3>1. rows[m].by # rows[n].by /\ (Covers(net, rows[m]) \/ Covers(net, rows[n]))
      BY <1>5, <1>14, <2>1 DEF RowsFit
    <3> QED
      BY <1>2, <1>5, <2>1, <3>1
  <2>2. CASE m \in DOMAIN rows /\ \E k \in DOMAIN new : n = d + k
    BY <1>5, <1>13, <1>14, <2>2, SMTT(30)
  <2>3. CASE n \in DOMAIN rows /\ \E k \in DOMAIN new : m = d + k
    BY <1>5, <1>13, <1>14, <2>3, SameSym
  <2>4. CASE (\E k \in DOMAIN new : m = d + k) /\ (\E k \in DOMAIN new : n = d + k)
    BY <1>5, <1>7, <1>14, <2>4
  <2> QED
    BY <1>5, <1>14, <2>1, <2>2, <2>3, <2>4
<1>15. RowsFit'
  <2>1. \A s \in DOMAIN net' : net'[s] # Null => Wrote(net'[s]) /\ Recorded(net'[s], rows')
    BY <1>10
  <2>2. \A n \in DOMAIN rows' :
          /\ ~ Has(queue', rows'[n].item)
          /\ \A p \in Sender : \A m \in DOMAIN todo'[p] : Has(todo'[p][m].items, rows'[n].item) =>
               /\ m = 1
               /\ \/ rows'[n].by[2] < attempt'[p] /\ Covers(net', rows'[n])
                  \/ net'[p] # Null /\ net'[p].http = 200 /\ rows'[n].by = net'[p].tag
    BY <1>11, <1>12
  <2>3. \A m, n \in DOMAIN rows' : Same(rows'[m].item, rows'[n].item) /\ m # n =>
          rows'[m].by # rows'[n].by /\ (Covers(net', rows'[m]) \/ Covers(net', rows'[n]))
    BY <1>14
  <2> QED
    BY <2>1, <2>2, <2>3 DEF RowsFit
<1> QED
  BY <1>2, <1>15

LEMMA NextLoads ==
  ASSUME ShapeFit, ItemsMade, PlacesFit, AttemptsFit, RowsFit, [Next]_vars
  PROVE  AttemptsFit' /\ RowsFit'
<1>1. ASSUME NEW t \in Thread, Step(t) PROVE AttemptsFit' /\ RowsFit'
  <2>1. CASE Enqueue(t)
    BY <2>1, EnqueuePuts, PutsLoads
  <2>2. CASE Flush(t)
    BY <2>2, FlushTakes, TakesLoads, SenderIs
  <2>3. CASE BlockStep(t)
    BY <2>3, BlockStepPosts, PostsLoads, PassesLoads
  <2> QED
    BY <1>1, <2>1, <2>2, <2>3 DEF Step, BlockStep
<1>2. ASSUME NEW f \in Flusher, FlushAsync(f) PROVE AttemptsFit' /\ RowsFit'
  BY <1>2, FlushAsyncTakes, TakesLoads, SenderIs
<1>3. ASSUME NEW p \in Sender, Post(p) PROVE AttemptsFit' /\ RowsFit'
  BY <1>3, PostLoads
<1>4. ASSUME NEW r \in DOMAIN net, ServeItem(r) \/ Commit(r) \/ Fail(r) PROVE AttemptsFit' /\ RowsFit'
  <2>1. CASE ServeItem(r)
    BY <2>1, ServeItemLoads
  <2>2. CASE Commit(r)
    <3>1. UNCHANGED <<blocks, buffer, posting>>
          /\ ((Replies(r, 200) /\ rows' = rows \o net[r].new) \/ (Replies(r, 404) /\ rows' = rows))
      BY <2>2, CommitReplies
    <3> QED
      BY <3>1, CommitLoads, FailLoads
  <2>3. CASE Fail(r)
    <3>1. UNCHANGED <<blocks, buffer, posting>> /\ rows' = rows
          /\ \E http \in {500, 503} : Replies(r, http)
      BY <2>3, FailReplies
    <3> QED
      BY <3>1, FailLoads
  <2> QED
    BY <1>4, <2>1, <2>2, <2>3
<1>5. CASE UNCHANGED vars
  BY <1>5 DEF vars, AttemptsFit, RowsFit
<1> QED
  BY <1>1, <1>2, <1>3, <1>4, <1>5 DEF Next

CopiesHold == PlacesHold /\ AttemptsFit /\ RowsFit

LEMMA CopiesInvariant == Spec => []CopiesHold
<1>1. Init /\ PlacesHold => CopiesHold
  <2>1. ASSUME Init PROVE (\A r \in DOMAIN net : net[r] = Null) /\ DOMAIN net = Sender \cup Late /\ rows = << >>
    BY <2>1 DEF Init
  <2> QED
    BY <2>1 DEF AttemptsFit, RowsFit, CopiesHold
<1>2. CopiesHold /\ PlacesHold' /\ [Next]_vars => CopiesHold'
  BY NextLoads DEF CopiesHold, PlacesHold, BlocksHold
<1> QED
  BY <1>1, <1>2, PlacesInvariant, PTL DEF Spec

(* What is no span is told by its call and its kind. *)
LEMMA SameEqual ==
  ASSUME NEW a \in Entry, NEW b \in Entry, NEW calls, NEW now, Made(a, calls, now), Made(b, calls, now),
         Same(a, b), a.kind # "span"
  PROVE  a = b
<1>1. a.id = b.id /\ a.kind = b.kind
  BY DEF Same
<1>2. a.trace = b.trace
  BY <1>1 DEF Made
<1>3. a.parent = Null /\ b.parent = Null
  BY <1>1 DEF Made
<1>4. a.span = b.span
  BY <1>1 DEF Made
<1> QED
  BY <1>1, <1>2, <1>3, <1>4 DEF Entry

LEMMA Copies ==
  ASSUME CopiesHold
  PROVE  CopiesAreRetries
<1>1. ShapeFit /\ ItemsMade /\ AttemptsFit /\ RowsFit
  BY DEF CopiesHold, PlacesHold, BlocksHold
<1> SUFFICES ASSUME NEW n \in DOMAIN rows, rows[n].item.kind \in {"event", "model"}
             PROVE  LET item == rows[n].item IN
                    Cardinality(Rows(item))
                      <= 1 + Cardinality({l \in Late : net[l] # Null /\ item \in ToSet(net[l].items)})
  BY DEF CopiesAreRetries
<1> DEFINE item == rows[n].item
           L == {l \in Late : net[l] # Null /\ item \in ToSet(net[l].items)}
           U == {m \in Rows(item) : ~ Covers(net, rows[m])}
           C == {m \in Rows(item) : Covers(net, rows[m])}
<1>2. /\ item \in Entry /\ item.kind # "span" /\ Made(item, script, next)
  BY <1>1, LineShape, Recalled DEF ShapeFit, Posted
<1>3. \A m : m \in Rows(item) <=> m \in DOMAIN rows /\ Same(rows[m].item, item)
  BY DEF Rows, Same
<1>4. IsFiniteSet(Rows(item)) /\ IsFiniteSet(L)
  <2>1. IsFiniteSet(DOMAIN rows)
    <3>1. DOMAIN rows = 1 .. Len(rows) /\ Len(rows) \in Int
      BY <1>1 DEF ShapeFit
    <3> QED
      BY <3>1, FS_Interval
  <2>2. Rows(item) \in SUBSET DOMAIN rows
    BY DEF Rows
  <2>3. IsFiniteSet(Late) /\ L \in SUBSET Late
    BY TelemetryAssumption
  <2> QED
    BY <2>1, <2>2, <2>3, FS_Subset
<1>5. ASSUME NEW m \in C
      PROVE  \E l \in L : net[l] # Null /\ net[l].tag = rows[m].by
  <2>1. m \in DOMAIN rows /\ Same(rows[m].item, item)
    BY <1>3
  <2>2. PICK l \in Late : net[l] # Null /\ net[l].tag = rows[m].by /\ Has(net[l].items, rows[m].item)
    BY DEF Covers
  <2>3. PICK a \in DOMAIN net[l].items : Same(net[l].items[a], rows[m].item)
    BY <2>2 DEF Has
  <2>4. l \in DOMAIN net
    BY <1>1, NetDomain
  <2>5. net[l].items \in Seq(Entry) /\ Made(net[l].items[a], script, next)
    BY <1>1, <2>2, <2>4, Requests, Recalled DEF Posted
  <2>6. PICK e \in Entry : e = net[l].items[a]
    BY <2>5
  <2>7. Same(e, item) /\ Made(e, script, next) /\ e.kind # "span"
    BY <1>2, <2>1, <2>3, <2>5, <2>6 DEF Same
  <2>8. e = item
    <3> HIDE DEF item
    <3> QED
      BY <1>2, <2>7, SameEqual
  <2>9. item \in ToSet(net[l].items)
    BY <2>6, <2>8 DEF ToSet
  <2> QED
    BY <2>2, <2>9
<1>6. Cardinality(C) <= Cardinality(L)
  <2> DEFINE f == [m \in C |-> CHOOSE l \in L : net[l] # Null /\ net[l].tag = rows[m].by]
  <2>1. \A m \in C : f[m] \in L /\ net[f[m]].tag = rows[m].by
    BY <1>5
  <2>2. \A k, m \in C : f[k] = f[m] => k = m
    <3> SUFFICES ASSUME NEW k \in C, NEW m \in C, f[k] = f[m] PROVE k = m
      OBVIOUS
    <3>1. rows[k].by = rows[m].by
      BY <2>1
    <3>2. k \in DOMAIN rows /\ m \in DOMAIN rows /\ Same(rows[k].item, rows[m].item)
      BY <1>3 DEF Same
    <3> QED
      BY <1>1, <3>1, <3>2 DEF RowsFit
  <2>3. f \in [C -> L]
    BY <2>1
  <2> HIDE DEF f, C, L
  <2>4. f \in Injection(C, L)
    BY <2>2, <2>3 DEF Injection, IsInjective
  <2> QED
    BY <1>4, <2>4, FS_Injection
<1>7. Cardinality(U) <= 1
  <2>1. \A k, m \in U : k = m
    BY <1>1, <1>3 DEF RowsFit, Same
  <2> HIDE DEF U
  <2> QED
    BY <2>1, AtMostOne
<1>8. Cardinality(Rows(item)) <= Cardinality(U) + Cardinality(C)
  <2>1. Rows(item) = U \cup C /\ U \in SUBSET Rows(item) /\ C \in SUBSET Rows(item) /\ U \cap C = {}
    OBVIOUS
  <2> HIDE DEF U, C
  <2>2. IsFiniteSet(U) /\ IsFiniteSet(C)
    BY <1>4, <2>1, FS_Subset
  <2>3. Cardinality(U \cup C) = Cardinality(U) + Cardinality(C) - Cardinality(U \cap C)
    BY <2>2, FS_Union
  <2>4. Cardinality(U \cap C) = 0 /\ Cardinality(U) \in Nat /\ Cardinality(C) \in Nat
    BY <2>1, <2>2, FS_EmptySet, FS_CardinalityType
  <2> QED
    BY <2>1, <2>3, <2>4
<1>9. Cardinality(U) \in Nat /\ Cardinality(C) \in Nat /\ Cardinality(L) \in Nat /\ Cardinality(Rows(item)) \in Nat
  <2>1. U \in SUBSET Rows(item) /\ C \in SUBSET Rows(item)
    OBVIOUS
  <2> HIDE DEF U, C, L, item
  <2> QED
    BY <1>4, <2>1, FS_Subset, FS_CardinalityType
<1>10. Cardinality(Rows(item)) <= 1 + Cardinality(L)
  <2> HIDE DEF U, C, L, item
  <2> QED
    BY <1>6, <1>7, <1>8, <1>9
<1> QED
  BY <1>10

(* An event or a model call that is in the database more than once is so   *)
(* by requests that were given up on and served all the same, one for each *)
(* further copy.                                                           *)
THEOREM CopiesComeFromRetries == Spec => []CopiesAreRetries
BY CopiesInvariant, Copies, PTL

-----------------------------------------------------------------------------
(* Parents *)

(* The parent of the span that a thread just entered. *)
LEMMA NewSpanAims ==
  ASSUME ShapeFit, StacksFit, NEW t \in Thread, OpenSpan(t),
         NEW n \in DOMAIN todo'[t], NEW a \in DOMAIN todo'[t][n].items
  PROVE  ~ Orphan(todo'[t][n].items[a], script)
<1> DEFINE c == script[t][next[t]]
<1>1. PICK item :
        /\ item = Item(t, "span", c.trace, c.span, Parent(stack[c.trace]))
        /\ Posts(t, <<item>>) /\ c.op = "span" /\ c.trace \notin noop
  BY OpenSpanPosts
<1>2. todo'[t][n].items[a] = item
  <2>1. n \in DOMAIN <<item>> /\ todo'[t][n] = [batch |-> FALSE, items |-> <<<<item>>[n]>>]
    BY <1>1, PostsShape
  <2>2. n = 1
    BY <2>1
  <2>3. todo'[t][n] = [batch |-> FALSE, items |-> <<item>>]
    BY <2>1, <2>2
  <2>4. todo'[t][n].items = <<item>>
    BY <2>3
  <2> QED
    BY <2>4
<1>3. item.id[1] = t /\ item.id[2] = next[t] /\ item.trace = c.trace /\ item.parent = Parent(stack[c.trace])
  BY <1>1 DEF Item
<1>4. BlocksFit /\ Goes(t) /\ next[t] \in DOMAIN script[t]
  BY <1>1 DEF ShapeFit, Posts, Goes
<1>5. c.trace \in TraceId
  BY <1>1, <1>4, ScriptShape DEF TraceOp
<1>6. Owns(t, c.trace)
  BY <1>1, <1>4 DEF Owns, TraceOp
<1>7. PICK open : open = Opened(script[t], next[t], c.trace)
  OBVIOUS
<1>8. PICK f : Tracks(f, stack[c.trace], script[t], open)
  BY <1>1, <1>5, <1>6, <1>7 DEF StacksFit
<1>9. PICK spans \in Seq(SpanId) : spans = stack[c.trace]
  BY <1>4, <1>5 DEF BlocksFit
<1>10. ASSUME open # {} PROVE Parent(spans) # Null
  <2>1. PICK i \in DOMAIN f : f[i] \in open
    BY <1>8, <1>10 DEF Tracks
  <2>2. f \in Seq(Nat) /\ Len(f) = Len(spans)
    BY <1>8, <1>9 DEF Tracks
  <2>3. Len(spans) \in 1 .. Len(spans)
    BY <2>1, <2>2
  <2>4. Parent(spans) = spans[Len(spans)] /\ spans[Len(spans)] \in SpanId
    BY <2>3 DEF Parent, Last
  <2> QED
    BY <2>4, TelemetryAssumption
<1>11. Around(item, script) = open
  <2> HIDE DEF c
  <2> QED
    BY <1>3, <1>7 DEF Around
<1>12. item.parent = Parent(spans)
  BY <1>3, <1>9
<1> QED
  BY <1>2, <1>10, <1>11, <1>12 DEF Orphan

(* A thread that makes a call had nothing to post. *)
LEMMA GoesAims ==
  ASSUME ShapeFit, ItemsMade, AimsFit, NEW t \in Thread, Goes(t), NEW p \in Sender \ {t},
         NEW n \in DOMAIN todo[p], NEW a \in DOMAIN todo[p][n].items
  PROVE  Aims(p, todo[p][n].items[a], script, next')
<1>1. Aims(p, todo[p][n].items[a], script, next) /\ todo[p][n].items[a].id[1] \in Thread
  BY Stocked DEF AimsFit
<1>2. \A u \in Thread \ {t} : next'[u] = next[u]
  BY DEF Goes, ShapeFit, BlocksFit
<1> QED
  BY <1>1, <1>2 DEF Aims

LEMMA GoesSenders ==
  ASSUME ShapeFit, ItemsMade, AimsFit, NEW t \in Thread, Goes(t), net' = net,
         \A p \in Sender \ {t} : todo'[p] = todo[p],
         \A n \in DOMAIN todo'[t] : \A a \in DOMAIN todo'[t][n].items :
           Aims(t, todo'[t][n].items[a], script, next')
  PROVE  AimsFit'
<1>1. script' = script
  BY DEF Goes
<1>2. ASSUME NEW p \in Sender, NEW n \in DOMAIN todo'[p], NEW a \in DOMAIN todo'[p][n].items
      PROVE  Aims(p, todo'[p][n].items[a], script, next')
  <2>1. CASE p = t
    BY <1>2, <2>1
  <2>2. CASE p # t
    <3>1. todo'[p] = todo[p]
      BY <2>2
    <3> QED
      BY <1>2, <2>2, <3>1, GoesAims
  <2> QED
    BY <2>1, <2>2
<1> QED
  BY <1>1, <1>2 DEF AimsFit

(* What a step on blocks posts and was not posted before is of the call at *)
(* hand.                                                                   *)
LEMMA UnpostedNow ==
  ASSUME ShapeFit, NEW t \in Thread, Goes(t), NEW item \in Entry, Unposted(item),
         Made(item, script, next'), OpOf(item, script) = "span"
  PROVE  item.id[1] = t /\ item.id[2] = next[t]
<1>1. item.id[1] \in Thread
  BY DEF Entry
<1>2. next \in [Thread -> Nat \ {0}] /\ next' = [next EXCEPT ![t] = next[t] + 1]
  BY DEF ShapeFit, BlocksFit, Goes
<1>3. item.id[2] \in 1 .. next'[item.id[1]] - 1
  BY DEF Made
<1>4. CASE item.id[2] \in 1 .. next[item.id[1]] - 1
  <2>1. Made(item, script, next)
    <3> HIDE DEF Enclosed
    <3> QED
      BY <1>4 DEF Made
  <2>2. Posted(item, script, next)
    BY <2>1 DEF Posted
  <2> QED
    BY <1>1, <2>2 DEF Unposted, Same
<1>5. item.id[2] \in 1 .. next[item.id[1]] - 1 \/ (item.id[1] = t /\ item.id[2] = next[t])
  BY <1>1, <1>2, <1>3
<1> QED
  BY <1>4, <1>5

LEMMA BlockStepAims ==
  ASSUME ShapeFit, StacksFit, ItemsMade, PlacesFit, AimsFit, ShapeFit', ItemsMade',
         NEW t \in Thread, BlockStep(t)
  PROVE  AimsFit'
<1>1. Goes(t) /\ script' = script
  BY BlockStepMoves DEF Goes
<1>2. CASE Passes(t)
  <2>1. todo' = todo /\ net' = net /\ t \in Sender /\ todo[t] = << >>
    BY <1>2, SenderIs DEF Passes, Goes
  <2>2. \A n \in DOMAIN todo'[t] : FALSE
    BY <2>1
  <2> QED
    BY <1>1, <2>1, <2>2, GoesSenders
<1>3. ASSUME NEW items, Posts(t, items), \A a \in DOMAIN items : Unposted(items[a])
      PROVE  AimsFit'
  <2>1. net' = net /\ \A p \in Sender \ {t} : todo'[p] = todo[p]
    BY <1>3, PostsShape DEF Posts
  <2>2. ASSUME NEW n \in DOMAIN todo'[t], NEW a \in DOMAIN todo'[t][n].items,
               OpOf(todo'[t][n].items[a], script) = "span"
        PROVE  /\ ~ Orphan(todo'[t][n].items[a], script)
               /\ todo'[t][n].items[a].id[1] = t /\ todo'[t][n].items[a].id[2] = next'[t] - 1
    <3>1. n \in DOMAIN items /\ todo'[t][n] = [batch |-> FALSE, items |-> <<items[n]>>]
      BY <1>3, PostsShape
    <3>2. PICK e \in Entry : e = items[n]
      BY <1>3, <3>1 DEF Posts
    <3>3. todo'[t][n].items[a] = e
      <4>1. todo'[t][n].items = <<e>>
        BY <3>1, <3>2
      <4> QED
        BY <4>1
    <3>4. Made(e, script, next')
      <4>1. t \in Sender
        BY SenderIs
      <4>2. Load(todo'[t][n], script', next')
        BY <4>1 DEF ItemsMade, Stock
      <4> QED
        BY <1>1, <3>3, <4>2 DEF Load, Posted
    <3>5. Unposted(e)
      BY <1>3, <3>1, <3>2
    <3>6. OpOf(e, script) = "span"
      BY <2>2, <3>3
    <3>7. e.id[1] = t /\ e.id[2] = next[t]
      BY <1>1, <3>4, <3>5, <3>6, UnpostedNow
    <3>8. script[t][next[t]].op = "span"
      BY <3>6, <3>7 DEF OpOf
    <3>9. OpenSpan(t) \/ NoopCall(t)
      BY <3>8 DEF BlockStep, EnterTrace, AddModelCall, LeaveSpan, Event, ExitTrace, Shut, Live, Call
    <3>10. todo'[t] # << >>
      BY <2>2
    <3>11. OpenSpan(t)
      BY <1>1, <3>9, <3>10, NoopCallPasses DEF Passes, Goes
    <3>12. next'[t] - 1 = next[t]
      BY <1>1 DEF Goes, ShapeFit, BlocksFit
    <3> QED
      BY <3>3, <3>7, <3>11, <3>12, NewSpanAims
  <2> QED
    BY <1>1, <2>1, <2>2, GoesSenders DEF Aims
<1> QED
  BY <1>2, <1>3, BlockStepPosts

(* What was queued is posted as it was. *)
LEMMA TakesAims ==
  ASSUME ShapeFit, ItemsMade, AimsFit, NEW p \in Sender, Takes(p), script' = script,
         \A q \in Sender \ {p} : \A n \in DOMAIN todo[q] : \A a \in DOMAIN todo[q][n].items :
           Aims(q, todo[q][n].items[a], script, next')
  PROVE  AimsFit'
<1>1. queue \in Seq(Entry) /\ todo \in [Sender -> Seq(Parcel)] /\ net' = net
  BY DEF ShapeFit, Takes
<1>2. PICK posts \in Seq(Parcel) :
        /\ posts = Chunks(queue)
        /\ \A k \in DOMAIN posts : \A a \in DOMAIN posts[k].items :
             \E n \in DOMAIN queue : posts[k].items[a] = queue[n]
  BY <1>1, ChunksAre
<1>3. todo'[p] = posts /\ \A q \in Sender \ {p} : todo'[q] = todo[q]
  BY <1>1, <1>2 DEF Takes
<1>4. ASSUME NEW q \in Sender, NEW n \in DOMAIN todo'[q], NEW a \in DOMAIN todo'[q][n].items
      PROVE  Aims(q, todo'[q][n].items[a], script, next')
  <2>1. CASE q = p
    <3>1. \E m \in DOMAIN queue : todo'[q][n].items[a] = queue[m]
      BY <1>2, <1>3, <1>4, <2>1
    <3>2. OpOf(todo'[q][n].items[a], script) = "enqueue"
      BY <3>1, Stocked
    <3> QED
      BY <3>2 DEF Aims
  <2>2. CASE q # p
    <3>1. todo'[q] = todo[q]
      BY <1>3, <2>2
    <3> QED
      BY <1>4, <2>2, <3>1
  <2> QED
    BY <2>1, <2>2
<1> QED
  BY <1>1, <1>4 DEF AimsFit

LEMMA StepAims ==
  ASSUME ShapeFit, StacksFit, ItemsMade, PlacesFit, AimsFit, ShapeFit', ItemsMade',
         NEW t \in Thread, Step(t)
  PROVE  AimsFit'
<1>1. CASE BlockStep(t)
  BY <1>1, BlockStepAims
<1>2. ASSUME NEW item, Puts(t, item) PROVE AimsFit'
  <2>1. Goes(t) /\ todo' = todo /\ net' = net /\ t \in Sender /\ todo[t] = << >>
    BY <1>2, SenderIs DEF Puts, Goes
  <2>2. \A n \in DOMAIN todo'[t] : FALSE
    BY <2>1
  <2> QED
    BY <2>1, <2>2, GoesSenders
<1>3. CASE Flush(t)
  <2>1. Takes(t) /\ Goes(t) /\ script' = script /\ t \in Sender
    BY <1>3, FlushTakes, SenderIs DEF Goes
  <2> QED
    BY <2>1, GoesAims, TakesAims
<1> QED
  BY <1>1, <1>2, <1>3, EnqueuePuts DEF Step, BlockStep

(* What the posts of a thread were, they are when it goes on. *)
LEMMA SettlesAims ==
  ASSUME ShapeFit, AimsFit, NEW p \in Sender, todo[p] # << >>, Settles(p), Kept
  PROVE  \A q \in Sender : \A n \in DOMAIN todo'[q] : \A a \in DOMAIN todo'[q][n].items :
           Aims(q, todo'[q][n].items[a], script', next')
<1>1. /\ \A q \in Sender \ {p} : todo'[q] = todo[q]
      /\ \/ \A n \in DOMAIN todo'[p] : n + 1 \in DOMAIN todo[p] /\ todo'[p][n] = todo[p][n + 1]
         \/ todo' = todo
  BY EndsOrGoesOn
<1>2. \A q \in Sender : \A n \in DOMAIN todo'[q] : \E m \in DOMAIN todo[q] : todo'[q][n] = todo[q][m]
  BY <1>1
<1> QED
  BY <1>2 DEF AimsFit, Kept

(* A request carries what its sender posts, or what one before it did, and *)
(* a late one stays.                                                       *)
Follows ==
  /\ \A r \in DOMAIN net' : net'[r] # Null =>
       \/ \E s \in DOMAIN net : net[s] # Null /\ net'[r] = net[s]
       \/ net'[r].new = << >> /\ \E q \in Sender : todo[q] # << >> /\ net'[r].items = todo[q][1].items
  /\ \A l \in Late : net[l] # Null => net'[l] = net[l]

LEMMA PostFollows ==
  ASSUME ShapeFit, NEW p \in Sender, Post(p)
  PROVE  Follows /\ Kept /\ todo[p] # << >> /\ rows' = rows /\ (Settles(p) \/ todo' = todo)
<1>0. net \in [Sender \cup Late -> Carried \cup {Null}] /\ \A l \in Late : l \notin Sender
  BY TelemetryAssumption DEF ShapeFit
<1>1. CASE Send(p)
  <2>1. /\ todo[p] # << >> /\ net[p] = Null /\ Kept /\ rows' = rows
        /\ \/ PostEnds(p, "lost") /\ net' = net
           \/ net' = [net EXCEPT ![p] = Request(p, todo[p][1])] /\ todo' = todo
    BY <1>1, SendIs
  <2>2. Settles(p) \/ todo' = todo
    BY <2>1 DEF Settles
  <2>3. Follows
    <3>1. CASE net' = net
      BY <3>1 DEF Follows
    <3>2. CASE net' = [net EXCEPT ![p] = Request(p, todo[p][1])]
      <4>1. Request(p, todo[p][1]).items = todo[p][1].items /\ Request(p, todo[p][1]).new = << >>
        BY DEF Request
      <4>2. /\ DOMAIN net' = DOMAIN net /\ net'[p] = Request(p, todo[p][1])
            /\ \A r \in DOMAIN net : r # p => net'[r] = net[r]
        BY <1>0, <3>2
      <4>3. \A r \in DOMAIN net' : net'[r] # Null =>
              \/ \E s \in DOMAIN net : net[s] # Null /\ net'[r] = net[s]
              \/ net'[r].new = << >> /\ \E q \in Sender : todo[q] # << >> /\ net'[r].items = todo[q][1].items
        BY <2>1, <4>1, <4>2
      <4>4. \A l \in Late : net'[l] = net[l]
        BY <1>0, <4>2
      <4> QED
        BY <4>3, <4>4 DEF Follows
    <3> QED
      BY <2>1, <3>1, <3>2
  <2> QED
    BY <2>1, <2>2, <2>3
<1>2. CASE TimeOut(p)
  <2>1. /\ todo[p] # << >> /\ net[p] # Null /\ Kept /\ rows' = rows /\ Settles(p)
    BY <1>2, TimeOutIs
  <2>2. CASE net' = [net EXCEPT ![p] = Null]
    <3>1. DOMAIN net' = DOMAIN net /\ net'[p] = Null /\ \A r \in DOMAIN net : r # p => net'[r] = net[r]
      BY <1>0, <2>2
    <3> QED
      BY <1>0, <2>1, <3>1 DEF Follows
  <2>3. ASSUME NEW l \in Late, net[l] = Null, net' = [net EXCEPT ![p] = Null, ![l] = net[p]]
        PROVE  Follows
    <3>1. /\ DOMAIN net' = DOMAIN net /\ net'[p] = Null /\ net'[l] = net[p] /\ p \in DOMAIN net
          /\ \A r \in DOMAIN net : r # p /\ r # l => net'[r] = net[r]
      BY <1>0, <2>3
    <3> QED
      BY <1>0, <2>1, <2>3, <3>1 DEF Follows
  <2> QED
    BY <1>2, <2>1, <2>2, <2>3, TimeOutIs
<1>3. CASE Answered(p)
  <2>1. todo[p] # << >> /\ Kept /\ rows' = rows /\ Settles(p) /\ net' = [net EXCEPT ![p] = Null]
    BY <1>3, AnsweredIs
  <2>2. DOMAIN net' = DOMAIN net /\ net'[p] = Null /\ \A r \in DOMAIN net : r # p => net'[r] = net[r]
    BY <1>0, <2>1
  <2>3. Follows
    BY <1>0, <2>2 DEF Follows
  <2> QED
    BY <2>1, <2>3
<1> QED
  BY <1>1, <1>2, <1>3 DEF Post

LEMMA PostAims ==
  ASSUME ShapeFit, AimsFit, NEW p \in Sender, Post(p)
  PROVE  AimsFit'
<1>1. Follows /\ Kept /\ todo[p] # << >> /\ (Settles(p) \/ todo' = todo)
  BY PostFollows
<1>2. \A q \in Sender : \A n \in DOMAIN todo'[q] : \A a \in DOMAIN todo'[q][n].items :
        Aims(q, todo'[q][n].items[a], script', next')
  <2>1. CASE todo' = todo
    BY <1>1, <2>1 DEF AimsFit, Kept
  <2> QED
    BY <1>1, <2>1, SettlesAims
<1>3. ASSUME NEW r \in DOMAIN net', net'[r] # Null, NEW a \in DOMAIN net'[r].items
      PROVE  ~ Orphan(net'[r].items[a], script')
  <2>1. CASE \E s \in DOMAIN net : net[s] # Null /\ net'[r] = net[s]
    BY <1>1, <1>3, <2>1 DEF AimsFit, Kept
  <2>2. ASSUME NEW q \in Sender, todo[q] # << >>, net'[r].items = todo[q][1].items
        PROVE  ~ Orphan(net'[r].items[a], script')
    <3>1. 1 \in DOMAIN todo[q]
      BY <2>2, RequestShape
    <3>2. Aims(q, todo[q][1].items[a], script, next)
      BY <1>3, <2>2, <3>1 DEF AimsFit
    <3> QED
      BY <1>1, <2>2, <3>2 DEF Aims, Orphan, Kept
  <2> QED
    BY <1>1, <1>3, <2>1, <2>2 DEF Follows
<1> QED
  BY <1>2, <1>3 DEF AimsFit

LEMMA ServeStepIs ==
  ASSUME ShapeFit, NEW r \in DOMAIN net, ServeItem(r) \/ Commit(r) \/ Fail(r)
  PROVE  /\ Proceeds(r) /\ script' = script /\ next' = next
         /\ Commit(r) \/ Fail(r) =>
              net'[r].new = net[r].new /\ (rows' = rows \/ rows' = rows \o net[r].new)
<1>1. ASSUME ServeItem(r) PROVE Proceeds(r) /\ script' = script /\ next' = next
  BY <1>1, ServeItemWrites, ServeItemServes DEF blocks
<1>2. ASSUME Commit(r)
      PROVE  /\ Proceeds(r) /\ script' = script /\ next' = next
             /\ net'[r].new = net[r].new /\ (rows' = rows \/ rows' = rows \o net[r].new)
  <2>1. UNCHANGED <<blocks, buffer, posting>>
        /\ ((Replies(r, 200) /\ rows' = rows \o net[r].new) \/ (Replies(r, 404) /\ rows' = rows))
    BY <1>2, CommitReplies
  <2>2. Proceeds(r) /\ net'[r].new = net[r].new
    BY <2>1, RepliesProceeds
  <2> QED
    BY <2>1, <2>2 DEF blocks
<1>3. ASSUME Fail(r)
      PROVE  /\ Proceeds(r) /\ script' = script /\ next' = next
             /\ net'[r].new = net[r].new /\ rows' = rows
  <2>1. UNCHANGED <<blocks, buffer, posting>> /\ rows' = rows /\ \E http \in {500, 503} : Replies(r, http)
    BY <1>3, FailReplies
  <2>2. Proceeds(r) /\ net'[r].new = net[r].new
    BY <2>1, RepliesProceeds
  <2> QED
    BY <2>1, <2>2 DEF blocks
<1> QED
  BY <1>1, <1>2, <1>3

LEMMA NextAims ==
  ASSUME ShapeFit, StacksFit, ItemsMade, PlacesFit, AimsFit, ShapeFit', ItemsMade', [Next]_vars
  PROVE  AimsFit'
<1>1. ASSUME NEW f \in Flusher, FlushAsync(f) PROVE AimsFit'
  <2>1. Takes(f) /\ script' = script /\ next' = next /\ f \in Sender
    BY <1>1, FlushAsyncTakes, SenderIs
  <2>2. \A q \in Sender \ {f} : \A n \in DOMAIN todo[q] : \A a \in DOMAIN todo[q][n].items :
          Aims(q, todo[q][n].items[a], script, next')
    BY <2>1 DEF AimsFit
  <2> QED
    BY <2>1, <2>2, TakesAims
<1>2. ASSUME NEW r \in DOMAIN net, ServeItem(r) \/ Commit(r) \/ Fail(r) PROVE AimsFit'
  <2>1. Proceeds(r) /\ script' = script /\ next' = next
    BY <1>2, ServeStepIs
  <2>2. /\ todo' = todo /\ DOMAIN net' = DOMAIN net
        /\ \A s \in DOMAIN net : (net'[s] # Null <=> net[s] # Null) /\ (net[s] # Null => net'[s].items = net[s].items)
    BY <2>1 DEF Proceeds
  <2> QED
    BY <2>1, <2>2 DEF AimsFit
<1>3. CASE UNCHANGED vars
  BY <1>3 DEF vars, AimsFit
<1> QED
  BY <1>1, <1>2, <1>3, StepAims, PostAims DEF Next

LEMMA ExcusedStays ==
  ASSUME NEW item, NEW calls, NEW requests, NEW later, NEW table,
         \A line : Covers(requests, line) => Covers(later, line), Excused(item, calls, requests, table)
  PROVE  Excused(item, calls, later, table)
BY DEF Excused

(* A span that is stored without its parent has not seen it. *)
LEMMA OrphanAlone ==
  ASSUME ShapeFit, ItemsMade, AimsFit, NEW r \in DOMAIN net, net[r] # Null,
         NEW item \in Entry, NEW a \in DOMAIN net[r].items, item = net[r].items[a],
         NEW requests
  PROVE  Excused(Stored(rows \o net[r].new, item), script, requests, rows)
<1> DEFINE table == rows \o net[r].new
           stored == Stored(table, item)
<1>1. SUFFICES ASSUME Orphan(stored, script), NEW m \in DOMAIN rows, Encloses(rows[m].item, stored, script)
               PROVE  FALSE
  BY DEF Excused
<1>2. /\ stored.id = item.id /\ stored.kind = item.kind /\ stored.trace = item.trace
      /\ item.kind = "span" /\ stored.parent = Null
  BY <1>1, StoredShape DEF Same, Orphan
<1> HIDE DEF stored
<1>3. ~ Orphan(item, script)
  BY DEF AimsFit
<1>4. item.parent # Null
  BY <1>1, <1>2, <1>3 DEF Orphan, OpOf, Around
<1>5. SpansOf(table, item.trace, item.parent) = {}
  BY <1>2, <1>4 DEF Stored, stored
<1>6. Made(item, script, next)
  BY Recalled DEF Posted
<1>7. Enclosed(item, script)
  <2> HIDE DEF Enclosed
  <2> QED
    BY <1>4, <1>6 DEF Made
<1>8. PICK i \in Around(item, script) :
        Innermost(i, Around(item, script)) /\ item.parent = script[item.id[1]][i].span
  BY <1>7 DEF Enclosed, Around
<1>9. Around(stored, script) = Around(item, script)
  BY <1>2 DEF Around
<1>10. PICK j \in Around(item, script) :
         Innermost(j, Around(item, script)) /\ rows[m].item.kind = "span" /\ rows[m].item.id = <<item.id[1], j>>
  BY <1>1, <1>2, <1>9 DEF Encloses
<1>11. /\ item.id[2] \in Nat /\ j \in 1 .. item.id[2] - 1 /\ i \in 1 .. item.id[2] - 1
       /\ script[item.id[1]][j].op = "span" /\ script[item.id[1]][j].trace = item.trace
  BY <1>6, <1>8, <1>10 DEF Around, Opened, Entry
<1>12. i = j
  <2>1. i <= j /\ j <= i
    BY <1>8, <1>10 DEF Innermost
  <2> QED
    BY <1>11, <2>1
<1>13. rows[m].item.id[1] = item.id[1] /\ rows[m].item.id[2] = j
  BY <1>10
<1>14. Made(rows[m].item, script, next)
  BY Recalled DEF Posted
<1>15. rows[m].item.span = script[item.id[1]][j].span /\ rows[m].item.trace = item.trace
  <2> HIDE DEF Enclosed
  <2> QED
    BY <1>11, <1>13, <1>14 DEF Made
<1>16. m \in DOMAIN table /\ table[m] = rows[m]
  <2>1. PICK old \in Seq(Line) : old = rows
    BY DEF ShapeFit
  <2>2. PICK new \in Seq(Line) : new = net[r].new
    BY Requests
  <2>3. m \in DOMAIN old
    BY <2>1
  <2>4. m \in DOMAIN (old \o new) /\ (old \o new)[m] = old[m]
    BY <2>3, Joined
  <2> QED
    BY <2>1, <2>2, <2>4
<1> HIDE DEF table
<1>17. m \in SpansOf(table, item.trace, item.parent)
  BY <1>8, <1>10, <1>12, <1>15, <1>16 DEF SpansOf, SpansIn
<1> QED
  BY <1>5, <1>17

LEMMA ServeItemOrphans ==
  ASSUME ShapeFit, ItemsMade, AttemptsFit, AimsFit, OrphansFit, NEW r \in DOMAIN net, ServeItem(r)
  PROVE  OrphansFit'
<1>1. /\ Proceeds(r) /\ rows' = rows /\ net[r] # Null /\ script' = script
      /\ Len(net[r].oks) + 1 \in DOMAIN net[r].items /\ ServedItem(r) = net[r].items[Len(net[r].oks) + 1]
      /\ ServedItem(r) \in Entry
      /\ DOMAIN net' = DOMAIN net /\ \A s \in DOMAIN net : s # r => net'[s] = net[s]
  BY ServeItemWrites, ServeStepIs DEF Proceeds
<1>2. \A line : Covers(net, line) => Covers(net', line)
  BY <1>1, ProceedsAttempts
<1>3. \A n \in DOMAIN rows' : Excused(rows'[n].item, script', net', rows')
  BY <1>1, <1>2, ExcusedStays DEF OrphansFit
<1>4. \A s \in DOMAIN net : net[s] # Null =>
        \A n \in DOMAIN net[s].new : Excused(net[s].new[n].item, script, net', rows)
  BY <1>2, ExcusedStays DEF OrphansFit
<1>5. PICK new \in Seq(Line) : new = net[r].new
  BY <1>1, Requests
<1>6. \A n \in DOMAIN net'[r].new : Excused(net'[r].new[n].item, script, net', rows)
  <2>1. CASE net'[r].new = net[r].new
    BY <1>1, <1>4, <2>1
  <2>2. ASSUME NEW line \in Line, net'[r].new = Append(new, line),
               line.item = Stored(rows \o net[r].new, ServedItem(r))
        PROVE  \A n \in DOMAIN net'[r].new : Excused(net'[r].new[n].item, script, net', rows)
    <3>1. Excused(line.item, script, net', rows)
      BY <1>1, <2>2, OrphanAlone
    <3>2. PICK more : more = Append(new, line)
      OBVIOUS
    <3>3. \A n \in DOMAIN more : (n \in DOMAIN new /\ more[n] = new[n]) \/ more[n] = line
      BY <3>2, AppendProperties
    <3>4. \A n \in DOMAIN new : Excused(new[n].item, script, net', rows)
      BY <1>1, <1>4, <1>5
    <3> QED
      BY <2>2, <3>1, <3>2, <3>3, <3>4
  <2> QED
    BY <1>5, <2>1, <2>2, ServeItemWrites
<1>7. \A s \in DOMAIN net' : net'[s] # Null =>
        \A n \in DOMAIN net'[s].new : Excused(net'[s].new[n].item, script', net', rows')
  BY <1>1, <1>4, <1>6
<1> QED
  BY <1>3, <1>7 DEF OrphansFit

(* What is committed for the parent of a span that is stored already, is   *)
(* committed late.                                                         *)
LEMMA CommitLate ==
  ASSUME ShapeFit, ItemsMade, AttemptsFit, RowsFit, AimsFit, NEW r \in DOMAIN net, net[r] # Null,
         NEW k \in DOMAIN net[r].new, NEW child \in Entry, Made(child, script, next),
         Encloses(net[r].new[k].item, child, script)
  PROVE  Covers(net, net[r].new[k])
<1>1. PICK e : e = net[r].new[k].item
  OBVIOUS
<1>2. PICK a \in 1 .. Len(net[r].oks) : Same(net[r].items[a], e)
  BY <1>1 DEF RowsFit, Wrote
<1>3. a \in DOMAIN net[r].items /\ net[r].new[k].by = net[r].tag /\ r \in Sender \cup Late
  <2>1. Len(net[r].oks) \in Nat /\ Len(net[r].oks) <= Len(net[r].items) /\ r \in Sender \cup Late
    BY Requests, ZenonT(60)
  <2>2. PICK items \in Seq(Entry) : items = net[r].items
    BY Requests
  <2>3. DOMAIN items = 1 .. Len(items) /\ Len(items) \in Nat
    OBVIOUS
  <2> QED
    BY <2>1, <2>2, <2>3 DEF RowsFit, Wrote
<1>4. CASE r \in Late
  <2>1. Has(net[r].items, e)
    BY <1>2, <1>3 DEF Has
  <2> QED
    BY <1>1, <1>3, <1>4, <2>1 DEF Covers
<1>5. CASE r \in Sender
  <2>1. 1 \in DOMAIN todo[r] /\ net[r].items = todo[r][1].items
    BY <1>5, RequestShape DEF AttemptsFit
  <2>2. PICK item : item = net[r].items[a]
    OBVIOUS
  <2>3. Aims(r, item, script, next)
    BY <1>3, <1>5, <2>1, <2>2 DEF AimsFit
  <2>4. PICK j \in Around(child, script) : e.id = <<child.id[1], j>>
    BY <1>1 DEF Encloses
  <2>5. item.id[1] = child.id[1] /\ item.id[2] = j
    BY <1>2, <2>2, <2>4 DEF Same
  <2>6. script[child.id[1]][j].op = "span" /\ j \in 1 .. child.id[2] - 1
    BY <2>4 DEF Around, Opened
  <2>7. child.id[1] \in Thread /\ child.id[2] \in Nat /\ child.id[2] \in 1 .. next[child.id[1]] - 1
    <3> HIDE DEF Enclosed
    <3> QED
      BY DEF Made, Entry
  <2>8. OpOf(item, script) = "span"
    BY <2>5, <2>6 DEF OpOf
  <2>9. child.id[1] = r /\ j = next[r] - 1
    BY <2>3, <2>5, <2>8 DEF Aims
  <2>10. next[r] \in Nat
    BY <2>7, <2>9 DEF ShapeFit, BlocksFit
  <2> QED
    BY <2>6, <2>7, <2>9, <2>10
<1> QED
  BY <1>3, <1>4, <1>5

LEMMA ServeStepOrphans ==
  ASSUME ShapeFit, ItemsMade, AttemptsFit, RowsFit, AimsFit, OrphansFit, NEW r \in DOMAIN net,
         Commit(r) \/ Fail(r)
  PROVE  OrphansFit'
<1>1. /\ Proceeds(r) /\ script' = script /\ net[r] # Null
      /\ net'[r].new = net[r].new /\ (rows' = rows \/ rows' = rows \o net[r].new)
      /\ DOMAIN net' = DOMAIN net /\ \A s \in DOMAIN net : s # r => net'[s] = net[s]
  BY ServeStepIs DEF Proceeds
<1>2. \A line : Covers(net, line) => Covers(net', line)
  BY <1>1, ProceedsAttempts
<1>3. PICK new \in Seq(Line) : new = net[r].new
  BY <1>1, Requests
<1>4. PICK old \in Seq(Line) : old = rows
  BY DEF ShapeFit
<1>5. \A n \in DOMAIN rows' :
        (n \in DOMAIN rows /\ rows'[n] = rows[n]) \/ \E k \in DOMAIN new : rows'[n] = new[k]
  <2>1. CASE rows' = rows
    BY <2>1
  <2>2. CASE rows' = old \o new
    <3>1. \A n \in DOMAIN (old \o new) :
            (n \in DOMAIN old /\ (old \o new)[n] = old[n])
            \/ \E k \in DOMAIN new : (old \o new)[n] = new[k]
      BY Joined
    <3> QED
      BY <1>4, <2>2, <3>1
  <2> QED
    BY <1>1, <1>3, <1>4, <2>1, <2>2
<1>6. ASSUME NEW child \in Entry, Made(child, script, next), Excused(child, script, net, rows)
      PROVE  Excused(child, script', net', rows')
  <2> SUFFICES ASSUME Orphan(child, script), NEW m \in DOMAIN rows', Encloses(rows'[m].item, child, script)
               PROVE  Covers(net', rows'[m])
    BY <1>1 DEF Excused
  <2>1. CASE m \in DOMAIN rows /\ rows'[m] = rows[m]
    BY <1>2, <1>6, <2>1 DEF Excused
  <2>2. ASSUME NEW k \in DOMAIN new, rows'[m] = new[k] PROVE Covers(net', rows'[m])
    <3>1. Covers(net, net[r].new[k])
      BY <1>1, <1>3, <1>6, <2>2, CommitLate
    <3> QED
      BY <1>2, <1>3, <2>2, <3>1
  <2> QED
    BY <1>5, <2>1, <2>2
<1>7. \A n \in DOMAIN rows : rows[n].item \in Entry /\ Made(rows[n].item, script, next)
  BY Recalled, LineShape DEF Posted, ShapeFit
<1>8. \A s \in DOMAIN net : net[s] # Null =>
        \A n \in DOMAIN net[s].new : net[s].new[n].item \in Entry /\ Made(net[s].new[n].item, script, next)
  <2> SUFFICES ASSUME NEW s \in DOMAIN net, net[s] # Null, NEW n \in DOMAIN net[s].new
               PROVE  net[s].new[n].item \in Entry /\ Made(net[s].new[n].item, script, next)
    OBVIOUS
  <2>1. net[s].new \in Seq(Line)
    BY Requests
  <2> QED
    BY <2>1, LineShape DEF ItemsMade, Stock, Posted
<1>9. \A s \in DOMAIN net' : net'[s] # Null =>
        net[s] # Null /\ net'[s].new = net[s].new
  BY <1>1
<1>10. \A s \in DOMAIN net' : net'[s] # Null =>
         \A n \in DOMAIN net'[s].new : Excused(net'[s].new[n].item, script', net', rows')
  BY <1>1, <1>6, <1>8, <1>9 DEF OrphansFit
<1>11. \A n \in DOMAIN rows' : Excused(rows'[n].item, script', net', rows')
  BY <1>1, <1>3, <1>5, <1>6, <1>7, <1>8 DEF OrphansFit
<1> QED
  BY <1>10, <1>11 DEF OrphansFit

LEMMA NextOrphans ==
  ASSUME ShapeFit, ItemsMade, AttemptsFit, RowsFit, AimsFit, OrphansFit, [Next]_vars
  PROVE  OrphansFit'
<1>1. CASE net' = net /\ rows' = rows /\ script' = script
  BY <1>1 DEF OrphansFit
<1>2. ASSUME NEW t \in Thread, Step(t) PROVE OrphansFit'
  <2>1. net' = net /\ rows' = rows /\ script' = script
    <3>1. CASE Enqueue(t)
      BY <3>1, EnqueuePuts DEF Puts, Goes
    <3>2. CASE Flush(t)
      BY <3>2, FlushTakes DEF Takes, Goes
    <3>3. CASE BlockStep(t)
      BY <3>3, BlockStepMoves DEF Passes, Posts, Goes
    <3> QED
      BY <1>2, <3>1, <3>2, <3>3 DEF Step, BlockStep
  <2> QED
    BY <1>1, <2>1
<1>3. ASSUME NEW f \in Flusher, FlushAsync(f) PROVE OrphansFit'
  BY <1>1, <1>3, FlushAsyncTakes DEF Takes
<1>4. ASSUME NEW p \in Sender, Post(p) PROVE OrphansFit'
  <2>1. Follows /\ script' = script /\ rows' = rows
    BY <1>4, PostFollows DEF Kept
  <2>2. \A line : Covers(net, line) => Covers(net', line)
    BY <2>1 DEF Follows, Covers
  <2>3. \A n \in DOMAIN rows' : Excused(rows'[n].item, script', net', rows')
    BY <2>1, <2>2, ExcusedStays DEF OrphansFit
  <2>4. ASSUME NEW r \in DOMAIN net', net'[r] # Null, NEW n \in DOMAIN net'[r].new
        PROVE  Excused(net'[r].new[n].item, script', net', rows')
    <3>1. PICK s \in DOMAIN net : net[s] # Null /\ net'[r] = net[s]
      <4>1. net'[r].new # << >>
        BY <2>4
      <4> QED
        BY <2>1, <2>4, <4>1 DEF Follows
    <3>2. Excused(net[s].new[n].item, script, net, rows)
      BY <2>4, <3>1 DEF OrphansFit
    <3> QED
      BY <2>1, <2>2, <3>1, <3>2, ExcusedStays
  <2> QED
    BY <2>3, <2>4 DEF OrphansFit
<1>5. CASE UNCHANGED vars
  BY <1>1, <1>5 DEF vars
<1> QED
  BY <1>2, <1>3, <1>4, <1>5, ServeItemOrphans, ServeStepOrphans DEF Next

ParentsHold == CopiesHold /\ AimsFit /\ OrphansFit

LEMMA ParentsInvariant == Spec => []ParentsHold
<1>1. Init /\ CopiesHold => ParentsHold
  <2>1. ASSUME Init
        PROVE  (\A r \in DOMAIN net : net[r] = Null) /\ rows = << >> /\ \A p \in Sender : todo[p] = << >>
    BY <2>1 DEF Init
  <2> QED
    BY <2>1 DEF AimsFit, OrphansFit, ParentsHold
<1>2. ParentsHold /\ CopiesHold' /\ [Next]_vars => ParentsHold'
  BY NextAims, NextOrphans DEF ParentsHold, CopiesHold, PlacesHold, BlocksHold
<1> QED
  BY <1>1, <1>2, CopiesInvariant, PTL DEF Spec

(* The parent that is stored for a span is the innermost block that was    *)
(* open around it in its program, whatever was lost, retried or late; and  *)
(* none is stored only if what arrived of the parent was late.             *)
THEOREM SpansKeepTheirParents == Spec => []ParentsEnclose
<1>1. ParentsHold => ParentsEnclose
  <2> SUFFICES ASSUME ParentsHold, NEW n \in DOMAIN rows, rows[n].item.kind = "span"
               PROVE  LET row    == rows[n].item
                          calls  == script[row.id[1]]
                          around == OpenAround(row.id[1], row.id[2], row.trace)
                      IN
                      /\ row.parent # Null =>
                           \E j \in around : Innermost(j, around) /\ row.parent = calls[j].span
                      /\ row.parent = Null /\ calls[row.id[2]].op = "span" =>
                           \A j \in around, m \in DOMAIN rows :
                             Innermost(j, around) /\ rows[m].item.kind = "span"
                             /\ rows[m].item.id = <<row.id[1], j>> =>
                               \E l \in Late : net[l] # Null /\ net[l].tag = rows[m].by
    BY DEF ParentsEnclose
  <2> DEFINE row == rows[n].item
             around == OpenAround(row.id[1], row.id[2], row.trace)
  <2>1. around = Around(row, script)
    BY AroundIsOpened DEF Around
  <2>2. row.parent # Null => Enclosed(row, script)
    BY DEF ParentsHold, CopiesHold, PlacesHold, BlocksHold, ItemsMade, Stock, Posted, Made
  <2>3. row.parent # Null =>
          \E j \in around : Innermost(j, around) /\ row.parent = script[row.id[1]][j].span
    BY <2>1, <2>2 DEF Enclosed, Around
  <2>4. ASSUME row.parent = Null, script[row.id[1]][row.id[2]].op = "span",
               NEW j \in around, NEW m \in DOMAIN rows, Innermost(j, around),
               rows[m].item.kind = "span", rows[m].item.id = <<row.id[1], j>>
        PROVE  \E l \in Late : net[l] # Null /\ net[l].tag = rows[m].by
    <3>1. Excused(row, script, net, rows)
      BY DEF ParentsHold, OrphansFit
    <3>2. Orphan(row, script)
      BY <2>1, <2>4 DEF Orphan, OpOf
    <3>3. Encloses(rows[m].item, row, script)
      BY <2>1, <2>4 DEF Encloses
    <3>4. Covers(net, rows[m])
      BY <3>1, <3>2, <3>3 DEF Excused
    <3> QED
      BY <3>4 DEF Covers
  <2> QED
    BY <2>3, <2>4
<1> QED
  BY <1>1, ParentsInvariant, PTL


-----------------------------------------------------------------------------
(* Answers tell what was done *)

(* A table keeps the lines of another. *)
Embeds(table, larger) ==
  \E g : /\ \A i \in DOMAIN table : g[i] \in DOMAIN larger /\ larger[g[i]] = table[i]
         /\ \A i, j \in DOMAIN table : g[i] = g[j] => i = j

LEMMA EmbedsKeeps ==
  ASSUME NEW table, NEW larger, Embeds(table, larger)
  PROVE  /\ \A item : Known(table, item) => Known(larger, item)
         /\ \A trace : Twice(table, trace) => Twice(larger, trace)
<1>1. PICK g : /\ \A i \in DOMAIN table : g[i] \in DOMAIN larger /\ larger[g[i]] = table[i]
               /\ \A i, j \in DOMAIN table : g[i] = g[j] => i = j
  BY DEF Embeds
<1>2. ASSUME NEW item, Known(table, item) PROVE Known(larger, item)
  BY <1>1, <1>2 DEF Known
<1>3. ASSUME NEW trace, Twice(table, trace) PROVE Twice(larger, trace)
  <2>1. PICK i \in TracesIn(table, trace) : \E j \in TracesIn(table, trace) : i # j
    BY <1>3 DEF Twice
  <2>2. PICK j \in TracesIn(table, trace) : i # j
    BY <2>1
  <2>3. g[i] \in TracesIn(larger, trace) /\ g[j] \in TracesIn(larger, trace) /\ g[i] # g[j]
    BY <1>1, <2>2 DEF TracesIn
  <2> QED
    BY <2>3 DEF Twice
<1> QED
  BY <1>2, <1>3

LEMMA EmbedsSelf == ASSUME NEW table PROVE Embeds(table, table)
<1> DEFINE g == [i \in DOMAIN table |-> i]
<1>1. \A i \in DOMAIN table : g[i] = i
  OBVIOUS
<1> HIDE DEF g
<1> QED
  BY <1>1 DEF Embeds

LEMMA EmbedsMore ==
  ASSUME NEW old \in Seq(Line), NEW more \in Seq(Line)
  PROVE  Embeds(old, old \o more)
<1> DEFINE g == [i \in DOMAIN old |-> i]
<1>1. \A i \in DOMAIN old : g[i] = i
  OBVIOUS
<1>2. PICK all : all = old \o more
  OBVIOUS
<1>3. \A i \in DOMAIN old : i \in DOMAIN all /\ all[i] = old[i]
  BY <1>2, Joined
<1> HIDE DEF g
<1> QED
  BY <1>1, <1>2, <1>3 DEF Embeds

LEMMA EmbedsJoined ==
  ASSUME NEW old \in Seq(Line), NEW larger \in Seq(Line), NEW new \in Seq(Line), NEW more \in Seq(Line),
         larger = old \o more
  PROVE  Embeds(old \o new, larger \o new)
<1>1. PICK table \in Seq(Line) : table = old \o new
  BY Joined
<1>2. PICK all \in Seq(Line) : all = larger \o new
  BY Joined
<1>3. /\ Len(old) \in Nat /\ Len(more) \in Nat /\ Len(larger) = Len(old) + Len(more)
      /\ DOMAIN old = 1 .. Len(old)
  BY ConcatProperties
<1>4. \A i \in DOMAIN old : i \in DOMAIN larger /\ larger[i] = old[i]
  BY Joined
<1>5. /\ \A i \in DOMAIN larger : i \in DOMAIN all /\ all[i] = larger[i]
      /\ \A i \in DOMAIN new : Len(larger) + i \in DOMAIN all /\ all[Len(larger) + i] = new[i]
                               /\ Len(larger) + i \notin DOMAIN larger
  BY <1>2, Joined, SMTT(30)
<1>6. /\ \A i \in DOMAIN old : i \in DOMAIN table /\ table[i] = old[i]
      /\ \A i \in DOMAIN new : table[Len(old) + i] = new[i] /\ Len(old) + i \notin DOMAIN old
      /\ \A i \in DOMAIN table : i \in DOMAIN old \/ \E k \in DOMAIN new : i = Len(old) + k
  BY <1>1, Joined
<1> DEFINE g == [i \in DOMAIN table |-> IF i \in DOMAIN old THEN i ELSE i + Len(more)]
<1>7. /\ \A i \in DOMAIN old : g[i] = i
      /\ \A i \in DOMAIN table : i \notin DOMAIN old => g[i] = i + Len(more)
  BY <1>6
<1>8. \A i \in DOMAIN table : i \in Nat
  BY <1>1
<1> HIDE DEF g
<1>9. ASSUME NEW i \in DOMAIN table, i \notin DOMAIN old
      PROVE  /\ g[i] \in DOMAIN all /\ all[g[i]] = table[i] /\ g[i] \notin DOMAIN larger
  <2>1. PICK k \in DOMAIN new : i = Len(old) + k
    BY <1>6, <1>9
  <2>2. k \in Nat
    OBVIOUS
  <2>3. g[i] = Len(larger) + k
    BY <1>3, <1>7, <1>8, <1>9, <2>1, <2>2
  <2> QED
    BY <1>5, <1>6, <2>1, <2>3
<1>10. \A i \in DOMAIN table : g[i] \in DOMAIN all /\ all[g[i]] = table[i]
  BY <1>4, <1>5, <1>6, <1>7, <1>9
<1>11. ASSUME NEW i \in DOMAIN table, NEW j \in DOMAIN table, g[i] = g[j] PROVE i = j
  <2>1. CASE i \in DOMAIN old /\ j \in DOMAIN old
    BY <1>7, <1>11, <2>1
  <2>2. CASE i \in DOMAIN old /\ j \notin DOMAIN old
    BY <1>4, <1>7, <1>9, <1>11, <2>2
  <2>3. CASE i \notin DOMAIN old /\ j \in DOMAIN old
    BY <1>4, <1>7, <1>9, <1>11, <2>3
  <2>4. CASE i \notin DOMAIN old /\ j \notin DOMAIN old
    BY <1>3, <1>7, <1>8, <1>11, <2>4
  <2> QED
    BY <2>1, <2>2, <2>3, <2>4
<1> QED
  BY <1>1, <1>2, <1>10, <1>11 DEF Embeds

(* A request that commits adds nothing to what another one has written. *)
LEMMA Foreign ==
  ASSUME ShapeFit, PlacesFit, AttemptsFit, RowsFit, NEW r \in DOMAIN net, NEW s \in DOMAIN net, r # s,
         net[r] # Null, net[s] # Null, NEW n \in DOMAIN net[r].new,
         net[r].new[n].by = net[s].tag, Has(net[s].items, net[r].new[n].item)
  PROVE  FALSE
<1>1. net[r].new[n].by = net[r].tag /\ \E a \in 1 .. Len(net[r].oks) : Same(net[r].items[a], net[r].new[n].item)
  BY DEF RowsFit, Wrote
<1>2. PICK a \in 1 .. Len(net[r].oks) : Same(net[r].items[a], net[r].new[n].item)
  BY <1>1
<1>3. PICK items \in Seq(Entry) : items = net[r].items
  BY Requests
<1>4. DOMAIN items = 1 .. Len(items) /\ Len(items) \in Nat /\ Len(net[r].oks) \in Nat /\ Len(net[r].oks) <= Len(items)
  BY <1>3, Requests
<1>5. a \in DOMAIN net[r].items
  BY <1>3, <1>4
<1>6. PICK b \in DOMAIN net[s].items : Same(net[s].items[b], net[r].new[n].item)
  BY DEF Has
<1>7. Same(net[r].items[a], net[s].items[b])
  BY <1>2, <1>6 DEF Same
<1>8. Share(net[r].items, net[s].items)
  BY <1>5, <1>7 DEF Share
<1> QED
  BY <1>1, <1>8, OneTag

LEMMA FateKept ==
  ASSUME NEW q, NEW n, NEW stored, NEW table, Fate(q, stored, table, n),
         NEW larger, NEW wider, Embeds(table, wider),
         Bears(stored, q.tag, q.items[n]) <=> Bears(larger, q.tag, q.items[n])
  PROVE  Fate(q, larger, wider, n)
BY EmbedsKeeps DEF Fate

Grows(old, new, larger) ==
  /\ Embeds(old, larger) /\ \A mine \in Seq(Line) : Embeds(old \o mine, larger \o mine)
  /\ \A tag, item : Bears(larger, tag, item) <=> Bears(old, tag, item) \/ Bears(new, tag, item)

LEMMA Grown ==
  ASSUME NEW old \in Seq(Line), NEW new \in Seq(Line), NEW larger, larger = old \o new
  PROVE  Grows(old, new, larger)
<1>1. larger \in Seq(Line) /\ Embeds(old, larger)
  BY Joined, EmbedsMore
<1>2. \A mine \in Seq(Line) : Embeds(old \o mine, larger \o mine)
  BY <1>1, EmbedsJoined
<1>3. /\ \A n \in DOMAIN old : n \in DOMAIN larger /\ larger[n] = old[n]
      /\ \A m \in DOMAIN new : Len(old) + m \in DOMAIN larger /\ larger[Len(old) + m] = new[m]
      /\ \A n \in DOMAIN larger : n \in DOMAIN old \/ \E m \in DOMAIN new : n = Len(old) + m
  BY Joined
<1>4. ASSUME NEW tag, NEW item
      PROVE  Bears(larger, tag, item) <=> Bears(old, tag, item) \/ Bears(new, tag, item)
  <2>1. ASSUME Bears(larger, tag, item) PROVE Bears(old, tag, item) \/ Bears(new, tag, item)
    <3>1. PICK n \in DOMAIN larger : Same(larger[n].item, item) /\ larger[n].by = tag
      BY <2>1 DEF Bears
    <3>2. CASE n \in DOMAIN old
      <4>1. old[n] = larger[n]
        BY <1>3, <3>2
      <4> QED
        BY <3>1, <3>2, <4>1 DEF Bears
    <3>3. ASSUME NEW m \in DOMAIN new, n = Len(old) + m PROVE Bears(new, tag, item)
      <4>1. new[m] = larger[n]
        BY <1>3, <3>3
      <4> QED
        BY <3>1, <4>1 DEF Bears
    <3> QED
      BY <1>3, <3>1, <3>2, <3>3
  <2>2. ASSUME Bears(old, tag, item) PROVE Bears(larger, tag, item)
    <3>1. PICK n \in DOMAIN old : Same(old[n].item, item) /\ old[n].by = tag
      BY <2>2 DEF Bears
    <3>2. n \in DOMAIN larger /\ larger[n] = old[n]
      BY <1>3
    <3> QED
      BY <3>1, <3>2 DEF Bears
  <2>3. ASSUME Bears(new, tag, item) PROVE Bears(larger, tag, item)
    <3>1. PICK n \in DOMAIN new : Same(new[n].item, item) /\ new[n].by = tag
      BY <2>3 DEF Bears
    <3>2. PICK m \in DOMAIN larger : larger[m] = new[n]
      BY <1>3
    <3> QED
      BY <3>1, <3>2 DEF Bears
  <2> QED
    BY <2>1, <2>2, <2>3
<1> QED
  BY <1>1, <1>2, <1>4 DEF Grows

LEMMA CommitTellsOthers ==
  ASSUME ShapeFit, PlacesFit, AttemptsFit, RowsFit, AnswersFit, NEW r \in DOMAIN net, net[r] # Null,
         NEW s \in DOMAIN net, s # r, net[s] # Null, net[s].http \in {Null, 200},
         NEW larger, Grows(rows, net[r].new, larger)
  PROVE  Served(net[s], larger)
<1>1. PICK q : q = net[s]
  OBVIOUS
<1>2. PICK old : old = rows
  OBVIOUS
<1>3. Served(q, old) /\ q.new \in Seq(Line)
  BY <1>1, <1>2, Requests DEF AnswersFit
<1>4. Embeds(old, larger) /\ Embeds(old \o q.new, larger \o q.new)
  BY <1>2, <1>3 DEF Grows
<1>5. ASSUME NEW n \in DOMAIN q.oks
      PROVE  Bears(old, q.tag, q.items[n]) <=> Bears(larger, q.tag, q.items[n])
  <2>1. n \in DOMAIN q.items
    <3>1. PICK items \in Seq(Entry) : items = net[s].items
      BY Requests
    <3>2. PICK oks \in Seq(BOOLEAN) : oks = net[s].oks
      BY Requests
    <3>3. Len(oks) <= Len(items)
      BY <3>1, <3>2, Requests
    <3> QED
      BY <1>1, <3>1, <3>2, <3>3
  <2>2. ~ Bears(net[r].new, q.tag, q.items[n])
    <3>1. ASSUME NEW m \in DOMAIN net[r].new, net[r].new[m].by = net[s].tag,
                 Same(net[r].new[m].item, net[s].items[n])
          PROVE  FALSE
      <4>1. Has(net[s].items, net[r].new[m].item)
        BY <1>1, <2>1, <3>1, SameSym DEF Has
      <4> QED
        BY <3>1, <4>1, Foreign
    <3> QED
      BY <1>1, <3>1 DEF Bears
  <2> QED
    BY <1>2, <2>2 DEF Grows
<1>6. CASE q.http = 200
  <2>1. ASSUME NEW n \in DOMAIN q.oks PROVE Fate(q, larger, larger, n)
    <3>1. Fate(q, old, old, n)
      BY <1>3, <1>6 DEF Served
    <3> QED
      BY <1>4, <1>5, <3>1, FateKept
  <2> QED
    BY <1>1, <1>3, <1>6, <2>1 DEF Served
<1>7. CASE q.http # 200
  <2>1. ASSUME NEW n \in DOMAIN q.oks PROVE Fate(q, larger, larger \o q.new, n)
    <3>1. Fate(q, old, old \o q.new, n)
      BY <1>3, <1>7 DEF Served
    <3> QED
      BY <1>4, <1>5, <3>1, FateKept
  <2> QED
    BY <1>1, <1>7, <2>1 DEF Served
<1> QED
  BY <1>6, <1>7

LEMMA CommitTells ==
  ASSUME ShapeFit, RowsFit, AnswersFit, NEW r \in DOMAIN net, net[r] # Null, net[r].http = Null,
         Len(net[r].oks) = Len(net[r].items),
         NEW larger, rows \o net[r].new = larger, Grows(rows, net[r].new, larger),
         NEW q, q.items = net[r].items, q.tag = net[r].tag, q.oks = net[r].oks, q.new = net[r].new, q.http = 200
  PROVE  Served(q, larger)
<1>1. Null # 200 /\ Served(net[r], rows) /\ Recorded(net[r], rows) /\ Wrote(net[r])
  BY TelemetryAssumption DEF AnswersFit, RowsFit
<1>2. \A item : Bears(larger, q.tag, item) <=> Bears(rows, q.tag, item) \/ Bears(q.new, q.tag, item)
  BY DEF Grows
<1>3. ASSUME NEW n \in DOMAIN q.oks PROVE Fate(q, larger, larger, n)
  <2>1. Fate(net[r], rows, larger, n)
    BY <1>1, <1>3 DEF Served
  <2>2. ASSUME q.oks[n], ~ Creates(q.items[n]) PROVE Bears(larger, q.tag, q.items[n])
    <3>1. PICK m \in DOMAIN q.new : Same(q.new[m].item, q.items[n])
      BY <1>1, <2>1, <2>2 DEF Fate
    <3>2. q.new[m].by = q.tag
      BY <1>1 DEF Wrote
    <3>3. Bears(q.new, q.tag, q.items[n])
      BY <3>1, <3>2 DEF Bears
    <3> QED
      BY <1>2, <3>3
  <2>3. ASSUME ~ q.oks[n] PROVE ~ Bears(larger, q.tag, q.items[n])
    <3>1. ~ Bears(q.new, q.tag, q.items[n])
      BY <2>1, <2>3 DEF Fate, Bears
    <3>2. n \in DOMAIN net[r].items
      <4>1. PICK items \in Seq(Entry) : items = net[r].items
        BY Requests
      <4>2. PICK oks \in Seq(BOOLEAN) : oks = net[r].oks
        BY Requests
      <4> QED
        BY <1>3, <4>1, <4>2
    <3>3. ASSUME NEW m \in DOMAIN rows, rows[m].by = net[r].tag, Same(rows[m].item, net[r].items[n]) PROVE FALSE
      <4>1. Has(net[r].items, rows[m].item)
        BY <3>2, <3>3, SameSym DEF Has
      <4> QED
        BY <1>1, <3>3, <4>1 DEF Recorded
    <3>4. ~ Bears(rows, q.tag, q.items[n])
      BY <3>3 DEF Bears
    <3> QED
      BY <1>2, <3>1, <3>4
  <2>4. q.oks[n] /\ Creates(q.items[n]) => Known(larger, q.items[n])
    BY <2>1 DEF Fate
  <2>5. ~ q.oks[n] =>
       /\ \A m \in DOMAIN q.new : ~ Same(q.new[m].item, q.items[n])
       /\ q.items[n].id \notin Rejected /\ q.items[n].kind = "event" =>
            \/ Twice(larger, q.items[n].trace)
            \/ \A m \in 1 .. n - 1 :
                 ~ (q.oks[m] /\ q.items[m].kind = "start" /\ q.items[m].trace = q.items[n].trace)
    BY <2>1 DEF Fate
  <2> QED
    BY <2>2, <2>3, <2>4, <2>5 DEF Fate
<1> QED
  BY <1>3 DEF Served

(* Why an event was not accepted. *)
LEMMA NoTrace ==
  ASSUME NEW table, NEW item, item.kind = "event", ~ Accepts(table, item)
  PROVE  Twice(table, item.trace) \/ TracesIn(table, item.trace) = {}
<1>1. ~ One(TracesIn(table, item.trace))
  BY DEF Accepts
<1> DEFINE S == TracesIn(table, item.trace)
<1>2. SUFFICES ASSUME S # {}, \A i, j \in S : i = j PROVE FALSE
  BY DEF Twice
<1>3. Cardinality(S) = 1
  <2> HIDE DEF S
  <2> QED
    BY <1>2, AtMostOne
<1> QED
  BY <1>1, <1>3 DEF One

Gains(old, new, larger, line) ==
  /\ Embeds(old \o new, old \o larger)
  /\ \E k \in DOMAIN (old \o larger) : (old \o larger)[k] = line
  /\ \A m \in DOMAIN new : m \in DOMAIN larger /\ larger[m] = new[m]
  /\ \A m \in DOMAIN larger : (m \in DOMAIN new /\ larger[m] = new[m]) \/ larger[m] = line
  /\ \E m \in DOMAIN larger : larger[m] = line

LEMMA Appended ==
  ASSUME NEW old \in Seq(Line), NEW new \in Seq(Line), NEW line \in Line
  PROVE  Gains(old, new, Append(new, line), line)
<1>1. PICK more \in Seq(Line) : more = Append(new, line)
  BY AppendProperties
<1>2. /\ DOMAIN more = 1 .. Len(new) + 1 /\ DOMAIN new = 1 .. Len(new) /\ Len(new) \in Nat
      /\ \A i \in DOMAIN new : more[i] = new[i]
      /\ more[Len(new) + 1] = line
  BY <1>1, AppendProperties
<1>3. PICK one \in Seq(Line) : one = <<line>>
  <2>1. PICK lines : lines = Line
    OBVIOUS
  <2>2. \A e \in lines : <<e>> \in Seq(lines)
    OBVIOUS
  <2> QED
    BY <2>1, <2>2
<1>4. more = new \o one
  BY <1>1, <1>3, AppendIsConcat
<1>5. PICK table \in Seq(Line) : table = old \o new
  BY Joined
<1>6. Embeds(table, table \o one)
  BY EmbedsMore
<1>7. (old \o new) \o one = old \o (new \o one)
  BY ConcatAssociative, SMTT(30)
<1>8. table \o one = old \o more
  BY <1>4, <1>5, <1>7
<1>9. PICK all : all = old \o more
  OBVIOUS
<1>10. \A n \in DOMAIN more : Len(old) + n \in DOMAIN all /\ all[Len(old) + n] = more[n]
  BY <1>9, Joined, SMTT(30)
<1>11. Len(new) + 1 \in DOMAIN more
  BY <1>2
<1>12. Embeds(table, all) /\ \E k \in DOMAIN all : all[k] = line
  BY <1>2, <1>6, <1>8, <1>9, <1>10, <1>11
<1>13. \A m \in DOMAIN new : m \in DOMAIN more /\ more[m] = new[m]
  BY <1>2
<1>14. \A m \in DOMAIN more : (m \in DOMAIN new /\ more[m] = new[m]) \/ more[m] = line
  BY <1>2
<1>15. \E m \in DOMAIN more : more[m] = line
  BY <1>2, <1>11
<1>16. Embeds(old \o new, old \o more) /\ \E k \in DOMAIN (old \o more) : (old \o more)[k] = line
  BY <1>5, <1>9, <1>12
<1> QED
  BY <1>1, <1>13, <1>14, <1>15, <1>16 DEF Gains

(* What serving an item adds to what its request has written. *)
Adds(q, larger, item, ok) ==
  /\ \A m \in DOMAIN q.new : m \in DOMAIN larger /\ larger[m] = q.new[m] /\ ~ Same(q.new[m].item, item)
  /\ \A m \in DOMAIN larger :
       (m \in DOMAIN q.new /\ larger[m] = q.new[m]) \/ (ok /\ Same(larger[m].item, item))
  /\ ok /\ ~ Creates(item) => \E m \in DOMAIN larger : Same(larger[m].item, item)

LEMMA ServeItemAdds ==
  ASSUME ShapeFit, AttemptsFit, RowsFit, NEW r \in DOMAIN net, ServeItem(r)
  PROVE  /\ Adds(net[r], net'[r].new, ServedItem(r), Accepted(r))
         /\ Embeds(rows \o net[r].new, rows \o net'[r].new)
         /\ Accepted(r) /\ Creates(ServedItem(r)) => Known(rows \o net'[r].new, ServedItem(r))
<1>1. PICK item \in Entry : item = ServedItem(r)
  BY ServeItemWrites
<1>2. PICK ok : ok = Accepted(r)
  OBVIOUS
<1>3. net[r] # Null /\ Len(net[r].oks) + 1 \in DOMAIN net[r].items /\ item = net[r].items[Len(net[r].oks) + 1]
  BY <1>1, ServeItemWrites DEF Proceeds
<1>4. PICK new \in Seq(Line) : new = net[r].new
  BY <1>3, Requests
<1>5. PICK old \in Seq(Line) : old = rows
  BY DEF ShapeFit
<1>6. PICK larger : larger = net'[r].new
  OBVIOUS
<1>7. PICK table : table = old \o new
  OBVIOUS
<1>8. \/ larger = new /\ (ok => Known(table, item))
      \/ /\ ok /\ ~ Known(table, item)
         /\ \E line \in Line : larger = Append(new, line) /\ line.item = Stored(table, item)
  BY <1>1, <1>2, <1>4, <1>5, <1>6, <1>7, ServeItemWrites
<1>9. \A m \in DOMAIN new : ~ Same(new[m].item, item)
  <2> SUFFICES ASSUME NEW m \in DOMAIN new, Same(new[m].item, item) PROVE FALSE
    OBVIOUS
  <2>1. PICK a \in 1 .. Len(net[r].oks) : Same(net[r].items[a], new[m].item)
    BY <1>3, <1>4 DEF RowsFit, Wrote
  <2>2. PICK items \in Seq(Entry) : items = net[r].items
    BY <1>3, Requests
  <2>3. Len(net[r].oks) \in Nat /\ Len(net[r].oks) <= Len(items)
    BY <1>3, <2>2, Requests
  <2>4. a \in DOMAIN items /\ a # Len(net[r].oks) + 1
    BY <2>2, <2>3
  <2>5. Same(items[a], items[Len(net[r].oks) + 1])
    BY <1>3, <2>1, <2>2 DEF Same
  <2>6. Apart(items)
    BY <1>3, <2>2 DEF AttemptsFit
  <2> QED
    BY <1>3, <2>2, <2>4, <2>5, <2>6 DEF Apart
<1>10. CASE larger = new /\ (ok => Known(table, item))
  <2>1. ok => Creates(item)
    BY <1>10 DEF Known, Creates
  <2>2. Adds(net[r], larger, item, ok)
    BY <1>4, <1>9, <1>10, <2>1 DEF Adds
  <2>3. Embeds(table, old \o larger)
    BY <1>7, <1>10, EmbedsSelf
  <2>4. ok /\ Creates(item) => Known(old \o larger, item)
    BY <1>7, <1>10
  <2> QED
    BY <1>1, <1>2, <1>4, <1>5, <1>6, <1>7, <2>2, <2>3, <2>4
<1>11. ASSUME ok, NEW line \in Line, larger = Append(new, line), line.item = Stored(table, item)
       PROVE  /\ Adds(net[r], larger, item, ok) /\ Embeds(table, old \o larger)
              /\ Known(old \o larger, item) \/ ~ Creates(item)
  <2>0. Gains(old, new, larger, line)
    BY <1>11, Appended
  <2>1. PICK wider : wider = old \o larger
    OBVIOUS
  <2>2. /\ Same(line.item, item) /\ line.item.kind = item.kind
        /\ line.item.trace = item.trace /\ line.item.span = item.span
    BY <1>11, StoredShape DEF Same
  <2>3. /\ \A m \in DOMAIN new : m \in DOMAIN larger /\ larger[m] = new[m]
        /\ \A m \in DOMAIN larger : (m \in DOMAIN new /\ larger[m] = new[m]) \/ larger[m] = line
        /\ \E m \in DOMAIN larger : larger[m] = line
    BY <2>0 DEF Gains
  <2>4. Embeds(table, wider) /\ \E k \in DOMAIN wider : wider[k] = line
    BY <1>7, <2>0, <2>1 DEF Gains
  <2>5. Adds(net[r], larger, item, ok)
    BY <1>4, <1>9, <1>11, <2>2, <2>3 DEF Adds
  <2>6. Creates(item) => Known(wider, item)
    BY <2>2, <2>4 DEF Creates, Known
  <2> QED
    BY <2>1, <2>4, <2>5, <2>6
<1>12. CASE /\ ok /\ ~ Known(table, item)
            /\ \E line \in Line : larger = Append(new, line) /\ line.item = Stored(table, item)
  <2>1. /\ Adds(net[r], larger, item, ok) /\ Embeds(table, old \o larger)
        /\ Known(old \o larger, item) \/ ~ Creates(item)
    BY <1>11, <1>12
  <2> QED
    BY <1>1, <1>2, <1>4, <1>5, <1>6, <1>7, <2>1
<1> QED
  BY <1>8, <1>10, <1>12

LEMMA ServeItemTells ==
  ASSUME ShapeFit, AttemptsFit, RowsFit, AnswersFit, NEW r \in DOMAIN net, ServeItem(r)
  PROVE  Served(net'[r], rows)
<1>1. PICK q : q = net[r]
  OBVIOUS
<1>2. PICK s : s = net'[r]
  OBVIOUS
<1>3. PICK item : item = ServedItem(r)
  OBVIOUS
<1>4. PICK ok \in BOOLEAN : ok = Accepted(r)
  BY ServeItemWrites
<1>5. PICK table : table = rows \o q.new
  OBVIOUS
<1>6. PICK wider : wider = rows \o s.new
  OBVIOUS
<1>7. q # Null /\ q.http = Null /\ Null # 200
  BY <1>1, ServeItemWrites, TelemetryAssumption DEF Proceeds
<1>8. PICK oks \in Seq(BOOLEAN) : oks = q.oks
  BY <1>1, <1>7, Requests
<1>9. /\ s.items = q.items /\ s.tag = q.tag /\ s.http = Null /\ s.oks = Append(oks, ok)
      /\ item = q.items[Len(oks) + 1] /\ Len(oks) + 1 \in DOMAIN q.items
  BY <1>1, <1>2, <1>3, <1>4, <1>8, ServeItemWrites DEF Proceeds
<1>10. /\ Len(oks) \in Nat /\ DOMAIN oks = 1 .. Len(oks) /\ DOMAIN s.oks = 1 .. Len(oks) + 1
       /\ s.oks[Len(oks) + 1] = ok /\ \A m \in 1 .. Len(oks) : s.oks[m] = oks[m]
  BY <1>8, <1>9, AppendProperties
<1>11. /\ Adds(q, s.new, item, ok) /\ Embeds(table, wider)
       /\ ok /\ Creates(item) => Known(wider, item)
  BY <1>1, <1>2, <1>3, <1>4, <1>5, <1>6, ServeItemAdds
<1>12. \A m \in 1 .. Len(oks) : Fate(q, rows, table, m)
  <2>1. Served(q, rows)
    BY <1>1, <1>7 DEF AnswersFit
  <2> QED
    BY <1>5, <1>7, <1>8, <1>10, <2>1 DEF Served
<1>13. Apart(q.items) /\ \A m \in 1 .. Len(oks) : m \in DOMAIN q.items /\ m # Len(oks) + 1
  <2>1. PICK items \in Seq(Entry) : items = q.items
    BY <1>1, <1>7, Requests
  <2>2. \A m \in 1 .. Len(oks) : m \in DOMAIN items /\ m # Len(oks) + 1
    BY <1>9, <1>10, <2>1
  <2> QED
    BY <1>1, <1>7, <2>1, <2>2 DEF AttemptsFit
<1>14. ASSUME NEW n \in 1 .. Len(oks) PROVE Fate(s, rows, wider, n)
  <2>1. Fate(q, rows, table, n) /\ s.oks[n] = q.oks[n] /\ s.items[n] = q.items[n]
    BY <1>8, <1>9, <1>10, <1>12
  <2>2. s.oks[n] /\ Creates(s.items[n]) => Known(wider, s.items[n])
    BY <1>11, <2>1, EmbedsKeeps DEF Fate
  <2>3. s.oks[n] /\ ~ Creates(s.items[n]) => \E m \in DOMAIN s.new : Same(s.new[m].item, s.items[n])
    <3>1. s.oks[n] /\ ~ Creates(s.items[n]) => \E m \in DOMAIN q.new : Same(q.new[m].item, s.items[n])
      BY <1>7, <2>1 DEF Fate
    <3> QED
      BY <1>11, <3>1 DEF Adds
  <2>4. ~ s.oks[n] => \A m \in DOMAIN s.new : ~ Same(s.new[m].item, s.items[n])
    <3>1. ~ Same(item, s.items[n])
      BY <1>9, <1>13, <2>1 DEF Apart
    <3>2. ~ s.oks[n] => \A m \in DOMAIN q.new : ~ Same(q.new[m].item, s.items[n])
      BY <2>1 DEF Fate
    <3>3. \A e : Same(e, item) => ~ Same(e, s.items[n])
      BY <3>1 DEF Same
    <3> QED
      BY <1>11, <3>2, <3>3 DEF Adds
  <2>5. ~ s.oks[n] /\ s.items[n].id \notin Rejected /\ s.items[n].kind = "event" =>
          \/ Twice(wider, s.items[n].trace)
          \/ \A m \in 1 .. n - 1 :
               ~ (s.oks[m] /\ s.items[m].kind = "start" /\ s.items[m].trace = s.items[n].trace)
    <3>1. ~ s.oks[n] /\ s.items[n].id \notin Rejected /\ s.items[n].kind = "event" =>
            \/ Twice(table, s.items[n].trace)
            \/ \A m \in 1 .. n - 1 :
                 ~ (q.oks[m] /\ s.items[m].kind = "start" /\ s.items[m].trace = s.items[n].trace)
      BY <1>9, <2>1 DEF Fate
    <3>2. \A m \in 1 .. n - 1 : s.oks[m] = q.oks[m]
      BY <1>8, <1>10
    <3> QED
      BY <1>11, <3>1, <3>2, EmbedsKeeps
  <2> QED
    BY <1>7, <1>9, <2>2, <2>3, <2>4, <2>5 DEF Fate
<1>15. ASSUME NEW n, n = Len(oks) + 1 PROVE Fate(s, rows, wider, n)
  <2>1. s.oks[n] = ok /\ s.items[n] = item
    BY <1>9, <1>10, <1>15
  <2>2. ok /\ ~ Creates(item) => \E m \in DOMAIN s.new : Same(s.new[m].item, item)
    BY <1>11 DEF Adds
  <2>3. ~ ok => \A m \in DOMAIN s.new : ~ Same(s.new[m].item, item)
    BY <1>11 DEF Adds
  <2>4. ASSUME ~ ok, item.id \notin Rejected, item.kind = "event"
        PROVE  \/ Twice(wider, item.trace)
               \/ \A m \in 1 .. n - 1 :
                    ~ (s.oks[m] /\ s.items[m].kind = "start" /\ s.items[m].trace = item.trace)
    <3>1. ~ Accepts(table, item)
      BY <1>1, <1>3, <1>4, <1>5, <2>4 DEF Accepted
    <3>2. Twice(table, item.trace) \/ TracesIn(table, item.trace) = {}
      BY <2>4, <3>1, NoTrace
    <3>3. ASSUME NEW m \in 1 .. n - 1, s.oks[m], s.items[m].kind = "start", s.items[m].trace = item.trace
          PROVE  TracesIn(table, item.trace) # {}
      <4>1. m \in 1 .. Len(oks)
        BY <1>10, <1>15
      <4>2. q.oks[m] /\ q.items[m].kind = "start" /\ q.items[m].trace = item.trace
        BY <1>8, <1>9, <1>10, <3>3, <4>1
      <4>3. Known(table, q.items[m])
        BY <1>12, <4>1, <4>2 DEF Fate, Creates
      <4> QED
        BY <4>2, <4>3 DEF Known, TracesIn
    <3> QED
      BY <1>11, <3>2, <3>3, EmbedsKeeps
  <2> QED
    <3>1. s.oks[n] /\ Creates(s.items[n]) => Known(wider, s.items[n])
      BY <1>11, <2>1
    <3>2. s.oks[n] /\ ~ Creates(s.items[n]) => \E m \in DOMAIN s.new : Same(s.new[m].item, s.items[n])
      BY <2>1, <2>2
    <3>3. ~ s.oks[n] => \A m \in DOMAIN s.new : ~ Same(s.new[m].item, s.items[n])
      BY <2>1, <2>3
    <3>4. ~ s.oks[n] /\ s.items[n].id \notin Rejected /\ s.items[n].kind = "event" =>
            \/ Twice(wider, s.items[n].trace)
            \/ \A m \in 1 .. n - 1 :
                 ~ (s.oks[m] /\ s.items[m].kind = "start" /\ s.items[m].trace = s.items[n].trace)
      BY <2>1, <2>4
    <3> QED
      BY <1>7, <1>9, <3>1, <3>2, <3>3, <3>4 DEF Fate
<1>16. \A n \in DOMAIN s.oks : n \in 1 .. Len(oks) \/ n = Len(oks) + 1
  BY <1>10
<1>17. \A n \in DOMAIN s.oks : Fate(s, rows, wider, n)
  BY <1>14, <1>15, <1>16
<1>18. Served(s, rows)
  BY <1>6, <1>7, <1>9, <1>17 DEF Served
<1> QED
  BY <1>2, <1>18

LEMMA NextTells ==
  ASSUME ShapeFit, PlacesFit, AttemptsFit, RowsFit, AnswersFit, [Next]_vars
  PROVE  AnswersFit'
<1>0. net \in [Sender \cup Late -> Carried \cup {Null}] /\ Null # 200
  BY TelemetryAssumption DEF ShapeFit
<1>1. CASE UNCHANGED <<net, rows>>
  BY <1>1 DEF AnswersFit
<1>2. ASSUME NEW t \in Thread, Step(t) PROVE AnswersFit'
  <2>1. UNCHANGED <<net, rows>>
    BY <1>2 DEF Step, EnterTrace, NoopCall, OpenSpan, AddModelCall, LeaveSpan, Event, ExitTrace,
                Enqueue, Flush, Shut, backend
  <2> QED
    BY <1>1, <2>1
<1>3. ASSUME NEW f \in Flusher, FlushAsync(f) PROVE AnswersFit'
  BY <1>1, <1>3 DEF FlushAsync, backend
<1>4. ASSUME NEW p \in Sender, Post(p) PROVE AnswersFit'
  <2>1. CASE Send(p)
    <3>1. CASE net' = net
      BY <1>1, <2>1, <3>1, SendIs
    <3>2. CASE net' = [net EXCEPT ![p] = Request(p, todo[p][1])]
      <4>1. PICK q \in Carried : q = Request(p, todo[p][1])
        BY <2>1, SendIs, RequestShape
      <4>2. q.oks = << >> /\ q.http = Null
        BY <4>1 DEF Request
      <4>3. Served(q, rows)
        BY <1>0, <4>2 DEF Served
      <4>4. DOMAIN net' = DOMAIN net /\ \A r \in DOMAIN net : net'[r] = IF r = p THEN q ELSE net[r]
        BY <1>0, <3>2, <4>1
      <4>5. rows' = rows
        BY <2>1, SendIs
      <4> QED
        BY <4>3, <4>4, <4>5 DEF AnswersFit
    <3> QED
      BY <2>1, <3>1, <3>2, SendIs
  <2>2. CASE TimeOut(p) \/ Answered(p)
    <3>1. rows' = rows /\ DOMAIN net' = DOMAIN net
          /\ \A r \in DOMAIN net : net'[r] = Null \/ \E s \in DOMAIN net : net'[r] = net[s]
      <4>1. rows' = rows
        BY <2>2, TimeOutIs, AnsweredIs
      <4>2. CASE net' = [net EXCEPT ![p] = Null]
        BY <1>0, <4>1, <4>2
      <4>3. CASE \E l \in Late : net' = [net EXCEPT ![p] = Null, ![l] = net[p]]
        BY <1>0, <4>1, <4>3
      <4> QED
        BY <2>2, <4>2, <4>3, TimeOutIs, AnsweredIs
    <3> QED
      BY <3>1 DEF AnswersFit
  <2> QED
    BY <1>4, <2>1, <2>2 DEF Post
<1>5. ASSUME NEW r \in DOMAIN net, ServeItem(r) PROVE AnswersFit'
  <2>1. rows' = rows /\ DOMAIN net' = DOMAIN net /\ \A s \in DOMAIN net : s # r => net'[s] = net[s]
    BY <1>5, ServeItemWrites DEF Proceeds
  <2>2. Served(net'[r], rows)
    BY <1>5, ServeItemTells
  <2> QED
    BY <2>1, <2>2 DEF AnswersFit
<1>6. ASSUME NEW r \in DOMAIN net, NEW http \in {404, 500, 503}, Replies(r, http),
             UNCHANGED <<blocks, buffer, posting>>, rows' = rows
      PROVE  AnswersFit'
  <2>1. /\ DOMAIN net' = DOMAIN net /\ \A s \in DOMAIN net : s # r => net'[s] = net[s]
        /\ net'[r].http = http
    BY <1>6, RepliesProceeds DEF Proceeds
  <2>2. http \notin {Null, 200}
    BY TelemetryAssumption
  <2> QED
    BY <1>6, <2>1, <2>2 DEF AnswersFit
<1>7. ASSUME NEW r \in DOMAIN net, Replies(r, 200), Len(net[r].oks) = Len(net[r].items),
             UNCHANGED <<blocks, buffer, posting>>, rows' = rows \o net[r].new
      PROVE  AnswersFit'
  <2>1. /\ DOMAIN net' = DOMAIN net /\ \A s \in DOMAIN net : s # r => net'[s] = net[s]
        /\ net[r] # Null /\ net[r].http = Null
        /\ net'[r].http = 200 /\ net'[r].items = net[r].items /\ net'[r].tag = net[r].tag
        /\ net'[r].oks = net[r].oks /\ net'[r].new = net[r].new
    BY <1>7, RepliesProceeds DEF Proceeds
  <2>2. PICK larger : larger = rows \o net[r].new
    OBVIOUS
  <2>3. Grows(rows, net[r].new, larger)
    <3>1. PICK old \in Seq(Line) : old = rows
      BY DEF ShapeFit
    <3>2. PICK new \in Seq(Line) : new = net[r].new
      BY <2>1, Requests
    <3>3. Grows(old, new, larger)
      BY <2>2, <3>1, <3>2, Grown
    <3> QED
      BY <3>1, <3>2, <3>3
  <2>4. PICK q : q = net'[r]
    OBVIOUS
  <2>5. Served(q, larger)
    BY <1>7, <2>1, <2>2, <2>3, <2>4, CommitTells
  <2>6. ASSUME NEW s \in DOMAIN net, s # r, net[s] # Null, net[s].http \in {Null, 200}
        PROVE  Served(net[s], larger)
    BY <2>1, <2>3, <2>6, CommitTellsOthers
  <2>7. rows' = larger
    BY <1>7, <2>2
  <2> QED
    BY <2>1, <2>4, <2>5, <2>6, <2>7 DEF AnswersFit
<1>8. ASSUME NEW r \in DOMAIN net, Commit(r) PROVE AnswersFit'
  <2>1. UNCHANGED <<blocks, buffer, posting>> /\ Len(net[r].oks) = Len(net[r].items)
        /\ ((Replies(r, 200) /\ rows' = rows \o net[r].new) \/ (Replies(r, 404) /\ rows' = rows))
    BY <1>8, CommitReplies
  <2> QED
    BY <1>6, <1>7, <2>1
<1>9. ASSUME NEW r \in DOMAIN net, Fail(r) PROVE AnswersFit'
  <2>1. UNCHANGED <<blocks, buffer, posting>> /\ rows' = rows
        /\ \E http \in {500, 503} : Replies(r, http)
    BY <1>9, FailReplies
  <2> QED
    BY <1>6, <2>1
<1> QED
  BY <1>1, <1>2, <1>3, <1>4, <1>5, <1>8, <1>9 DEF Next, vars

AnswersHold == CopiesHold /\ AnswersFit

LEMMA AnswersInvariant == Spec => []AnswersHold
<1>1. Init /\ CopiesHold => AnswersHold
  BY DEF Init, AnswersFit, AnswersHold
<1>2. AnswersHold /\ CopiesHold' /\ [Next]_vars => AnswersHold'
  BY NextTells DEF AnswersHold, CopiesHold, PlacesHold, BlocksHold
<1> QED
  BY <1>1, <1>2, CopiesInvariant, PTL DEF Spec

LEMMA Answers ==
  ASSUME AnswersHold
  PROVE  AnswersTellRows
<1>1. ShapeFit /\ RowsFit /\ AnswersFit
  BY DEF AnswersHold, CopiesHold, PlacesHold, BlocksHold
<1>2. SUFFICES ASSUME NEW r, NEW q, r \in DOMAIN net, q = net[r], q # Null
      PROVE  /\ \A n \in DOMAIN q.oks : q.http # 200 \/ ~ q.oks[n] => RowsBy(r, q.items[n]) = {}
             /\ q.http = 200 =>
                  \A n \in DOMAIN q.items :
                    IF q.oks[n] THEN
                      IF q.items[n].kind \in {"start", "span", "finish"} THEN Known(rows, q.items[n])
                      ELSE Cardinality(RowsBy(r, q.items[n])) = 1
                    ELSE \/ q.items[n].id \in Rejected
                         \/ q.items[n].kind # "event"
                         \/ ~ One(TracesIn(rows, q.items[n].trace))
                         \/ ~ \E m \in 1 .. n - 1 :
                              /\ q.oks[m] /\ q.items[m].kind = "start"
                              /\ q.items[m].trace = q.items[n].trace
  BY DEF AnswersTellRows
<1>3. q = net[r]
  BY <1>2
<1>4. Recorded(q, rows) /\ (q.http = 200 => Served(q, rows))
  BY <1>1, <1>2, <1>3 DEF RowsFit, AnswersFit
<1>5. PICK oks \in Seq(BOOLEAN) : oks = q.oks
  BY <1>1, <1>2, <1>3, Requests
<1>6. PICK items \in Seq(Entry) : items = q.items
  BY <1>1, <1>2, <1>3, Requests
<1>7. Len(oks) <= Len(items)
  BY <1>1, <1>2, <1>3, <1>5, <1>6, Requests
<1>8. \A n \in DOMAIN q.oks : n \in DOMAIN q.items
  BY <1>5, <1>6, <1>7
<1>9. ASSUME NEW item
      PROVE  /\ \A m : m \in RowsBy(r, item) <=> m \in DOMAIN rows /\ Same(rows[m].item, item) /\ rows[m].by = q.tag
             /\ RowsBy(r, item) # {} <=> Bears(rows, q.tag, item)
             /\ Bears(rows, q.tag, item) => Cardinality(RowsBy(r, item)) = 1
  <2>1. \A m : m \in RowsBy(r, item) <=> m \in DOMAIN rows /\ Same(rows[m].item, item) /\ rows[m].by = q.tag
    BY <1>3 DEF RowsBy, Rows, Same
  <2>2. RowsBy(r, item) # {} <=> Bears(rows, q.tag, item)
    BY <2>1 DEF Bears
  <2>3. ASSUME NEW a \in RowsBy(r, item), NEW b \in RowsBy(r, item) PROVE a = b
    <3>1. /\ a \in DOMAIN rows /\ b \in DOMAIN rows /\ rows[a].by = rows[b].by
          /\ Same(rows[a].item, item) /\ Same(rows[b].item, item)
      BY <2>1
    <3>2. Same(rows[a].item, rows[b].item)
      BY <3>1 DEF Same
    <3> QED
      BY <1>1, <3>1, <3>2 DEF RowsFit
  <2> QED
    BY <2>1, <2>2, <2>3, AtMostOne
<1>10. ASSUME NEW n \in DOMAIN q.oks, q.http # 200 \/ ~ q.oks[n]
       PROVE  RowsBy(r, q.items[n]) = {}
  <2>1. CASE q.http # 200
    <3>1. ASSUME NEW m \in RowsBy(r, q.items[n]) PROVE FALSE
      <4>1. m \in DOMAIN rows /\ Same(rows[m].item, q.items[n]) /\ rows[m].by = q.tag
        BY <1>9
      <4>2. Has(q.items, rows[m].item)
        BY <1>8, <4>1, SameSym DEF Has
      <4> QED
        BY <1>4, <2>1, <4>1, <4>2 DEF Recorded
    <3> QED
      BY <3>1
  <2>2. CASE q.http = 200 /\ ~ q.oks[n]
    BY <1>4, <1>9, <2>2 DEF Served, Fate
  <2> QED
    BY <1>10, <2>1, <2>2
<1>11. ASSUME q.http = 200, NEW n \in DOMAIN q.items PROVE Fate(q, rows, rows, n) /\ q.oks[n] \in BOOLEAN
  <2>1. n \in DOMAIN q.oks
    <3>1. Len(oks) = Len(items)
      BY <1>4, <1>5, <1>6, <1>11 DEF Served
    <3> QED
      BY <1>5, <1>6, <3>1
  <2> QED
    BY <1>4, <1>5, <1>11, <2>1 DEF Served
<1>12. ASSUME q.http = 200, NEW n \in DOMAIN q.items, q.oks[n]
       PROVE  IF q.items[n].kind \in {"start", "span", "finish"} THEN Known(rows, q.items[n])
              ELSE Cardinality(RowsBy(r, q.items[n])) = 1
  BY <1>9, <1>11, <1>12 DEF Fate, Creates
<1>13. ASSUME NEW trace, Twice(rows, trace) PROVE ~ One(TracesIn(rows, trace))
  <2> DEFINE S == TracesIn(rows, trace)
  <2>1. PICK i \in S : \E j \in S : i # j
    BY <1>13 DEF Twice
  <2>2. S \in SUBSET (1 .. Len(rows)) /\ Len(rows) \in Nat
    BY <1>1 DEF TracesIn, ShapeFit
  <2> HIDE DEF S
  <2>3. IsFiniteSet(S)
    <3>1. PICK k \in Nat : k = Len(rows)
      BY <2>2
    <3>2. IsFiniteSet(1 .. k)
      BY FS_Interval
    <3>3. S \in SUBSET (1 .. k)
      BY <2>2, <3>1
    <3> QED
      BY <3>2, <3>3, FS_Subset
  <2>4. Cardinality(S) # 1
    BY <2>1, <2>3, FS_Singleton
  <2> QED
    BY <2>4 DEF One, S
<1>14. ASSUME q.http = 200, NEW n \in DOMAIN q.items, ~ q.oks[n]
       PROVE  \/ q.items[n].id \in Rejected
              \/ q.items[n].kind # "event"
              \/ ~ One(TracesIn(rows, q.items[n].trace))
              \/ ~ \E m \in 1 .. n - 1 :
                   /\ q.oks[m] /\ q.items[m].kind = "start" /\ q.items[m].trace = q.items[n].trace
  BY <1>11, <1>13, <1>14 DEF Fate
<1>15. \A n \in DOMAIN q.oks : q.http # 200 \/ ~ q.oks[n] => RowsBy(r, q.items[n]) = {}
  BY <1>10
<1>16. q.http = 200 =>
         \A n \in DOMAIN q.items :
           IF q.oks[n] THEN
             IF q.items[n].kind \in {"start", "span", "finish"} THEN Known(rows, q.items[n])
             ELSE Cardinality(RowsBy(r, q.items[n])) = 1
           ELSE \/ q.items[n].id \in Rejected
                \/ q.items[n].kind # "event"
                \/ ~ One(TracesIn(rows, q.items[n].trace))
                \/ ~ \E m \in 1 .. n - 1 :
                     /\ q.oks[m] /\ q.items[m].kind = "start" /\ q.items[m].trace = q.items[n].trace
  BY <1>12, <1>14
<1> QED
  BY <1>15, <1>16

(* What an endpoint answers is what it did: a batch reports an item as ok  *)
(* only if it is in the database, as failed only if it left nothing there, *)
(* and an answer other than success left nothing at all.                   *)
THEOREM AnswersAreTrue == Spec => []AnswersTellRows
BY AnswersInvariant, Answers, PTL

=============================================================================
