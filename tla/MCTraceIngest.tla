--------------------------- MODULE MCTraceIngest ---------------------------
(* Two traces that use the same external span ids.  The first is running   *)
(* already and has one span, the second may be started.                    *)
EXTENDS TraceIngest, TLC

CONSTANTS tA, tB, s1, s2, s3, low, high, h1, h2, h3, h4

MCSeverity == [m \in {low, high} |-> IF m = high THEN 4 ELSE 1]

MCPolicy == [maxTokens |-> 5, maxCost |-> 3]

MCTraces ==
  <<[ext |-> tA, status |-> "RUNNING", risk |-> 0, totals |-> NoUsage]>>

MCSpans == <<[ext |-> s1, trace |-> 1, parent |-> Null, status |-> "RUNNING"]>>

Finish(t, status, risk, hits) ==
  [op |-> "finish", trace |-> t, hits |-> hits, status |-> status, risk |-> risk]

Span(t, s, p, hits, status) ==
  [op |-> "span", trace |-> t, hits |-> hits, span |-> s, parent |-> p, status |-> status]

Model(s, tokens, cost, priced) ==
  [op |-> "model", span |-> s, call |-> [tokens |-> tokens, cost |-> cost, priced |-> priced]]

MCRequests ==
  { [op |-> "start", trace |-> tB, hits |-> {low}],
    Finish(tA, "SUCCESS", 1, {}), Finish(tA, "ERROR", 0, {high}),
    Span(tB, s2, s1, {}, "RUNNING"), Span(tA, s2, s1, {high}, "RUNNING"), Span(tA, s3, s2, {}, "SUCCESS"),
    [op |-> "update", span |-> s1, hits |-> {low}, status |-> "ERROR"],
    [op |-> "update", span |-> s2, hits |-> {}, status |-> Null],
    Model(s1, 6, 4, TRUE), Model(s2, 1, 1, FALSE),
    [op |-> "event", trace |-> tA, hits |-> {high}, span |-> Null],
    [op |-> "event", trace |-> tA, hits |-> {low}, span |-> s1] }

Interchangeable == Permutations(Handler)
=============================================================================
