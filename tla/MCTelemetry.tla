----------------------------- MODULE MCTelemetry -----------------------------
(* Four programs: a trace with nested spans, and one that ends in an          *)
(* exception; a thread that fills the queue while another closes the       *)
(* client; and two threads that share the telemetry of one trace.          *)
EXTENDS Telemetry, TLC

CONSTANTS main, worker, f1, f2, late1, tA, tB, s1, s2, s3

In(op, trace, span) == [op |-> op, trace |-> trace, span |-> span]

Put(kind, trace, span) == [op |-> "enqueue", kind |-> kind, trace |-> trace, span |-> span]

Exit(trace, ok) == [op |-> "exit", trace |-> trace, ok |-> ok]

Spans ==
  << In("trace", tA, Null), In("span", tA, s1), In("span", tA, s2), In("model", tA, s2),
     In("leave", tA, s2), In("span", tA, s3), Exit(tA, TRUE) >>

Raises == << In("trace", tA, Null), In("event", tA, Null), Exit(tA, FALSE) >>

Close == << [op |-> "flush"], [op |-> "shut"] >>

MCScripts ==
  { main :> Spans @@ worker :> << >>,
    main :> Raises @@ worker :> << >>,
    main :> Close @@ worker :> << Put("start", tB, Null), Put("event", tB, Null),
                                  Put("event", tB, Null), Put("finish", tB, Null) >>,
    main :> << Put("start", tB, Null), [op |-> "flush"] >>
      @@ worker :> << Put("event", tB, Null), Put("finish", tB, Null) >> }

MCRejected == {<<worker, 3>>}
=============================================================================
