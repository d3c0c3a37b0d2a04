SPECIFICATION Spec
CONSTANTS
  main = main
  worker = worker
  f1 = f1
  f2 = f2
  tA = tA
  tB = tB
  s1 = s1
  s2 = s2
  s3 = s3
  Thread = {main, worker}
  Flusher = {f1, f2}
  TraceId = {tA, tB}
  SpanId = {s1, s2, s3}
  Scripts <- MCScripts
  Sampling = {TRUE, FALSE}
  QueueMax = 3
  FlushThreshold = 3
  BatchMax = 2
  MaxRetries = 2
  Late = {late1}
  late1 = late1
  Rejected <- MCRejected
  Null = Null
INVARIANTS ItemsHaveOnePlace AnswersTellRows CopiesAreRetries ParentsEnclose
PROPERTIES EverythingSettles
CHECK_DEADLOCK FALSE
