SPECIFICATION Spec
CONSTANTS
  tA = tA
  tB = tB
  s1 = s1
  s2 = s2
  s3 = s3
  low = low
  high = high
  h1 = h1
  h2 = h2
  h3 = h3
  h4 = h4
  Tool = {}
  BlankTool = BlankTool
  NoPolicy = NoPolicy
  NoTarget = NoTarget
  Malformed = Malformed
  Unlimited = Unlimited
  TraceId = {tA, tB}
  SpanId = {s1, s2, s3}
  Match = {low, high}
  MatchSeverity <- MCSeverity
  AgentPolicy <- MCPolicy
  Handler = {h1, h2, h3, h4}
  Requests <- MCRequests
  StoredTraces <- MCTraces
  StoredSpans <- MCSpans
  Null = Null
SYMMETRY Interchangeable
INVARIANTS SpanForest TotalsAreASnapshot RetriesStoreOnce RiskCoversFindings LimitsAreNoticed
PROPERTIES FinishIsFinal
CHECK_DEADLOCK FALSE
