SPECIFICATION Spec
CONSTANTS
  t1 = t1
  s1 = s1
  s2 = s2
  r1 = r1
  h1 = h1
  h2 = h2
  h3 = h3
  ann = ann
  Tool <- MCTool
  BlankTool = ""
  NoPolicy = NoPolicy
  NoTarget = NoTarget
  Malformed = Malformed
  Unlimited = Unlimited
  Trace <- MCTrace
  Span <- MCSpan
  SpanTrace <- MCSpanTrace
  Target <- MCTarget
  Context <- MCContext
  Sensitive <- MCContext
  Masked = Masked
  PolicyChoice <- MCPolicyChoice
  RequestId = {r1}
  Reviewer = {ann}
  Handler = {h1, h2, h3}
  Requests <- MCRequests
  ModelCall <- MCModelCall
  MaxModelCalls = 1
  Null = Null
SYMMETRY Interchangeable
INVARIANTS TypeOK ConsumedOnce CallProvenance AuditTellsState GrantsAreApproved AcceptedIsRecorded
PROPERTIES DecisionsFinal ImplementsOneTimeGrant
