SPECIFICATION FaultlessSpec
CONSTANTS
  t1 = t1
  s1 = s1
  r1 = r1
  run1 = run1
  Tool <- MCTool
  BlankTool = ""
  NoPolicy = NoPolicy
  NoTarget = NoTarget
  Malformed = Malformed
  Unlimited = Unlimited
  Trace <- MCTrace
  Span <- MCSpan
  SpanTrace <- MCSpanTrace
  Target <- MCTarget
  Context = {}
  Sensitive = {}
  Masked = Masked
  PolicyChoice <- MCPolicyChoice
  RequestId = {r1}
  Reviewer = {ann}
  Handler <- MCHandler
  Requests <- MCRequests
  ModelCall = {}
  MaxModelCalls = 0
  Null = Null
  Run = {run1}
  Rid <- MCRid
  Body <- MCBody
  MaxRetries = 2
  Slot = 4
INVARIANTS ApprovedExecutionIsAudited
