SPECIFICATION FairSpec
CONSTANTS
  t1 = t1
  f1 = f1
  ann = ann
  bob = bob
  p1 = p1
  p2 = p2
  a1 = a1
  EventType = {"finding", "finished"}
  Finding = "finding"
  Finished = "finished"
  Metric = {"severity", "status", "risk"}
  EventMetrics <- MCEventMetrics
  Value = {"low", "high", "error", "success"}
  Project = {p1, p2}
  Agent = {a1}
  AgentProject <- MCAgentProject
  Source = {t1, f1}
  User = {ann, bob}
  StoredRules <- MCRules
  Unset = Unset
  Handler <- MCHandler
  MaxRequests = 3
  Requests <- MCRequests
  Null = Null
INVARIANTS LogTellsIncident RulesStayValid
PROPERTIES MatchesAreRaised IncidentsMoveOn EveryRequestIsAnswered
CHECK_DEADLOCK FALSE
