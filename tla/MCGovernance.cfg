SPECIFICATION Spec
CONSTANTS
  ours = ours
  theirs = theirs
  m1 = m1
  mail = mail
  handle = handle
  t1 = t1
  t2 = t2
  h1 = h1
  h2 = h2
  h3 = h3
  Handler = {h1, h2, h3}
  Requests <- MCRequests
  Workloads <- MCWorkloads
  Organizations = {ours, theirs}
  Organization = ours
  Name <- MCName
  StoredCatalog <- MCCatalog
  Model = {m1}
  StoredPricing <- MCPricing
  StoredDatasets <- MCDatasets
  StoredCases <- MCCases
  Configured = {"mock", "openai"}
  Answers <- MCAnswers
  TraceId = {t1, t2}
  Subject = {mail, handle}
  PlainSubject = {mail}
  StoredTraces <- MCTraces
  StoredPolicy <- MCPolicy
  StoredKeys <- MCKeys
  Null = Null
SYMMETRY Interchangeable
INVARIANTS TracesStayInScope AgentsTellTheirHistory WindowsStayApart RunsTellResults ComparisonsAgree
PROPERTIES RevokedKeysAreDead RecordsGoInTime
CHECK_DEADLOCK FALSE
