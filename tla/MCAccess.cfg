SPECIFICATION Spec
CONSTANTS
  olga = olga
  otto = otto
  ada = ada
  ivo = ivo
  kept = kept
  stale = stale
  h1 = h1
  h2 = h2
  h3 = h3
  h4 = h4
  User = {olga, otto, ada, ivo}
  Active = {olga, otto, ada}
  StoredMembers <- MCMembers
  StoredSessions <- MCSessions
  MaxAttempts = 2
  Handler = {h1, h2, h3}
  Requests <- MCRequests
  Null = Null
SYMMETRY Interchangeable
INVARIANTS MembersAreSound AuditTellsRole LockoutFollowsFailures LogoutEndsSession
PROPERTIES OwnersElevate
CHECK_DEADLOCK FALSE
