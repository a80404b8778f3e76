SPECIFICATION Spec
CONSTANTS
  Requests = {r1, r2}
  probe = probe
  Procs = {r1, r2, probe}
  Keys = {"ann", "health_check"}
  probeKey = "health_check"
  Cells = {c1, c2, c3}
  NoCell = none
  Rate = 2
  BurstSize = 2
  MaxEntries = 1
  Kinds = {"bucket", "window"}
  Inputs <- MCInputs
  TrustedProxies = {"10.0.0.7"}
  AllowedOrigins = {"*.example"}
  WildcardMatches <- MCWildcardMatches
INVARIANTS
  LimiterTypeOK
  GrantsWithinLimits
  RefusedNeverServed
  LogTellsAllButTheRace
  ProbeLeavesNoTrace
PROPERTY RequestsEnd
