SPECIFICATION MCSpec
CONSTANTS
  Users = {u1}
  Providers = {p1, p2, p3}
  NonRefreshing = {p2, p3}
  Clients = {c1}
  refresher = refresher
  MaxTokensPerUser = 2
  MaxGen = 3
INVARIANTS
  TypeOK
  StoredIsTracked
  LimitRespected
  CachedIsUsable
PROPERTY DueIsReplaced
