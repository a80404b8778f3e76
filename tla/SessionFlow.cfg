SPECIFICATION FairSpec
CONSTANTS
  StateIds = {s1, s2}
  Handlers = {h1, h2}
  Providers = {p1, p2}
  NoHandler = NoHandler
  NoProvider = NoProvider
  SessionTimeout = 1
  StoreTtl = 1
INVARIANT TypeOK
INVARIANT NoReplay
INVARIANT NoProviderMixUp
PROPERTY ImplementsTicket
PROPERTY AbandonedLoginsGo
