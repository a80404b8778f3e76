SPECIFICATION FairSpec
CONSTANTS
  NoLogin = NoLogin
  Logins = {l1}
  Handlers = {h1}
  StateTimeout = 1
  StoreTtl = 1
  MaxTokens = 1
PROPERTY CallsEnd
