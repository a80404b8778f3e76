SPECIFICATION MCSpec
CONSTANTS
  NoLogin = NoLogin
  Logins = {l1}
  Handlers = {h1, h2, h3}
  StateTimeout = 1
  StoreTtl = 1
  MaxTokens = 3
  MaxEmails = 2
SYMMETRY HandlerSymmetry
INVARIANTS GenuineLoginNotRefused RefreshTokenStaysGood VerifiedIsVerified
