SPECIFICATION Spec
CONSTANTS
  app = app
  cli = cli
  read = read
  Handlers = {h1, h2}
  Clients = {app, cli}
  Scopes = {read}
  allowed_scopes <- MCallowed_scopes
  refreshing = {app}
  CodeTtl = 1
  TokenTtl = 2
  MaxTime = 2
  MaxCodes = 1
  MaxTokens = 2
SYMMETRY HandlerSymmetry
INVARIANTS TypeOK OneLiveTokenPerFamily 
PROPERTIES  ReplayIsDetected
CHECK_DEADLOCK FALSE
