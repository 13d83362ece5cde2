SPECIFICATION AttentiveSpec
CONSTANTS
  a1 = a1  a2 = a2  a3 = a3  f1 = f1  f2 = f2  secret = secret
  inside = inside  network = network
  Asks = {a1, a2, a3}
  Targets = {f1, f2, secret, inside, network}
  Target <- TargetOf
  Promotions <- Directory
  HardDenied = {secret}
  Default <- ThreeWays
  UIBuffer = 1
  ReplyBuffer = 2
  MaxInFlight = 2
  DiskFails = TRUE
  MaxRestarts = 1
INVARIANTS
  OwnReplyDecides
  AllowedForACause
  CoveredIsNotAsked
PROPERTY AskIsAnswered
CHECK_DEADLOCK FALSE
