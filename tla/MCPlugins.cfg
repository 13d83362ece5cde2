SPECIFICATION AttentiveSpec
CONSTANTS
  pa = pa  pb = pb  c1 = c1  c2 = c2  c3 = c3  c4 = c4
  tool = tool  grep = grep  hookA = hookA  hookB = hookB  cmd = cmd
  None = None  Host = Host
  Plugins = {pa, pb}
  Configured = {pa, pb}
  MayDeclare <- Scripts
  Builtins <- HostTools
  Calls = {c1, c2, c3, c4}
  CallOf <- Handlers
  AsyncCap = 1
INVARIANTS
  HostMatchesPlugins
PROPERTIES
  CallsReturn
  CloseCompletes
CHECK_DEADLOCK FALSE
