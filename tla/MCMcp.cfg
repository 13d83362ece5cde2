SPECIFICATION FairSpec
CONSTANTS
  hello = hello  c1 = c1  c2 = c2
  Calls = {hello, c1, c2}
  Hello = hello
  Streamed = {c1}
  Transports = {"sse", "http", "stdio"}
  BadFrames = FALSE
  InboundCap = 1
  MaxReconnects = 1
INVARIANTS
  OneOwnerPerReply
  WaiterHasAWaker
PROPERTIES
  ImplementsRpc
  CloseStopsReader
  CallsReturn
CHECK_DEADLOCK FALSE
