SPECIFICATION FairSpec
CONSTANTS
  NoSub = NoSub  p1 = p1  s1 = s1  s2 = s2  t1 = t1  c1 = c1
  Types = {t1}
  Subs = {s1, s2}
  TypeOf <- OneType
  Publishers = {p1}
  Closers = {c1}
  BufferSize = 2
  MaxPublish = 3
INVARIANTS
  NoPanic
  NoStrandedSubscriber
  PublisherOrder
PROPERTIES
  PublishReturns
  CloseReachesEveryone
CHECK_DEADLOCK FALSE
