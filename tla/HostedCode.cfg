SPECIFICATION HostedSpec
CONSTANTS
  Senders = {s1}
  MaxMessages = 2
  MaxConnections = 2
  MaxReplies = 1
  Plugins = {p1, p2}
  RustThreads = {r1, r2}
  MaxSent = 3
  Applications = {a1, a2}
  MaxJsCalls = 3
INVARIANTS StreamsSound MessagesGoHome
PROPERTIES DeinitializeReturns ReaderEnds RenderThreadEnds
CHECK_DEADLOCK FALSE
