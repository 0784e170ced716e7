SPECIFICATION EndpointSpec
CONSTANTS
  Threads = {t1, t2}
  Requests = {r1, r2}
  MaxIds = 2
  MaxSends = 2
  MaxRepeats = 1
  MaxConnects = 2
  Callers = {c1, c2}
  MaxCommands = 4
INVARIANTS TypeOK PromisesHaveCalls AnswersAreOwn EventLoopSurvives OwnResponse
PROPERTIES SilentPeerNoticed DestructorReturns
CHECK_DEADLOCK FALSE
