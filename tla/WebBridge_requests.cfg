SPECIFICATION FairSpec
CONSTANTS
  c1 = c1
  c2 = c2
  Workers = {w1, w2}
  Requests <- Made
  Listeners = {c1}
  Designators <- Calls
  Offered <- Methods
  TimeOut = 1
  MaxTime = 2
  MaxAttaches = 1
  MaxEvents = 1
INVARIANTS OneAnswerEach AnswersAreOwn
PROPERTY RequestsAnswered
CHECK_DEADLOCK FALSE
