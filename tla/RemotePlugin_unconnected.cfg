SPECIFICATION FairSpec
CONSTANTS
  Senders = {s1}
  MaxMessages = 1
  MaxConnections = 1
  MaxReplies = 1
PROPERTY DeinitializeCompletes
CHECK_DEADLOCK FALSE
