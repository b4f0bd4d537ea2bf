\* Nothing fails: the order of one Stop and one Generate decides.
SPECIFICATION Safe
CONSTANTS
  MaxGenerate = 2
  QueueLimit = 1
  JoinMayTimeOut = FALSE
  PublishMayFail = FALSE
  StartMayFail = FALSE
PROPERTY StopCoversQueuedGenerate
