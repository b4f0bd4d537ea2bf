\* Everything that can fail does: two requests, joins that time out,
\* publications and thread starts that raise.
SPECIFICATION Safe
CONSTANTS
  MaxGenerate = 2
  QueueLimit = 2
  JoinMayTimeOut = TRUE
  PublishMayFail = TRUE
  StartMayFail = TRUE
INVARIANT TypeOK
INVARIANT OneTrackThread
INVARIANT LaterTablesUseOwnProjection
INVARIANT FailureIsVisible
PROPERTY ImplementsSession
