\* Joins run to their end, publications and thread starts succeed.
SPECIFICATION Spec
CONSTANTS
  MaxGenerate = 2
  QueueLimit = 1
  JoinMayTimeOut = FALSE
  PublishMayFail = FALSE
  StartMayFail = FALSE
INVARIANT StopQuiesces
INVARIANT OKMeansStarted
PROPERTY ClientCallReturns
PROPERTY GenerateReported
