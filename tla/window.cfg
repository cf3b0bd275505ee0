\* A claim of the page, with a message of another kind.
CONSTANTS
  k1 = k1
  r1 = r1
  Call = {k1}
  Request = {k1, r1}
  MaxRetries = 2
  MaxClients = 2
  None = None
  Messages <- MCMessages
  Chunks = 2
  ZkConcurrency = 1
  AnswerTypes = {"zkProveDone", "error", "other"}
SPECIFICATION FairWindowSpec
INVARIANTS
  ProofsAreOfTheAttempt
PROPERTIES
  RequestsAreAnswered
CHECK_DEADLOCK FALSE
