\* A secret in the body: the witness does not have its value.
CONSTANTS
  Requests <- MCRequests
  Answers <- MCAnswers
  None = None
SPECIFICATION Spec
INVARIANTS HonestSecretBodyIsAccepted
CHECK_DEADLOCK FALSE
