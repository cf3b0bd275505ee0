\* Requests with and without secrets in the body, in both modes and versions.
CONSTANTS
  Requests <- MCRequests
  Answers <- MCAnswers
  None = None
SPECIFICATION Spec
INVARIANTS
  HiddenKeysStaySecret
  SecretsStaySecret
  WitnessSeesRequest
  HonestClaimIsAccepted
  ClaimedBodyWasSent
  MatchesAsDocumented
CHECK_DEADLOCK FALSE
