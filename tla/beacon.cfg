\* Two callers, two epochs, up to three witnesses of two or three.
CONSTANTS
  c1 = c1
  c2 = c2
  w1 = w1
  w2 = w2
  w3 = w3
  Caller = {c1, c2}
  Witness = {w1, w2, w3}
  Lists <- MCLists
  Required = {1, 3}
  Claim <- MCClaim
  Hash <- MCHash
  HashWords = 2
  TrustedList <- MCTrusted
  MaxEpoch = 2
  None = None
SPECIFICATION Spec
INVARIANTS
  SelectionIsComplete
  OneFetchPerEpoch
  StateIsOfEpoch
  SameClaimSameWitnesses
CHECK_DEADLOCK FALSE
