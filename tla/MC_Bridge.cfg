SPECIFICATION BridgeSpec
CONSTANTS
  a1 = a1
  a2 = a2
  t1 = t1
  t2 = t2
  Approvers = {a1, a2}
  Threshold = 2
  TokenIds = {t1, t2}
  TokenOf <- MCTokenOf
  Scopes = {"worm_unlock_vote"}
  Nonces = {1, 2, 3}
  NoNonce = 0
  NoBallot = none
  Stdin = stdin
  Threads = {stdin, sensor}
  Scores = {10, 45, 60, 90}
INVARIANTS BridgeTypeOK SessionMeansLocked CriticalOpenOnlyByQuorum SessionSealsStore
PROPERTIES OrphanedIsForever LiftsByQuorumOnly
