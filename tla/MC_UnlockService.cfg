SPECIFICATION ServiceSpec
CONSTANTS
  a1 = a1
  a2 = a2
  t1 = t1
  t2 = t2
  Approvers = {a1, a2}
  Threshold = 2
  TokenIds = {t1, t2}
  TokenOf <- MCTokenOf
  Scopes = {"worm_unlock_vote", "other"}
  Nonces = {1, 2, 3, 4}
  NoNonce = 0
INVARIANTS ServiceTypeOK PendingIsFresh
PROPERTIES VoteIsFresh LiftOnlyByQuorum
