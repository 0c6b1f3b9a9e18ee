SPECIFICATION StoreSpec
CONSTANTS
  old = old
  new = new
  Writers = {w1, w2}
  Paths = {old, new}
  Populated = {old}
  Records = {r1}
  DecoyFiles <- MCDecoyFiles
  Nobody = nobody
  MaxCalls = 3
INVARIANTS StoreTypeOK LateWritesBounded PoisonedIsPlanted
PROPERTIES SealedStaysAsIs LockdownSettles
