SPECIFICATION GraniteSpec
CONSTANTS
  Callers = {c1, c2}
  Answers = {"unreachable", "slow_to_answer", "good"}
  MaxCalls = 3
INVARIANTS GraniteTypeOK CallsAreCounted
PROPERTIES UsedIsPingedNoMore KeepAliveStops
