SPECIFICATION GraniteSpec
CONSTANTS
  Callers = {c1}
  Answers = {"unreachable", "slow_to_take", "slow_to_answer", "too_long", "error", "void", "garbage", "good"}
  MaxCalls = 1
INVARIANT GoodAnswerIsUsed
