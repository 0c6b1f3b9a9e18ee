SPECIFICATION RuleServiceSpec
CONSTANTS
  Threads = {r1, r2}
  Scores = {10, 45, 60, 90}
  FailureCounts = {4, 5, 9, 10}
PROPERTY ChaosOnlyEscalates
