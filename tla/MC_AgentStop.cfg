SPECIFICATION AgentSpec
CONSTANTS
  Workers = {w1, w2}
  Agents = {a1, a2}
  Priorities = {0, 1}
  NoTask = none
  Free = free
  MaxTasks = 1
PROPERTY StopReturns
