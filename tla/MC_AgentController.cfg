SPECIFICATION AgentSpec
CONSTANTS
  Workers = {w1, w2}
  Agents = {a1, a2}
  Priorities = {0, 1}
  NoTask = none
  Free = free
  MaxTasks = 3
INVARIANTS AgentTypeOK EachTaskOnce RunningMeansBusy StoppedMeansIdle
PROPERTIES KeepsPoolPromise TaskServed
