SPECIFICATION ProtectionSpec
CONSTANTS
  Threads = {r1, r2}
  Scores = {10, 45, 60, 90}
  FailureCounts = {4, 5, 9, 10}
  Feeders = {r1, r2}
  WindowSize = 2
  MinSamples = 2
  MaxPushes = 4
  Rotation <- TwoAgents
  Loaded = {"threat_hunter", "siem_analyst", "incident_responder", "forensics_investigator"}
  SignalScores = {45, 90}
  EventScores = {45}
  RingSize = 2
  BatchSize = 2
  LevelsNotified = {"CRITICAL"}
  MaxSignals = 3
  Roots = {d1}
  Channels = {c1}
  Conns = {k1, k2}
  Configs <- ShortAndLong
  NoConfig = NoConfig
PROPERTIES RotationIsFair ShutdownEnds
INVARIANTS ProtectionTypeOK CriticalOpenOnlyIfLifted SustainedOnDistinctSamples SignalsOnceInOrder NobodyRunsAtTheEnd ConfigIsFromTheLastBurst
CHECK_DEADLOCK FALSE
