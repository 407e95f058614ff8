SPECIFICATION FairSpec
CONSTANTS
  Workers = {"w1", "w2", "w3"}
  Tasks = {1, 2, 3, 4}
  MaxAttempts = 2
  FailTimes <- MCFailTimes
  MaxDeaths = 2
  Writers = {"t1", "t2", "t3", "t4"}
  MaxRuns = 4
  Connections = {1, 2}
  MaxBreaks = 3
INVARIANTS SettledOnce LastOneOut EveryTopUpCounts OneKnownConnection
PROPERTIES PublisherRecovers
CHECK_DEADLOCK FALSE
