SPECIFICATION ScheduleSpec
CONSTANTS
  b1 = b1  b2 = b2  s1 = s1  s2 = s2  rule1 = rule1  rule2 = rule2
  artifacts_bucket = artifacts_bucket
  cron = cron  rate = rate
  None = None  Absent = Absent
  LastTick = 23
  FireTick = 3
  Builds = {b1, b2}
  Settings = {s1, s2}
  Buckets = {artifacts_bucket}
  Rules = {rule1, rule2}
  Schedules = {cron, rate}
  Monthly = cron
  Configs <- MCConfigs
  MaxRuns = 2
  Clock <- MCClock
  Manual <- MCManual
  MaxSent = 1
  MaxAttempts = 2
  MaxAge = 6
  Timestamps <- MCTimestamps
INVARIANTS ScheduleTypeOK TargetsAreReachable CompleteRunsConverge
  MonthThatJustEnded NoInstantIsReportedTwice NoInstantIsSkipped
CHECK_DEADLOCK FALSE
