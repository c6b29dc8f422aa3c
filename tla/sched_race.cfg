SPECIFICATION FairScheduledSpec
CONSTANTS
  a1 = a1  l1 = l1  l2 = l2  api = api  env1 = env1  env2 = env2
  r1 = r1  r2 = r2  r3 = r3  r4 = r4  human = human  system = system
  jan = jan  feb = feb  t1 = t1  t2 = t2  e1 = e1  e2 = e2
  None = None  Torn = Torn
  Workers = {l1, l2}
  Hosts = {api, env1, env2}
  HostOf <- MCHostOf
  Ephemeral = {env1, env2}
  ApiHost = api
  RunIds = {r1, r2}
  Users = {human, system}
  Periods = {jan, feb}
  Txns = {t1}
  PeriodOf <- MCPeriodOf
  Batches <- MCBatches
  Faults = {}
  Lambdas = {l1, l2}
  Service = system
  Events = {e1, e2}
  EventPeriod <- MCEventPeriod
  MaxAttempts = 1
  MaxDuplicates = 0
  Concurrency = 2
PROPERTY EveryEventIsAnswered
CHECK_DEADLOCK FALSE
