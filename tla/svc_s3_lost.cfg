SPECIFICATION Spec
CONSTANTS
  a1 = a1  a2 = a2  l1 = l1  api = api  env = env
  r1 = r1  r2 = r2  r3 = r3  human = human  jan = jan  feb = feb
  t1 = t1  t2 = t2  t3 = t3
  None = None  Torn = Torn
  Workers = {a1, l1}
  Hosts = {api, env}
  HostOf <- MCHostOf
  Ephemeral = {env}
  ApiHost = api
  RunIds = {r1}
  Users = {human}
  Periods = {jan}
  Txns = {t1, t2}
  PeriodOf <- MCPeriodOf
  Batches <- MCBatches
  Faults = {"s3"}
INVARIANT Downloadable
CHECK_DEADLOCK FALSE
