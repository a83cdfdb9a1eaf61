\* One InfiniBand connection; the proxy is stopped and restarted.
SPECIFICATION FairSpec
CONSTANTS
  t1 = t1  t2 = t2  c1 = c1  c2 = c2  s1 = s1  s2 = s2  q1 = q1  q2 = q2
  Threads = {t1, t2}
  Conns = {c1}
  Ib = {c1}
  Queues = {q1}
  QueueOf <- OneConnection
  Sems = {s1}
  SemConn <- OneSemaphore
  Types <- PutAndFlush
  MaxWriteQueueSize <- IbLimit
  StopCheckPeriod = 1
  DrainTries = 1
  MaxPush = 3
  MaxStop = 1
PROPERTIES FlushCompletes StopReturns
