\* One InfiniBand and one CudaIpc connection, no stop.
SPECIFICATION Spec
CONSTANTS
  t1 = t1  t2 = t2  c1 = c1  c2 = c2  s1 = s1  s2 = s2  q1 = q1  q2 = q2
  Threads = {t1, t2}
  Conns = {c1, c2}
  Ib = {c1}
  Queues = {q1, q2}
  QueueOf <- OwnQueues
  Sems = {s1, s2}
  SemConn <- TwoConnections
  Types <- AllTypes
  MaxWriteQueueSize <- IbLimit
  StopCheckPeriod = 0
  DrainTries = 1
  MaxPush = 4
  MaxStop = 0
SYMMETRY ThreadSymmetry
INVARIANTS DataBeforeSignal FlushMeansDrained
