SPECIFICATION FairSpec
CONSTANTS
  Threads = {t1, t2}
  ImmRange = 3
  MaxRecvWr = 2
  MaxSignal = 7
  Chosen = {"signals", "ethernet", "limit", "async", "again", "full", "ranks", "spurious", "half",
            "pair", "three", "second", "hosts", "fabric"}
INVARIANTS
  TokenExact ConsumedDataLanded StreamDelivered
  FlushMeansLanded SignalsCounted 
  AcceptsRanks ImportedIsExported ImportsSucceed
PROPERTY TransportCallsEnd
CHECK_DEADLOCK FALSE
