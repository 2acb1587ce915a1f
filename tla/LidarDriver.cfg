SPECIFICATION FairSpec
CONSTANTS
  Timeout = 1
  MaxScans <- MCMaxScans
  MaxRevs = 1
CHECK_DEADLOCK FALSE
INVARIANTS TypeOK JoinedBeforeDelete CrashConfined
PROPERTIES ImplementsScanMailbox TimeoutMeansSilence NewestIsPublished ShutdownEnds
