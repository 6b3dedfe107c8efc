SPECIFICATION FairSpec
CONSTANTS
  SLOT_PRIORITY_DEFAULT = 15
  SLOT_RETRY_COUNT_DEFAULT = 3
  InitialSmds <- UserSmds
  Restored <- RestoredPair
  IoErrors = FALSE
  MaxFaults = 2
  NoSmd = NoSmd
  Corrupt = Corrupt
 
PROPERTY Failover
