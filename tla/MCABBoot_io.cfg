SPECIFICATION OtaSpec
CONSTANTS
  SLOT_PRIORITY_DEFAULT = 15
  SLOT_RETRY_COUNT_DEFAULT = 2
  InitialSmds <- AllSmds
  Restored <- RestoredPair
  IoErrors = TRUE
  MaxFaults = 1
  NoSmd = NoSmd
  Corrupt = Corrupt
INVARIANT OneFaultTolerated
