SPECIFICATION OtaSpec
CONSTANTS
  SLOT_PRIORITY_DEFAULT = 15
  SLOT_RETRY_COUNT_DEFAULT = 3
  InitialSmds <- AllSmds
  Restored <- RestoredPair
  IoErrors = FALSE
  MaxFaults = 3
  NoSmd = NoSmd
  Corrupt = Corrupt
INVARIANTS NoHang RetryInRange OtaBounded NextBootKeepsSlot
PROPERTY ExhaustedStaysExhausted
