SPECIFICATION Spec
CONSTANTS
  ISMT_DESC_ENTRIES = 3
  Transfers = 3
INVARIANTS CompletedBeforeProcessed
