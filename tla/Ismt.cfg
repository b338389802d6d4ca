SPECIFICATION FairSpec
CONSTANTS
  ISMT_DESC_ENTRIES = 3
  Transfers = 4
INVARIANTS DescNotBusy OrderedWithoutTimeout
PROPERTIES ReadsOwnData AllReturn
