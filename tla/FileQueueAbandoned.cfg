SPECIFICATION Spec
CONSTANTS
  threads = 2
  YR_MAX_THREADS = 3
  MAX_QUEUED_FILES = 2
  Files = 4
INVARIANTS RulesOutliveScans
