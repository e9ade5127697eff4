CONSTANTS
  Slots = {0, 1}
  Attempts = {2}
  CwRanges <- OneRange
  CallerRetry = {FALSE}
  SeqLimit = 0
  PowerControlAt = 0
  CrossCore = FALSE
SPECIFICATION Spec
INVARIANTS
  NoStaleResult
  ResultIsTrue
  NoLostWakeup
