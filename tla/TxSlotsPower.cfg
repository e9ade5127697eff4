CONSTANTS
  Slots = {1}
  Attempts = {1}
  CwRanges <- OneRange
  CallerRetry = {FALSE}
  SeqLimit = 0
  PowerControlAt = 4
  CrossCore = FALSE
SPECIFICATION Spec
INVARIANT PowerControlEveryFour
