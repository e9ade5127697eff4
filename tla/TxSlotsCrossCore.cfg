CONSTANTS
  Slots = {1}
  Attempts = {1, 2}
  CwRanges <- OneRange
  CallerRetry = {FALSE}
  SeqLimit = 0
  PowerControlAt = 0
  CrossCore = TRUE
SPECIFICATION Spec
PROPERTY TransmitEnds
