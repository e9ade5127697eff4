CONSTANTS
  Slots = {1}
  Attempts = {1, 2, 3}
  CwRanges <- RangeOrNone
  CallerRetry = {FALSE, TRUE}
  SeqLimit = 3
  PowerControlAt = 1
  CrossCore = FALSE
SPECIFICATION Spec
INVARIANTS
  TypeOK
  NoStaleResult
  BufferReleased
  ResultIsTrue
  RetriesMarked
  
  NoLostWakeup
PROPERTY TransmitEnds
