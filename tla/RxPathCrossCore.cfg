CONSTANTS
  BufferCount = 2
  MaxFrames = 3
  ClearWhileReceiving = FALSE
  CrossCore = TRUE
SPECIFICATION PathSpec
INVARIANTS
  NoLostWakeup
