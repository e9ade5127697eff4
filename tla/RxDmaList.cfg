CONSTANTS
  BufferCount = 4
  MaxFrames = 6
  ClearWhileReceiving = FALSE
SPECIFICATION Spec
INVARIANTS
  TypeOK
  DmaTargetsFreeBuffer
  NoBufferLost
  NoSilentStall
  ListInv
PROPERTY
  ImplementsFifo
