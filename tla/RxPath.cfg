CONSTANTS
  BufferCount = 2
  MaxFrames = 3
  ClearWhileReceiving = FALSE
  CrossCore = FALSE
SPECIFICATION PathSpec
INVARIANTS
  PathTypeOK
  NoLostWakeup
PROPERTIES
  FramesLeaveTheList
  EngineRecovers
