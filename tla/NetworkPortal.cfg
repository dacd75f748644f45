\* The program ends after SIGINT or an exception.
CHECK_DEADLOCK FALSE
SPECIFICATION Spec
CONSTANTS
  FRAME_SIZE = 64
  NUM_FRAMES = 3
  FILL_RING_RESERVE_SIZE = 2
  FillSize = 2
  RxSize = 2
  MaxPackets = 5
  Packets <- MCPackets
INVARIANTS TypeOK FrameOwnership SignalsFaithful FilteredSignals AreaOutlivesKernel
PROPERTIES SignalDelivered ClosesOnSignal
