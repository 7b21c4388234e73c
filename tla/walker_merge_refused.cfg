SPECIFICATION Spec
CONSTANTS
  E = 2
  RootEntries = 2
  LEVELS = 3
  Span <- SmallSpan
  LeafLevels = {1, 2}
  NamedSizes = {1, 2, 4}
  UMAX = 16
  SignExtended = TRUE
  PaLimit = 4
  NoFrame = NoFrame
  Flags = {"rw", "ro"}
  f1 = f1
  f2 = f2
  f3 = f3
  f4 = f4
  f5 = f5
  b1 = b1
  b2 = b2
  b3 = b3
  b4 = b4
  Frames = {f1, f2, f3, b1, b2, b3, b4}
  Requests <- BootRequests
  BootFrames = {b1, b2, b3, b4}
  BootTree <- Boot
SYMMETRY FrameSymmetry
INVARIANTS RefusedMergeChangesNothing
