SPECIFICATION MmuSpec
CONSTANTS
  E = 2
  RootEntries = 2
  LEVELS = 3
  Span <- SmallSpan
  LeafLevels = {1, 2}
  NamedSizes = {1, 2, 4}
  UMAX = 16
  SignExtended = TRUE
  PaLimit = 4
  f1 = f1
  f2 = f2
  f3 = f3
  f4 = f4
  b1 = b1
  b2 = b2
  b3 = b3
  Frames = {f1, f2, f3, f4}
  NoFrame = NoFrame
  BootFrames = {}
  BootTree <- NoBoot
  FullThreshold = 1
  Flags = {"rw", "global"}
  GlobalFlags = {"global"}
  GlobalUsers = {"X86Tlb"}
  Backends = {"X86Tlb"}
  Requests <- GlobalRequests
SYMMETRY FrameSymmetry
INVARIANTS CoherentAtReturn
