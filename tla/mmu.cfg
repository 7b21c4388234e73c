SPECIFICATION MmuSpec
CONSTANTS
  E = 2
  RootEntries = 2
  LEVELS = 3
  Span <- SmallSpan
  LeafLevels = {1, 2}
  NamedSizes = {1, 2, 4}
  UMAX = 16
  SignExtended = TRUE
  PaLimit = 4
  f1 = f1
  f2 = f2
  f3 = f3
  f4 = f4
  b1 = b1
  b2 = b2
  b3 = b3
  Frames = {f1, f2, b1, b2, b3}
  NoFrame = NoFrame
  BootFrames = {b1, b2, b3}
  BootTree <- PairBoot
  FullThreshold = 1
  Flags = {"rw", "ro", "global"}
  GlobalFlags = {"global"}
  GlobalUsers = {"InvlpgbWithGlobal", "A64Tlb"}
  Backends = {"X86Tlb", "X86PcidTlb", "X86InvlpgbTlb", "InvlpgbWithGlobal", "A64Tlb"}
  Requests <- AdoptRequests
SYMMETRY FrameSymmetry
INVARIANTS CoherentAtReturn FreedTablesForgotten MmuInv
PROPERTIES SplitMergeTransparent
