CONSTANTS
  Metas <- AllMetas
  MAX_LEVELS = 6
  Fanout = 2
  Bases = {0, 8}
  Accesses <- MCAccesses
  Shares = {"Inner", "NonShareable", "System"}
  WordBits = 5
  BootFormats <- MCBootFormats
  Roots <- MCRoots
  Tags = {0, 8}
  Modes = {0, 1, 2, 3}
  CurrentTtbr = {"TTBR0"}
  SupportedModes = {0, 1, 2}
SPECIFICATION Spec
INVARIANTS TypeOK ReadsBack HardwareAgrees GeometryExact ActiveRootIsToken NoGarbageTranslation TranslationsFromActiveRoot NoFault RestoresObserved MemoryTypeInForce
PROPERTY InterruptsAsBefore
CHECK_DEADLOCK FALSE
