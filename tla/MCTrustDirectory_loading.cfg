SPECIFICATION DirectorySpec
CONSTANTS
  CAs = {a, b}
  Names <- MCNames
  Bundle = 0
  Sources <- MCSources
  Loaders = {x1, x2}
  MaxRewrites = 2
INVARIANTS LoadIsWithinItsInterval
PROPERTIES AnchorsUnlessRuntimeTrust 
