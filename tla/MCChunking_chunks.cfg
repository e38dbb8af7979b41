CONSTANTS
  Bodies <- MCBodies
  Abstracts <- MCAbstracts
  Configs <- MCConfigs
SPECIFICATION PaperSpec
INVARIANTS NothingLostInChunks SizesKept
CHECK_DEADLOCK FALSE
