SPECIFICATION FirmwareSpec
CONSTANTS
  Sections <- Layouts
  RamWords = 24
  Rom <- RomWords
  Garbage = 77
  Usual <- Linked
  MemSize = 11
  Lengths = {0, 1, 2, 3, 7, 8, 9, 10}
  Chars = {1, 258}
  Sought = {1}
  Memories <- MemoryImages
  NULL = NULL
  MaxCalls = 1
  Width = 16
  PerLine = 4
  Texts <- MCTexts
  Blocks <- MCBlocks
  Beyond <- Stale
  Character <- Characters
  WIDTH = 10
  HEIGHT = 12
  Uninitialised = Uninitialised
INVARIANTS StaticsInPlace PrintsWhatIsMeant DumpShowsAll PictureDrawn
PROPERTIES ImplementsBlockOps
CHECK_DEADLOCK FALSE
