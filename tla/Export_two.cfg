SPECIFICATION ExportSpec
CONSTANTS
  Combination <- MCCombination
  Alias = {a, b}
  Value = {1}
  None = None
  ChunkSize = 2
  Sensors = 2
  MaxWrites = 2
INVARIANTS EachLineOnce CellsWereTrue
CHECK_DEADLOCK FALSE
