SPECIFICATION Spec
CONSTANTS
  None = None
  Absent = Absent
  Own = Own
  Cells <- MCCells
  Picks <- MCPicks
  Unticked = 0
  FirstCell = 1
  BaseData <- MCBase
  RebalanceChunk <- MCRebalance
  Block <- MCBlock
  SellChunk <- MCSell
  Mixes <- MCMixes
  Savable <- MCSavable
  Blocks <- MCStops
  Keep = 2
  Bars <- MCBars
  Filters <- MCFilters
  MaxNames = 2
  NewCategory <- MCNewCategory
  NewTag <- MCNewTag
  Guess <- MCGuess
INVARIANTS
  BooksTrue
  EveryCellIsItsOwnRun
  EntersWhatIsOffered
  PageIsItsRun
  SavesWhatIsShown
CHECK_DEADLOCK FALSE
