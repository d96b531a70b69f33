SPECIFICATION Spec
CONSTANTS
  i1 = i1
  i2 = i2
  x = x
  y = y
  Symbols <- TwoSymbols
  Files <- FewFiles
  Importers <- TwoImporters
  Months = 3
  MaxImports = 2
INVARIANTS WholeAfterTwo TwinsOverlapped
PROPERTIES ImportsEnd
CHECK_DEADLOCK FALSE
