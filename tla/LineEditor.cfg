SPECIFICATION Spec
CONSTANTS
  Typed = {"a", "blank", "newline", "nul"}
  PipeLines <- MCPipeLines
  ExitLines <- MCExitLines
  MaxLine = 4
  PromptLen = 1
  Columns = {1, 2, 4}
  AssumedColumns = 3
  TerminalFails = TRUE
  FileFails = TRUE
  DefaultHistory = 2
  MaxHistory = 2
  MaxKeys = 7
  MaxRuns = 2
INVARIANTS TypeOK ScreenShowsCursor BrowsingKeepsHistory
PROPERTIES LineCostsAtMostOldest HistorySurvivesRestart
CHECK_DEADLOCK FALSE
