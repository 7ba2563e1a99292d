SPECIFICATION ScreenFairSpec
CONSTANTS
  a = a
  c = c
  Chars = {a, c}
  Combining = {c}
  Wide = {a}
  InputWidth = 3
  HistoryCapacity = 1
  OutputCapacity = 2
  Visible = 2
  Unbounded = 9
  Pastes <- MCPastes
  Options <- MCOptions
  MaxLine = 2
  MaxWritten = 3
  MaxInputs = 5
INVARIANTS ScreenIsKept PaneIsSteady DraftComesBack
PROPERTIES AskedEnds
CHECK_DEADLOCK FALSE
