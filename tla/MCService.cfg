SPECIFICATION FairSpec
CONSTANTS
  proc1 = proc1
  proc2 = proc2
  win1 = win1
  win2 = win2
  mcpA = mcpA
  mcpB = mcpB
  mcpC = mcpC
  boxX = boxX
  boxY = boxY
  keyA = keyA
  keyB = keyB
  plain = plain
  password = password
  typed = typed
  star = star
  blank = blank
  Processes = {proc1, proc2}
  Servers = {proc1, proc2}
  Operators = {win1, win2}
  Names = {mcpA, mcpB, mcpC}
  Homes = {mcpA, mcpB, mcpC}
  Ids = {boxX, boxY}
  Variables = {keyA, keyB, plain}
  Sensitive = {keyA, keyB}
  Typed = typed
  Placeholder = star
  Empty = blank
  First <- MCFirst
  Builds <- MCBuilds
  MaxEdits = 2
  MaxSaves = 2
  Bounds <- MCBounds
INVARIANT TypeOK
INVARIANT LedgerIsHistory
INVARIANT ServesOwnSchema
INVARIANT PlaceholderNeedsCause
INVARIANT SecretsStayHome
INVARIANT PanelShowsFile
PROPERTY SavedTakesEffect
