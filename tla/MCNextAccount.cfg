CONSTANTS
  Sessions = {s1}
  Existing = {}
  BrowserAhead = FALSE
  BrowserBehind = TRUE
  SavedLayouts = {}
  MaxTabs = 2
  MaxLeaves = 3
  MaxDepth = 2
  MaxUid = 8
  MaxLogins = 2
SPECIFICATION WorkspaceSpec
INVARIANT NothingOfAnotherUser
CHECK_DEADLOCK FALSE
