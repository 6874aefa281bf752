CONSTANTS
  s1 = s1
  Sessions <- MCSessions
  Existing <- MCExisting
  BrowserAhead = FALSE
  BrowserBehind = TRUE
  SavedLayouts <- MCSavedLayouts
  MaxTabs = 2
  MaxLeaves = 3
  MaxDepth = 1
  MaxUid = 8
  MaxLogins = 1
  Accounts = {"ann", "bob"}
  Admins = {"ann"}
  Shells = {"s", "t"}
  VisibleTo <- MCVisible
  MaxRefreshes = 2
  MaxEvents = 1
  MaxTurns = 3
  Usernames = {"root", "eve"}
  Operators = {"root", "eve"}
  MaxAdminCalls = 2
  MaxAdminTurns = 3
  Blocks = {1, 2, 3}
  ScreenRows = 2
  Scrollback = 7
  MaxMarkers = 3
  Editors = {"root", "eve"}
  Keys = {"ttl", "limit"}
  Values = {"0", "1"}
  Default = "0"
  MaxConfigTurns = 3
  MaxHandEdits = 1
  Dirs = {"d", "e"}
  Names = {"f", "g"}
  Home = "d"
  Chosen <- MCChosen
  PageSize = 1
  MaxVersion = 3
  MaxLoads = 1
  MaxUploads = 1
  MaxQuestions = 2
  MaxClicks = 3
  OnDisk <- MCOnDisk
SPECIFICATION Spec
INVARIANTS BrowserTypeOK PanesConsistent OpenedOnce OverwriteAgreed AccountIsolation AnAdminRemains
  EnrolmentScanned  ShortcutAsWritten
PROPERTIES CreatedHasSurface ReloadRestores DraftNotDropped PublishedLoads
CHECK_DEADLOCK FALSE
VIEW BrowserView
CONSTRAINT FewPanes
