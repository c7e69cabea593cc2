SPECIFICATION Spec
CONSTANTS
  None = None
  NotFound = NotFound
  Invalid = Invalid
  InflightIds = {1}
  OutboxSize = 1
  MaxInflightChanges = 1
  MaxInflightConnects = 2
  MaxUnread = 2
  SortColumns = {"id"}
  MaxButtons = 1
  ShownModels = {"m1"}
  ShownLimits = {25}
  PagesShown <- TwoPagesShown
  MaxShownVersion = 2
  MaxReconnects = 1
  MaxRefreshes = 3
  ChoiceModels = {"m1", "m2"}
  ChoiceLimits = {10, 25}
  PagesChosen <- TwoPagesChosen
  MaxChoiceVersion = 1
  MaxChoiceConnects = 0
  MaxChoices = 2
  Releases <- TwoReleases
  InflightReleases <- InflightRelease
  DefaultHidden = {"path"}
  Captures <- FourCaptures
  InflightRows = {1}
  MaxCaptureCalls = 3
  MaxCopies = 2
  Intervals = {i1, i2}
  MaxVisits = 2
  MaxSamples = 1
  MaxPolls = 3
  MaxHides = 1
  RowModels <- TwoRows
  MaxLoads = 2
  MaxUnloads = 1
  MaxScans = 2
  DiskFiles = {"f1", "f2"}
  MaxDiskLoads = 3
  MaxDiskActions = 2
  DetailModels <- Variants
  RouteNames = {"a", "f", "none"}
  TagTexts = {"", "t"}
  MaxDetailCalls = 5
  MaxMoves = 1
  LogModels = {"m1", "m2"}
  BufferSize = 1
  ChanSize = 2
  SendSize = 1
  Limit = 2
  MaxWritten = 3
  MaxLogStreams = 2
  LogLines = {"w", "i"}
  Matches <- Filters
  MaxPanelLines = 2
  Positions = {0, 37, 98}
  StoredSizes = {2, 60}
  defaultSize = 50
  minSize = 5
  Step = 2
  Names = {"default", "ocean"}
  Titles = {"", "mine", "llama-swap"}
  InnerWidths = {639, 1023, 1024}
  Consumers = {1, 2}
  Publishers = {1, 2}
  MaxQueue = 1
  MaxEvents = 3
  CacheIds = {1, 2, 3}
  CacheSizes = {0, 1, 2, 4}
  CacheLimit = 3
  MaxAdds = 5
  SpillRequests = {1, 2, 3}
  Targets = {1, 2}
  Local = {1}
  Spillover = 2
  Ignored = {3}
  Paths = {"a", "b"}
  MaxEdits = 2
  MaxSignals = 1
  MaxReloads = 2
  Terminate = TRUE
INVARIANTS
  EventsSettle
  PreferencesKept
  ShownAsRecorded
  OneAtATime
  LogShown
PROPERTIES
  NothingLeftBehind
CHECK_DEADLOCK FALSE
