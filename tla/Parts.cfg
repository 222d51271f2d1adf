\* Small parts side by side; the parts are listed in MCParts.
SPECIFICATION Spec
CONSTANTS
  ProductIds = {1, 2, 3}
  SortRequests <- AllRequests
  app = app
  lib = lib
  tool = tool
  key = key
  Products = {app, lib, tool}
  Settings = {s}
  Licenses = {key}
  LicenseOf <- LicenseOfOne
  Dependencies <- SetupNeedsSetup
  Requests = {"none", "setup"}
  Values = {v, w}
  Absent = Absent
  Popups = {v, w}
  Timed = {v}
  NoPopup = NoPopup
  Urls = 2
  Timeout = 2
  StartPolls = 1
  Setters = {"main", "t"}
  Starter = "main"
  Names = {"counter", "n"}
  Counter = "counter"
  StateValues = {"0", "1"}
  Zero = "0"
  Unset = Unset
  None = None
  Writers = {v, w}
  NoWriter = NoWriter
  Records = 3
  Long = {2}
  Verbose = {2}
  Capacity = 2
  Losses = 1
  Updaters = {v, w}
  Nowhere = Nowhere
CHECK_DEADLOCK FALSE
INVARIANTS
  PartsTypeOK RequirementsHaveActions OneKindIsMet LocalChangeArrives OneConnection
  ReplacedIsStopped LastDecidesEnd SetIsWritten StopEndsEvents ShownIsTheLog
  HiddenIfFiltered InstallationKept
PROPERTIES
  ServerChangeStays
  TimedPopupEnds NobodyGoesOn EveryRecordIsShown
