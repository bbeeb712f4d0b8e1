CONSTANTS
  Tasks <- MCTasks
  Devices <- MCDevices
  DevString <- MCDevString
  Handles <- MCHandles
  RealPath <- MCRealPath
  NoPath = "none"
  GroupingPrio <- MCGroupingPrio
  Unlisted = {}
  Fixed <- MCFixed
  UsbDevices = {"usb new"}
  Traces <- MCTraces
  Usages <- MCUsages
  Layouts <- MCLayouts
  Gpus = {0, 2}
  Hardware <- MCHardware
  SettingStates <- MCSettingStates
  Untunables = 1
  SummaryRows = 2
  SoftwareRows = 3
  Columns = {4}
SPECIFICATION Spec
INVARIANTS
  AllPowerLives
  NothingLost
  ThreadsFolded
  OpenersNamed
  TablesFit
