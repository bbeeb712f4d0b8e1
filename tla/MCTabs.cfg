CONSTANTS
  Minute = 2
  HalfRange = 2
  MaxBytes = 2
  MaxClock = 4
  Files <- MCFiles
  Tunables <- MCTunables
  Kind <- MCKind
  FilesOf <- MCFilesOf
  Target <- MCTarget
  Rank <- MCRank
  Unsupported = {"bridge"}
  EthernetWakeups <- MCEthernetWakeups
  UsbWakeups <- MCUsbWakeups
  Machines <- MCMachines
  Removable <- MCRemovable
  Changeable <- MCChangeable
  Contents = {1, 3}
  MaxChanges = 1
  ScrollMargin = 7
  Sizes = {8, 9}
  PlainRows = 4
SPECIFICATION Spec
CHECK_DEADLOCK FALSE
INVARIANT IdleMeansQuiet
PROPERTIES EnterDoesWhatItSays HighlightInSight AutoTuneFixes
