CONSTANTS
  Batteries = {"battery"}
  Readings <- MCReadings
  NoValue = 99
  ExtechWatts <- MCExtechWatts
  MaxSamples = 1
  MaxTime = 2
  MAX_PARAM = 2
  FIRST_KEPT = 1
  SAVE_EVERY = 2
  Utilizations = 1
  MIN_DURATION = 2
  Fixed <- MCFixed
  HotPlug = {"usb"}
  Usb <- MCUsb
  Rfkill <- MCRfkill
  Backlight <- MCBacklight
  Scsi <- MCScsi
  Original <- MCOriginal
  Long = 2
  Plans <- MCPlans
  LaterPlans <- MCLaterPlans
  MaxStarts = 2
SPECIFICATION Spec
INVARIANTS
  TimeSampledOnce
  OwnThreadsOnly
  NamesHaveSlots
  SettingsRestored
PROPERTIES
  MeasurementEnds
  LoadsWhatWasSaved
