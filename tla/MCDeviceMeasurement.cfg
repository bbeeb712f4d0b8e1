CONSTANTS
  Absent = Absent
  MaxInt = 300
  MaxSize = 8
  EnergyRange = 5
  TicksPerSecond = 2
  Wide = 16
  Units <- MCUnits
  Packages <- MCPackages
  Parameters <- MCParameters
  Past <- MCPast
  Started = {0, 299}
  MaxMeasurements = 2
  MaxTicks = 3
  MaxFaults = 1
SPECIFICATION Spec
CHECK_DEADLOCK FALSE
INVARIANTS ShowsWhatHappened ChargedAtMostOnce
