CONSTANTS
  NULL = NULL
  CPUs = {cpu0}
  Processes = {p, swapper}
  Idle = {swapper}
  XServers = {}
  DontBlame = {}
  KernelThreads = {}
  HardIrqs = {tick}
  TimerNamed = {tick}
  TickHandler = tick
  SoftIrqs = {net}
  Timers = {t, defer}
  Deferred = {defer}
  DelayedWork = {}
  Works = {w}
  QuietWorks = {w}
  TimerStructs = {ts1, ts2}
  WorkStructs = {ws}
  HardGap = 1
  MaxStamp = 2
  MaxRecords = 6
SPECIFICATION TruthSpec
INVARIANT ChildWithinAccumulated
