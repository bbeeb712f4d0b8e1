CONSTANTS
  NULL = NULL
  CPUs = {cpu0, cpu1}
  Processes = {p, x, swapper, kworker}
  Idle = {swapper}
  XServers = {x}
  DontBlame = {x}
  KernelThreads = {kworker}
  HardIrqs = {eth}
  TimerNamed = {}
  TickHandler = tick
  SoftIrqs = {}
  Timers = {}
  Deferred = {}
  DelayedWork = {}
  Works = {}
  QuietWorks = {}
  TimerStructs = {}
  WorkStructs = {}
  HardGap = 1
  MaxStamp = 2
  MaxRecords = 5
SPECIFICATION Spec
SYMMETRY CPUSymmetry
INVARIANTS
  BlameHasLevel
  RunningIsOnCpu
  WakerOfSleepers
PROPERTIES
  WakeupPaidByIdle
  BlameKept
  DontBlameHonoured
