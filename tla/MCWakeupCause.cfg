CONSTANTS
  NULL = NULL
  CPUs = {cpu0}
  Processes = {p, x, swapper, kworker}
  Idle = {swapper}
  XServers = {x}
  DontBlame = {x}
  KernelThreads = {kworker}
  HardIrqs = {eth}
  TimerNamed = {}
  TickHandler = tick
  SoftIrqs = {}
  Timers = {}
  Deferred = {}
  DelayedWork = {}
  Works = {}
  QuietWorks = {}
  TimerStructs = {}
  WorkStructs = {}
  HardGap = 1
  MaxStamp = 1
  MaxRecords = 6
SPECIFICATION CauseSpec
PROPERTY WakeupChargedToCause
