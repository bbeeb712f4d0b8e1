CONSTANTS
  NULL = NULL
  CPUs = {cpu0}
  Processes = {p, x, swapper}
  Idle = {swapper}
  XServers = {x}
  DontBlame = {x}
  KernelThreads = {}
  HardIrqs = {eth, tick}
  TimerNamed = {tick}
  TickHandler = tick
  SoftIrqs = {net}
  Timers = {t, dwork, defer}
  Deferred = {defer}
  DelayedWork = {dwork}
  Works = {w}
  QuietWorks = {}
  TimerStructs = {ts}
  WorkStructs = {ws}
  HardGap = 0
  MaxStamp = 2
  MaxRecords = 5
SPECIFICATION Spec
INVARIANTS
  TypeOK
  NoDanglingConsumer
  StartsInPast
  ProcessAtBottom
  HardHitsSpaced
