SPECIFICATION Spec
CONSTANTS
  Threads = {t1, t2, t3}
  IdleThread = idle
  Endpoints = {e1}
  Notifications = {}
  SaveSlots = {}
  Null = null
  MaxPrio = 1
  NumDomains = 2
  DomSchedule <- TwoDomains
  TimeSlice = 1
  Badges = {0}
  SignalBits = {}
  Syscalls <- SchedSyscalls
  DomainPrio = 1
SYMMETRY ThreadSymmetry
INVARIANTS
  ReadyQueues
  NoThreadLost
  HighestPriorityRuns
  FastpathAgrees
  CurrentThread
  DomainTimePositive
