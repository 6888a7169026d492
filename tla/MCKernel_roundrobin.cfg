SPECIFICATION TimedSpec
CONSTANTS
  Threads = {t1, t2, t3}
  IdleThread = idle
  Endpoints = {e1}
  Notifications = {}
  SaveSlots = {}
  Null = null
  MaxPrio = 0
  NumDomains = 1
  DomSchedule <- OneDomain
  TimeSlice = 2
  Badges = {0}
  SignalBits = {}
  Syscalls <- RoundRobinSyscalls
  DomainPrio = 0
PROPERTIES
  RoundRobin
