SPECIFICATION Spec
CONSTANTS
  Threads = {t1, t2, t3}
  IdleThread = idle
  Endpoints = {e1}
  Notifications = {n1, n2}
  SaveSlots = {}
  Null = null
  MaxPrio = 0
  NumDomains = 1
  DomSchedule <- OneDomain
  TimeSlice = 1
  Badges = {0}
  SignalBits = {1}
  Syscalls <- SignalSyscalls
  DomainPrio = 0
SYMMETRY ThreadSymmetry
INVARIANTS
  NoDanglingReferences
  NotificationQueues
  BoundNotifications
