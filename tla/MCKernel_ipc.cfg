SPECIFICATION Spec
CONSTANTS
  Threads = {t1, t2, t3, t4}
  IdleThread = idle
  Endpoints = {e1}
  Notifications = {}
  SaveSlots = {s1}
  Null = null
  MaxPrio = 0
  NumDomains = 1
  DomSchedule <- OneDomain
  TimeSlice = 1
  Badges = {1, 2}
  SignalBits = {}
  Syscalls <- IPCSyscalls
  DomainPrio = 0
SYMMETRY ThreadSymmetry
INVARIANTS
  KernelInv
  TypeOK
  NoAssertionFails
  EndpointQueues
  ReplyCaps
PROPERTIES
  EndpointFIFO
