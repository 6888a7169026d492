------------------------------- MODULE MCKernel -------------------------------
(* Model-checking instances of Kernel. *)
EXTENDS KernelInvariant

\* Threads are interchangeable: Init chooses the initial thread freely.
ThreadSymmetry == Permutations(Threads)

OneDomain == <<[domain |-> 0, length |-> 1]>>

TwoDomains == <<[domain |-> 0, length |-> 2], [domain |-> 1, length |-> 1]>>

IPCSyscalls ==
  {"Retype", "Send", "Call", "Recv", "Reply", "ReplyRecv", "InvokeReply", "Fault",
   "SaveCaller", "DeleteReplyCap", "Suspend", "Resume", "DeleteThread", "DeleteEndpoint",
   "CancelBadgedSends"}

SignalSyscalls ==
  {"Retype", "Resume", "Suspend", "Recv", "Signal", "IRQ", "BindNotification",
   "UnbindNotification", "DeleteNotification", "DeleteThread"}

SchedSyscalls ==
  {"Retype", "Resume", "Suspend", "Call", "Recv", "ReplyRecv", "Yield", "SetPriority",
   "DomainSet", "SetContext", "CopyRegisters", "ReadRegisters", "WriteRegisters"}

RoundRobinSyscalls == {"Retype", "Resume", "Call", "ReplyRecv", "Yield"}

=============================================================================
