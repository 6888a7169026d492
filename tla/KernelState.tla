----------------------------- MODULE KernelState -----------------------------
(***************************************************************************)
(* The state of the uniprocessor, non-MCS seL4 kernel that scheduling and  *)
(* IPC work on.  The kernel's C functions are modelled by operators that   *)
(* take a kernel state k (a record) and return the state the function      *)
(* leaves behind, so that they compose in the order the C code calls them. *)
(*                                                                         *)
(* Abstracted data: registers and IPC buffers are left out; an endpoint    *)
(* cap is its badge and the one bit that decides whether a Call gets a     *)
(* reply cap (capCanGrant || capCanGrantReply); the fields of              *)
(* thread_state_t that a thread state does not use are normalised.         *)
(***************************************************************************)
EXTENDS Naturals, Sequences, SequencesExt

CONSTANTS
  Threads,        \* the user TCBs
  IdleThread,     \* ksIdleThread
  Endpoints,      \* the endpoint objects
  Notifications,  \* the notification objects
  SaveSlots,      \* the CNode slots that reply caps can be saved to
  Null,           \* the NULL pointer, the null cap and the null fault
  MaxPrio,        \* seL4_MaxPrio
  NumDomains,     \* CONFIG_NUM_DOMAINS
  DomSchedule,    \* ksDomSchedule, a sequence of [domain, length] entries
  TimeSlice,      \* CONFIG_TIME_SLICE
  Badges,         \* the badges of endpoint caps
  SignalBits      \* the bits of a notification word

Prios == 0 .. MaxPrio

Domains == 0 .. (NumDomains - 1)

\* ready_queues_index(dom, prio)
ReadyQueueIdx == Domains \X Prios

DomScheduleEntry == [domain : Domains, length : Nat \ {0}]

ASSUME DistinctObjects ==
  /\ IdleThread \notin Threads
  /\ Null \notin Threads \cup Endpoints \cup Notifications \cup SaveSlots \cup {IdleThread}
  /\ Threads \cap SaveSlots = {}
  /\ Endpoints \cap Notifications = {}

\* Objects of different kinds are different objects.
ASSUME DistinctKinds == Threads \cap (Endpoints \cup Notifications) = {}

ASSUME ConfigurationBounds ==
  /\ MaxPrio \in Nat
  /\ NumDomains \in Nat \ {0}
  /\ TimeSlice \in Nat \ {0}
  /\ DomSchedule \in Seq(DomScheduleEntry)
  /\ Len(DomSchedule) > 0

ResumeCurrentThread == "SchedulerAction_ResumeCurrentThread"

ChooseNewThread == "SchedulerAction_ChooseNewThread"

ASSUME ActionsAreNotThreads ==
  ResumeCurrentThread \notin Threads /\ ChooseNewThread \notin Threads

RunnableStates == {"Running", "Restart"}

StoppedStates == {"Inactive", "BlockedOnReceive", "BlockedOnSend",
                  "BlockedOnNotification", "BlockedOnReply"}

ThreadStates == RunnableStates \cup StoppedStates

\* What a blocked thread's tcbState records besides its type.
NotBlocking == [obj |-> Null, badge |-> Null, canReply |-> FALSE, isCall |-> FALSE]

Blocking == [obj : Endpoints \cup Notifications \cup {Null}, badge : Badges \cup {Null},
             canReply : BOOLEAN, isCall : BOOLEAN]

EPStates == {"Idle", "Send", "Recv"}

NtfnStates == {"Idle", "Waiting", "Active"}

Objects == Threads \cup Endpoints \cup Notifications

\* A slot that can hold a reply cap: thread t stands for the tcbCaller slot of t's TCB.
ReplySlots == Threads \cup SaveSlots

(***************************************************************************)
(* The kernel state.  live is the set of objects that exist: the others    *)
(* have not been created yet, or their last cap is gone, and what the      *)
(* state records for them is memory that Retype will clear.                *)
(* asserts is FALSE once an assert() or fail() of the C code has failed;   *)
(* transfer is what the last doIPCTransfer of the current kernel entry     *)
(* delivered.                                                              *)
(***************************************************************************)
KState ==
  [live                 : SUBSET Objects,
   tsType               : [Threads -> ThreadStates],
   blocking             : [Threads -> Blocking],
   tcbQueued            : [Threads -> BOOLEAN],
   tcbPriority          : [Threads -> Prios],
   tcbDomain            : [Threads -> Domains],
   tcbTimeSlice         : [Threads -> 1 .. TimeSlice],
   tcbFault             : [Threads -> BOOLEAN],
   tcbBoundNotification : [Threads -> Notifications \cup {Null}],
   replyMaster          : [Threads -> BOOLEAN],
   replyCap             : [ReplySlots -> Threads \cup {Null}],
   epState              : [Endpoints -> EPStates],
   epQueue              : [Endpoints -> Seq(Threads)],
   ntfnState            : [Notifications -> NtfnStates],
   ntfnQueue            : [Notifications -> Seq(Threads)],
   ntfnMsgIdentifier    : [Notifications -> SUBSET SignalBits],
   ntfnBoundTCB         : [Notifications -> Threads \cup {Null}],
   ksReadyQueues        : [ReadyQueueIdx -> Seq(Threads)],
   ksSchedulerAction    : Threads \cup {ResumeCurrentThread, ChooseNewThread},
   ksCurThread          : Threads \cup {IdleThread},
   ksDomScheduleIdx     : 1 .. Len(DomSchedule),
   ksCurDomain          : Domains,
   ksDomainTime         : Nat,
   transfer             : [label : {"None", "Normal", "Fault"}, isCall : BOOLEAN],
   asserts              : BOOLEAN]

NoTransfer == [label |-> "None", isCall |-> FALSE]

\* assert(cond)
Assert_(k, cond) == [k EXCEPT !.asserts = @ /\ cond]

\* isRunnable; isSchedulable is the same predicate when CONFIG_KERNEL_MCS is off.
isRunnable(k, t) == t # IdleThread /\ k.tsType[t] \in RunnableStates

isStopped(k, t) == k.tsType[t] \in StoppedStates

\* Mutant of tcbEPAppend: the TCB is linked at the head.
tcbEPAppend_AtHead(t, queue) == <<t>> \o queue

\* Add a TCB to the end of an endpoint or notification queue.
tcbEPAppend(t, queue) == Append(queue, t)

\* Unlink a TCB from an endpoint or notification queue.
tcbEPDequeue(t, queue) ==
  IF t \in ToSet(queue) THEN RemoveAt(queue, CHOOSE i \in DOMAIN queue : queue[i] = t)
  ELSE queue

=============================================================================
