------------------------------ MODULE KernelLock -------------------------------
(***************************************************************************)
(* The multicore kernel's big lock, a CLH queue lock (include/smp/lock.h), *)
(* and the inter-processor interrupts that the owner of the lock waits for *)
(* (smp/ipi.c, include/smp/ipi.h, arch/arm/smp/ipi.c; non-MCS).            *)
(*                                                                         *)
(* Of the kernel proper there is what takes part in this: entries, the     *)
(* calls of doRemoteMaskOp and doMaskReschedule, and whether a core runs   *)
(* its thread or the idle thread.  A step ends where another core can tell *)
(* how far this one has come.                                              *)
(***************************************************************************)
EXTENDS Naturals, FiniteSets

CONSTANTS
  Cores,
  Nodes,            \* the nodes of the queue, one more than there are cores
  ExchangeMayFail,  \* try_arch_atomic_exchange_rlx may fail (Arm; not x86, RISC-V)
  MaxRemote         \* remote calls in a kernel entry

ASSUME LockAssumption ==
  /\ IsFiniteSet(Cores) /\ Cores # {}
  /\ IsFiniteSet(Nodes) /\ Cardinality(Nodes) = Cardinality(Cores) + 1
  /\ ExchangeMayFail \in BOOLEAN /\ MaxRemote \in Nat

VARIABLES
  core,   \* the state of each core
  lock,   \* big_kernel_lock
  bar     \* the remote call in progress and its barrier

vars == <<core, lock, bar>>

NoCall == [remoteCall |-> "none", totalCoreBarrier |-> 0, count |-> 0, globalsense |-> FALSE]

UserCore ==
  [pc |-> "user", ret |-> "user", entry |-> "syscall", cur |-> "thread",
   localsense |-> FALSE, irqs |-> {}, remotes |-> 0, ipiReschedulePending |-> {}, asserts |-> TRUE]

\* clh_lock_init
Init ==
  /\ \E own \in [Cores -> Nodes], n \in Nodes :
       /\ \A c, d \in Cores : own[c] # n /\ (c # d => own[c] # own[d])
       /\ lock = [value |-> [m \in Nodes |-> "Granted"], node |-> own, next |-> own,
                  ipi |-> {}, head |-> n]
  /\ bar = NoCall
  /\ core = [c \in Cores |-> UserCore]

clh_is_self_in_queue(c) == lock.value[lock.node[c]] = "Pending"

irqPath(c) == core[c].entry # "syscall"

clh_is_ipi_pending(c) == c \in lock.ipi

Goto(c, pc) == core' = [core EXCEPT ![c].pc = pc]

-----------------------------------------------------------------------------
(* Handling a remote call *)

\* Mutant of HandleIPI: the flag is cleared after ipi_wait only.
HandleIPI_FlagKept(c, ret) ==
  /\ clh_is_ipi_pending(c)
  /\ core' = [core EXCEPT ![c].pc = "arrive", ![c].ret = ret]
  /\ UNCHANGED <<lock, bar>>

\* Mutant of HandleIPI: the stalled core does not leave its thread.
HandleIPI_NoSwitch(c, ret) ==
  /\ clh_is_ipi_pending(c)
  /\ core' = [core EXCEPT ![c].pc = "arrive", ![c].ret = ret,
                          ![c].irqs = IF ret = "user" THEN @ \ {"remote"} ELSE @]
  /\ lock' = [lock EXCEPT !.ipi = @ \ {c}]
  /\ UNCHANGED bar

\* handleIPI, handleRemoteCall and ipiStallCoreCallback as far as ipi_wait; after
\* it the core goes on at ret, or, stalled in a system call that waits for the
\* lock, in the callback's own loop.
HandleIPI(c, ret) ==
  LET stall     == bar.remoteCall = "Stall"
      inSyscall == clh_is_self_in_queue(c) /\ ~irqPath(c)
  IN  /\ clh_is_ipi_pending(c)
      /\ core' = [core EXCEPT
                    ![c].pc      = "arrive",
                    ![c].ret     = IF stall /\ inSyscall THEN "stallWait" ELSE ret,
                    ![c].cur     = IF stall THEN "idle" ELSE @,
                    ![c].irqs    = IF ret = "user" THEN @ \ {"remote"} ELSE @,
                    ![c].asserts = @ /\ (ret = "stallWait" => ~stall)]
      /\ lock' = [lock EXCEPT !.ipi = @ \ {c}]
      /\ UNCHANGED bar

\* Mutant of Arrive: the count is not reset.
Arrive_NoReset(c) ==
  /\ core[c].pc = "arrive"
  /\ core' = [core EXCEPT ![c].pc = "barrier", ![c].localsense = bar.globalsense]
  /\ bar' = IF bar.count = bar.totalCoreBarrier
            THEN [NoCall EXCEPT !.globalsense = ~bar.globalsense, !.count = bar.count + 1]
            ELSE [bar EXCEPT !.count = @ + 1]
  /\ UNCHANGED lock

\* ipi_wait: the core that arrives last flips the sense, whoever is still in the loop of
\* an earlier call.  remoteCall and totalCoreBarrier are not read again before they are
\* set, and are forgotten.
Arrive(c) ==
  /\ core[c].pc = "arrive"
  /\ core' = [core EXCEPT ![c].pc = "barrier", ![c].localsense = bar.globalsense]
  /\ bar' = IF bar.count = bar.totalCoreBarrier
            THEN [NoCall EXCEPT !.globalsense = ~bar.globalsense]
            ELSE [bar EXCEPT !.count = @ + 1]
  /\ UNCHANGED lock

LeaveBarrier(c) ==
  /\ core[c].pc = "barrier" /\ core[c].localsense # bar.globalsense
  /\ core' = [core EXCEPT ![c].pc = core[c].ret, ![c].ret = "user", ![c].localsense = FALSE]
  /\ UNCHANGED <<lock, bar>>

\* Mutant of RemoteInterrupt: the interrupt is taken for a spurious one.
RemoteInterrupt_Ignored(c) ==
  /\ core[c].pc = "user" /\ "remote" \in core[c].irqs
  /\ core' = [core EXCEPT ![c].irqs = @ \ {"remote"}]
  /\ UNCHANGED <<lock, bar>>

\* irq_remote_call_ipi in user mode: handled without the lock.
RemoteInterrupt(c) ==
  /\ core[c].pc = "user" /\ "remote" \in core[c].irqs
  /\ HandleIPI(c, "user")

\* It is spurious when the call was handled while the core waited for the lock.
SpuriousInterrupt(c) ==
  /\ core[c].pc = "user" /\ "remote" \in core[c].irqs
  /\ ~clh_is_ipi_pending(c)
  /\ core' = [core EXCEPT ![c].irqs = @ \ {"remote"}]
  /\ UNCHANGED <<lock, bar>>

-----------------------------------------------------------------------------
(* Kernel entry: NODE_LOCK *)

\* clh_lock_acquire, as far as the exchange.
Enter(c, entry) ==
  /\ core[c].pc = "user"
  /\ core' = [core EXCEPT ![c].pc = "exchange", ![c].entry = entry, ![c].irqs = @ \ {entry}]
  /\ lock' = [lock EXCEPT !.value[lock.node[c]] = "Pending"]
  /\ UNCHANGED bar

\* The idle thread makes no system call.
Syscall(c) == core[c].cur = "thread" /\ Enter(c, "syscall")

\* A device interrupt, and irq_reschedule_ipi.
Interrupt(c) == Enter(c, "device")

Reschedule(c) == "reschedule" \in core[c].irqs /\ Enter(c, "reschedule")

\* sel4_atomic_exchange
Exchange(c) ==
  /\ core[c].pc = "exchange"
  /\ lock' = [lock EXCEPT !.next[c] = lock.head, !.head = lock.node[c]]
  /\ Goto(c, "wait")
  /\ UNCHANGED bar

ExchangeFails(c) ==
  /\ ExchangeMayFail
  /\ core[c].pc = "exchange"
  /\ HandleIPI(c, "exchange")

\* Mutant of granted: the loop is left at once.
granted_Always(c) == TRUE

granted(c) == lock.value[lock.next[c]] = "Granted"

\* The loop of clh_lock_acquire
Acquire(c) ==
  /\ core[c].pc = "wait" /\ granted(c)
  /\ Goto(c, "kernel")
  /\ UNCHANGED <<lock, bar>>

WaitHandleIPI(c) ==
  /\ core[c].pc = "wait" /\ ~granted(c)
  /\ HandleIPI(c, "wait")

-----------------------------------------------------------------------------
(* In the kernel *)

\* Mutant of doRemoteMaskOp: the caller does not wait.
doRemoteMaskOp_NoWait(c, call, mask) ==
  /\ bar' = [bar EXCEPT !.remoteCall = call, !.totalCoreBarrier = Cardinality(mask)]
  /\ lock' = [lock EXCEPT !.ipi = @ \cup mask]
  /\ core' = [d \in Cores |->
                IF d = c THEN [core[d] EXCEPT !.remotes = @ + 1]
                ELSE IF d \in mask THEN [core[d] EXCEPT !.irqs = @ \cup {"remote"}] ELSE core[d]]

\* doRemoteMaskOp, as far as ipi_wait.  What remoteTCBStall adds to ipiReschedulePending
\* after a stall no other core reads, and it is added here.
doRemoteMaskOp(c, call, mask) ==
  /\ bar' = [bar EXCEPT !.remoteCall = call, !.totalCoreBarrier = Cardinality(mask)]
  /\ lock' = [lock EXCEPT !.ipi = @ \cup mask]
  /\ core' = [d \in Cores |->
                IF d = c THEN [core[d] EXCEPT !.pc = "arrive", !.ret = "kernel", !.remotes = @ + 1,
                                              !.ipiReschedulePending = IF call = "Stall" THEN @ \cup mask ELSE @]
                ELSE IF d \in mask THEN [core[d] EXCEPT !.irqs = @ \cup {"remote"}] ELSE core[d]]

\* Mutant of remoteTCBStall: any core is stalled.
remoteTCBStall_AnyThread(c, d) ==
  /\ core[c].pc = "kernel" /\ core[c].remotes < MaxRemote
  /\ d # c
  /\ doRemoteMaskOp(c, "Stall", {d})

\* remoteTCBStall of the thread that core d runs
remoteTCBStall(c, d) ==
  /\ core[c].pc = "kernel" /\ core[c].remotes < MaxRemote
  /\ d # c /\ core[d].cur = "thread"
  /\ doRemoteMaskOp(c, "Stall", {d})

\* Another remote call: an invalidation of translations or a change of the FPU owner
RemoteCall(c, mask) ==
  /\ core[c].pc = "kernel" /\ core[c].remotes < MaxRemote
  /\ mask # {} /\ c \notin mask
  /\ doRemoteMaskOp(c, "Invalidate", mask)

\* A core has one runnable thread, and is idle only while it is stalled: a device
\* interrupt leaves it idle, since ksSchedulerAction is ResumeCurrentThread.
curAfter(c) == IF core[c].entry = "device" THEN core[c].cur ELSE "thread"

\* Mutant of released: the core keeps its own node.
released_OwnNode(c) == [lock EXCEPT !.value[lock.node[c]] = "Granted"]

\* restore_user_context: NODE_UNLOCK_IF_HELD
released(c) == [lock EXCEPT !.value[lock.node[c]] = "Granted", !.node[c] = lock.next[c]]

\* Mutant of Exit: a stalled core is not told to reschedule.
Exit_NoReschedule(c) ==
  /\ core[c].pc = "kernel"
  /\ core' = [core EXCEPT ![c] = [UserCore EXCEPT !.irqs = core[c].irqs, !.cur = curAfter(c)]]
  /\ lock' = released(c)
  /\ UNCHANGED bar

\* schedule, which ends with doMaskReschedule, activateThread and the way out.
Exit(c) ==
  /\ core[c].pc = "kernel"
  /\ core' = [d \in Cores |->
                IF d = c THEN [UserCore EXCEPT !.irqs = core[c].irqs, !.cur = curAfter(c)]
                ELSE IF d \in core[c].ipiReschedulePending
                     THEN [core[d] EXCEPT !.irqs = @ \cup {"reschedule"}] ELSE core[d]]
  /\ lock' = released(c)
  /\ UNCHANGED bar

\* The loop of ipiStallCoreCallback.
StallAcquire(c) ==
  /\ core[c].pc = "stallWait" /\ granted(c)
  /\ Goto(c, "activate")
  /\ UNCHANGED <<lock, bar>>

\* The idle thread is activated.
StallExit(c) ==
  /\ core[c].pc = "activate"
  /\ core' = [core EXCEPT ![c] = [UserCore EXCEPT !.irqs = core[c].irqs, !.cur = core[c].cur]]
  /\ lock' = released(c)
  /\ UNCHANGED bar

StallHandleIPI(c) ==
  /\ core[c].pc = "stallWait" /\ ~granted(c)
  /\ HandleIPI(c, "stallWait")

-----------------------------------------------------------------------------

Entry(c) == Syscall(c) \/ Interrupt(c) \/ Reschedule(c)

KernelStep(c) ==
  \/ Exchange(c) \/ ExchangeFails(c) \/ Acquire(c) \/ WaitHandleIPI(c)
  \/ Exit(c) \/ Arrive(c) \/ LeaveBarrier(c)
  \/ StallAcquire(c) \/ StallExit(c) \/ StallHandleIPI(c)

RemoteRequest(c) ==
  \/ \E d \in Cores : remoteTCBStall(c, d)
  \/ \E mask \in SUBSET Cores : RemoteCall(c, mask)

IPI(c) == RemoteInterrupt(c) \/ SpuriousInterrupt(c)

Next == \E c \in Cores : Entry(c) \/ KernelStep(c) \/ RemoteRequest(c) \/ IPI(c)

Spec == Init /\ [][Next]_vars

\* A core in the kernel goes on, and a core in user mode takes its interrupts: a
\* remote call at once, a reschedule after other interrupts at most.
FairSpec ==
  Spec /\ \A c \in Cores : WF_vars(KernelStep(c)) /\ WF_vars(IPI(c)) /\ SF_vars(Reschedule(c))

================================================================================
