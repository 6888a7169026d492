------------------------- MODULE KernelLockProperties --------------------------
(***************************************************************************)
(* What the big kernel lock and remote calls guarantee.                    *)
(***************************************************************************)
EXTENDS KernelLock, SequencesExt

CoreType ==
  [pc : {"user", "exchange", "wait", "kernel", "arrive", "barrier", "stallWait", "activate"},
   ret : {"user", "exchange", "wait", "kernel", "stallWait"},
   entry : {"syscall", "device", "reschedule"}, cur : {"thread", "idle"},
   localsense : BOOLEAN, irqs : SUBSET {"remote", "reschedule"}, remotes : 0 .. MaxRemote,
   ipiReschedulePending : SUBSET Cores, asserts : BOOLEAN]

\* The barrier counts no more arrivals than there are targets (ipi_wait resets
\* the count before it lets the cores go), and the flags are of other cores.
TypeOK ==
  /\ lock \in [value : [Nodes -> {"Granted", "Pending"}], node : [Cores -> Nodes],
               next : [Cores -> Nodes], ipi : SUBSET Cores, head : Nodes]
  /\ core \in [Cores -> CoreType]
  /\ bar \in [remoteCall : {"none", "Stall", "Invalidate"}, globalsense : BOOLEAN,
              totalCoreBarrier : 0 .. Cardinality(Cores) - 1, count : 0 .. bar.totalCoreBarrier]

\* The nodes make up the queue s: each core waits for the node of the one before it,
\* the first for a node that is granted, and the last node is the head of the lock.
IsQueue(s) ==
  /\ \A i \in DOMAIN s :
       /\ lock.value[lock.node[s[i]]] = "Pending"
       /\ IF i = 1 THEN lock.value[lock.next[s[i]]] = "Granted"
          ELSE lock.next[s[i]] = lock.node[s[i - 1]]
  /\ IF s = <<>> THEN lock.value[lock.head] = "Granted"
     ELSE lock.head = lock.node[s[Len(s)]]

CoreSeqs == BoundedSeq(Cores, Cardinality(Cores))

queue == CHOOSE s \in CoreSeqs : IsQueue(s)

Lock == INSTANCE FIFOLock

\* The CLH lock is a first-come first-served lock: a core joins the queue at its
\* end, and cores leave it at the front, each only once it is first.
LockOrder == Lock!Init /\ [][Lock!Next]_queue

\* Where a core is, a remote call that it makes or handles aside.
at(c) == IF core[c].pc \in {"arrive", "barrier"} THEN core[c].ret ELSE core[c].pc

\* A core that runs kernel code under the lock (after clh_lock_acquire, or after
\* the loop of ipiStallCoreCallback) is the first in the queue, which the nodes
\* always make up: there is one such core, and it got the lock in its turn.
OwnerFirst ==
  \E s \in CoreSeqs :
    IsQueue(s) /\ \A c \in Cores : at(c) \in {"kernel", "activate"} => s # <<>> /\ s[1] = c

\* The callback of a remote call changes the scheduler state of its core without
\* the lock: from when its flag is set until it is cleared, the owner of the lock
\* is in doRemoteMaskOp and changes nothing itself.
CallsSynchronous ==
  lock.ipi # {} =>
    \E d \in Cores : at(d) = "kernel" /\ core[d].pc \in {"arrive", "barrier"}

\* The assert of ipiStallCoreCallback: a core that is stalled in a system call is
\* not asked to stall again before it has had the lock.
NoIPIAssertionFails == \A c \in Cores : core[c].asserts

\* remoteTCBStall "makes sure the TCB is not being run on other core": from its
\* return until the caller gives back the lock, the stalled core runs its idle
\* thread, wherever the stall has met it.
StalledThread ==
  \A c \in Cores : core[c].pc = "kernel" =>
    \A d \in core[c].ipiReschedulePending : core[d].cur = "idle"

\* There are at most two cores.
TwoCores == \A c, d, e \in Cores : c = d \/ d = e \/ c = e

\* ipi.h: "Run a synchronous function on all cores specified by mask.  Return when target
\* cores have all executed the function": no target of a remote call is held in the loop
\* of ipi_wait by an earlier call, where it would never see this one.  With two cores
\* it is so.  With three, a call that leaves out a core still in the loop of the call
\* before flips the sense back, and the core stays.
TargetsAnswer ==
  \A c \in lock.ipi : core[c].pc = "barrier" => core[c].localsense # bar.globalsense

\* A core that goes on waiting for the lock in ipiStallCoreCallback is in the
\* queue, and so will be granted the lock.
WaitsInQueue ==
  \A c \in Cores : core[c].pc = "stallWait" => \E i \in DOMAIN queue : queue[i] = c

-----------------------------------------------------------------------------
(* Liveness, of two cores (see TargetsAnswer) and an exchange that does not fail (see
   WaitsInQueue) *)

\* The lock is a first-come first-served lock whose owner always gives it back,
\* though the owner waits for other cores and those wait for the lock.  It holds for
\* two cores and an exchange that does not fail.
LockSpec == Lock!Spec

\* Of two cores, one that waits at the barrier of a remote call goes on: the target
\* answers, in user mode or while it waits for the lock itself.
RemoteCallReturns == TwoCores => \A c \in Cores : core[c].pc = "barrier" ~> core[c].pc # "barrier"

\* A stalled core runs a thread again: the core that stalled it asks it to
\* reschedule, "or this call will idle forever" (two cores, an exchange that does not fail).
StallEnds == \A c \in Cores : core[c].cur = "idle" ~> core[c].cur = "thread"

================================================================================
