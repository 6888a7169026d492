--------------------------- MODULE KernelInvariant ---------------------------
(***************************************************************************)
(* The inductive invariant that relates thread states to every queue, cap  *)
(* and pointer of the kernel.  Its parts are predicates on a kernel state  *)
(* k, or on the fields they look at, so that they can be stated of the     *)
(* states a kernel function passes through.                                *)
(***************************************************************************)
EXTENDS KernelProperties

EPBlocked == {"BlockedOnSend", "BlockedOnReceive"}

WaitStates == EPBlocked \cup {"BlockedOnNotification"}

\* ts and bl are the thread states, q the queues of the objects objs, which a
\* thread waits in while its state is one of kinds.  It is linked where its state
\* says, once, and nowhere else.
Linked(objs, kinds, ts, bl, q) ==
  \A o \in objs :
    /\ NoDuplicates(q[o])
    /\ \A t \in Threads : t \in ToSet(q[o]) <=> ts[t] \in kinds /\ bl[t].obj = o

EPLinked(ts, bl, eq) == Linked(Endpoints, EPBlocked, ts, bl, eq)

NtfnLinked(ts, bl, nq) == Linked(Notifications, {"BlockedOnNotification"}, ts, bl, nq)

\* The threads in the queue of an endpoint wait for what its state says.
EPKinds(ts, eq, es) ==
  \A e \in Endpoints : \A t \in ToSet(eq[e]) :
    ts[t] = IF es[e] = "Send" THEN "BlockedOnSend" ELSE "BlockedOnReceive"

\* A thread that waits in a queue records which object it waits for, and any
\* other thread records none.
BlockingOK(ts, bl) ==
  \A t \in Threads :
    /\ ts[t] \in EPBlocked => bl[t].obj \in Endpoints
    /\ ts[t] = "BlockedOnNotification" => bl[t].obj \in Notifications
    /\ ts[t] \notin WaitStates => bl[t] = NotBlocking

\* Reply caps, and the master reply cap of every thread that is not inactive.
RepliesOK(ts, rc, rm) ==
  /\ \A s \in ReplySlots : rc[s] # Null => ts[rc[s]] = "BlockedOnReply"
  /\ \A s1, s2 \in ReplySlots : rc[s1] = rc[s2] /\ rc[s1] # Null => s1 = s2
  /\ \A t \in Threads : ts[t] = "BlockedOnReceive" => rc[t] = Null
  /\ \A t \in Threads : ts[t] # "Inactive" => rm[t]

\* A TCB that does not exist is inactive and holds nothing; an endpoint or
\* notification that does not exist is not waited for.
LiveOK(k) ==
  /\ \A t \in Threads : t \notin k.live =>
       /\ k.tsType[t] = "Inactive" /\ ~k.replyMaster[t]
       /\ k.replyCap[t] = Null /\ k.tcbBoundNotification[t] = Null
  /\ \A t \in Threads : k.blocking[t].obj \in k.live \cup {Null}
  /\ \A e \in Endpoints : e \notin k.live => k.epState[e] = "Idle"
  /\ \A n \in Notifications : n \notin k.live =>
       k.ntfnState[n] # "Waiting" /\ k.ntfnBoundTCB[n] = Null

\* What does not depend on the wait queues.
ThreadsInv(k) ==
  /\ BlockingOK(k.tsType, k.blocking)
  /\ RepliesOK(k.tsType, k.replyCap, k.replyMaster)
  /\ LiveOK(k)

\* The objects: everything that scheduling does not touch.
ObjectsInv(k) ==
  /\ EPLinked(k.tsType, k.blocking, k.epQueue)
  /\ NtfnLinked(k.tsType, k.blocking, k.ntfnQueue)
  /\ EPKinds(k.tsType, k.epQueue, k.epState)
  /\ ThreadsInv(k)

-----------------------------------------------------------------------------
(* Scheduling *)

\* X is the set of threads in transit: those whose state a function has changed
\* and that it has not yet linked or unlinked.  Other than these, queued threads are
\* runnable, runnable threads are known to the scheduler, the
\* candidate may run in this domain, and so may the current thread if it goes on.
SchedulerInv(k, X) ==
  /\ \A t \in Threads \ X : k.tcbQueued[t] => isRunnable(k, t)
  /\ \A t \in Threads \ X :
       isRunnable(k, t) => t = k.ksCurThread \/ k.tcbQueued[t] \/ k.ksSchedulerAction = t
  /\ k.ksSchedulerAction \in Threads =>
       /\ k.ksSchedulerAction # k.ksCurThread
       /\ isRunnable(k, k.ksSchedulerAction)
       /\ k.tcbDomain[k.ksSchedulerAction] = k.ksCurDomain
  /\ k.ksSchedulerAction = ResumeCurrentThread =>
       \/ k.ksCurThread \in X \cup {IdleThread}
       \/ /\ isRunnable(k, k.ksCurThread)
          /\ ~k.tcbQueued[k.ksCurThread]
          /\ k.tcbDomain[k.ksCurThread] = k.ksCurDomain

\* Threads do not move between domains, or the best of their domain move them.
DomainsGuarded == NumDomains = 1 \/ "DomainSet" \notin Syscalls \/ DomainPrio = MaxPrio

\* Until somebody asks for a new choice, only the candidate can be better than the
\* current thread.
PriorityInv(k, X) ==
  DomainsGuarded /\ k.ksSchedulerAction # ChooseNewThread =>
    \A t \in Threads \ X :
      /\ isRunnable(k, t) /\ k.tcbDomain[t] = k.ksCurDomain
      /\ t # k.ksSchedulerAction
      => k.ksCurThread # IdleThread /\ k.tcbPriority[t] <= k.tcbPriority[k.ksCurThread]

QueuesInv(k, X) == ReadyQueuesOK(k) /\ SchedulerInv(k, X)

SchedInv(k, X) == QueuesInv(k, X) /\ PriorityInv(k, X)

\* What every kernel function leaves behind.
Consistent(k) == ObjectsInv(k) /\ SchedInv(k, {}) /\ k.asserts

-----------------------------------------------------------------------------
(* The loops over a queue, and the invariant *)

\* The queue of the object of a loop is the one the loop has detached.
EPQueues == [e \in Endpoints |-> EPWaiters(e)]

NtfnQueues == [n \in Notifications |-> NtfnWaiters(n)]

LoopInv ==
  /\ phase \notin LoopPhases => loop = NoLoop
  /\ phase \in LoopPhases => loop.obj \in ks.live /\ cur # IdleThread
  /\ phase = "cancelAllIPC" =>
       loop.obj \in Endpoints /\ loop.queue = loop.todo /\ ks.epState[loop.obj] = "Idle"
  /\ phase = "cancelBadgedSends" =>
       /\ loop.obj \in Endpoints /\ ks.epState[loop.obj] = "Idle"
       /\ NoDuplicates(loop.todo) /\ ToSet(loop.todo) \subseteq ToSet(loop.queue)
       /\ \A t \in ToSet(loop.queue) : ks.tsType[t] = "BlockedOnSend"
  /\ phase = "cancelAllSignals" =>
       /\ loop.obj \in Notifications /\ loop.queue = loop.todo
       /\ ks.ntfnState[loop.obj] = "Idle" /\ ks.ntfnBoundTCB[loop.obj] = Null

\* The inductive invariant.  Every thread is linked exactly where its state says, and
\* only while that object exists; reply caps name waiting callers; the scheduler knows
\* every runnable thread and, unless it is about to choose again, runs the best of them;
\* no assertion has failed.  It holds between the iterations of cancelAllIPC,
\* cancelBadgedSends and cancelAllSignals too (endpoint.c, notification.c, thread.c, tcb.c).
KernelInv ==
  /\ LoopInv
  /\ EPLinked(ks.tsType, ks.blocking, EPQueues)
  /\ NtfnLinked(ks.tsType, ks.blocking, NtfnQueues)
  /\ EPKinds(ks.tsType, ks.epQueue, ks.epState)
  /\ ThreadsInv(ks)
  /\ QueuesInv(ks, {})
  /\ phase \notin LoopPhases => PriorityInv(ks, {})
  /\ ks.asserts
  /\ phase = "user" =>
       /\ ks.ksSchedulerAction = ResumeCurrentThread
       /\ cur # IdleThread => ks.tsType[cur] = "Running"

=============================================================================
