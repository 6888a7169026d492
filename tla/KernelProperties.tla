-------------------------- MODULE KernelProperties ---------------------------
(***************************************************************************)
(* What the kernel of module Kernel promises.  The parts of the state      *)
(* invariants that one kernel function can disturb are predicates on a     *)
(* kernel state k, so that they can be stated of a state in the middle of  *)
(* a kernel entry too.                                                     *)
(***************************************************************************)
EXTENDS Fastpath

LoopType ==
  [obj : Endpoints \cup Notifications \cup {Null}, badge : Badges \cup {Null},
   todo : Seq(Threads), queue : Seq(Threads)]

\* Every variable has the type the C declarations give it, in every phase; a
\* time slice is never 0 (timerTick) and a loop only walks TCBs.
TypeOK ==
  /\ ks \in KState
  /\ phase \in {"user", "schedule"} \cup LoopPhases
  /\ loop \in LoopType

\* No assert() or fail() on the paths of endpoint.c, notification.c, thread.c,
\* tcb.c, cnode.c and syscall.c that are modelled fails, whatever the users do.
NoAssertionFails == ks.asserts

-----------------------------------------------------------------------------
(* Wait queues *)

NoDuplicates(q) == \A i, j \in DOMAIN q : q[i] = q[j] => i = j

\* The threads linked through object o: while a loop has detached the queue of
\* o, those it has not released yet.
EPWaiters(e) == IF loop.obj = e THEN loop.queue ELSE ks.epQueue[e]

NtfnWaiters(n) == IF loop.obj = n THEN loop.queue ELSE ks.ntfnQueue[n]

BlockedOnEP(t, e) ==
  ks.tsType[t] \in {"BlockedOnSend", "BlockedOnReceive"} /\ ks.blocking[t].obj = e

BlockedOnNtfn(t, n) ==
  ks.tsType[t] = "BlockedOnNotification" /\ ks.blocking[t].obj = n

\* The state of an endpoint or notification agrees with its queue.
EPStatesOK(k) == \A e \in Endpoints : k.epState[e] = "Idle" <=> k.epQueue[e] = <<>>

NtfnStatesOK(k) == \A n \in Notifications : k.ntfnState[n] = "Waiting" <=> k.ntfnQueue[n] # <<>>

\* A thread is linked in the queue of an endpoint exactly when its state says
\* it is blocked there, once, and the endpoint's state agrees with what the
\* threads in its queue wait for (endpoint.c dequeues by state alone).
EndpointQueues ==
  /\ EPStatesOK(ks)
  /\ \A e \in Endpoints :
      /\ NoDuplicates(EPWaiters(e))
      /\ \A t \in Threads : t \in ToSet(EPWaiters(e)) <=> BlockedOnEP(t, e)
      /\ \A t \in ToSet(ks.epQueue[e]) :
           ks.tsType[t] = IF ks.epState[e] = "Send" THEN "BlockedOnSend" ELSE "BlockedOnReceive"

\* The same for notifications: Waiting exactly when threads wait in the queue,
\* so no thread sleeps on a notification that holds a signal (notification.c).
NotificationQueues ==
  /\ NtfnStatesOK(ks)
  /\ \A n \in Notifications :
      /\ NoDuplicates(NtfnWaiters(n))
      /\ \A t \in Threads : t \in ToSet(NtfnWaiters(n)) <=> BlockedOnNtfn(t, n)

\* A reply cap is used at most once: there is at most one for a thread, and only
\* while the thread waits for the reply (doReplyTransfer, replyIPCCancel); a
\* thread blocked in a receive has an empty caller slot, so setupCallerCap never
\* overwrites a reply cap somebody waits on.
ReplyCaps ==
  /\ \A s \in ReplySlots : ks.replyCap[s] # Null => ks.tsType[ks.replyCap[s]] = "BlockedOnReply"
  /\ \A s1, s2 \in ReplySlots :
       ks.replyCap[s1] = ks.replyCap[s2] /\ ks.replyCap[s1] # Null => s1 = s2
  /\ \A t \in Threads : ks.tsType[t] = "BlockedOnReceive" => ks.replyCap[t] = Null

BoundOK(k) ==
  /\ \A t \in Threads, n \in Notifications :
       k.tcbBoundNotification[t] = n <=> k.ntfnBoundTCB[n] = t
  /\ \A n \in Notifications :
       k.ntfnBoundTCB[n] # Null => ToSet(k.ntfnQueue[n]) \subseteq {k.ntfnBoundTCB[n]}

\* TCBs and notifications are bound one to one, and nobody but the bound
\* thread waits on a bound notification (decodeBindNotification, handleRecv).
BoundNotifications == BoundOK(ks)

\* Nothing points to an object whose last cap is gone: no queue, no reply cap,
\* no binding, no scheduler action, and user code does not run in a deleted TCB;
\* nor does the object keep a cap, a binding or a waiter (what finaliseCap has to
\* undo before the memory can be retyped).
NoDanglingReferences ==
  /\ \A t \in Threads \ ks.live :
       /\ ks.tcbBoundNotification[t] = Null /\ ks.replyCap[t] = Null /\ ~ks.replyMaster[t]
       /\ ~ks.tcbQueued[t]
       /\ ks.ksSchedulerAction # t
       /\ phase = "user" => cur # t
       /\ \A s \in ReplySlots : ks.replyCap[s] # t
       /\ \A e \in Endpoints : t \notin ToSet(ks.epQueue[e])
       /\ \A n \in Notifications : t \notin ToSet(ks.ntfnQueue[n]) /\ ks.ntfnBoundTCB[n] # t
  /\ \A o \in (Endpoints \cup Notifications) \ ks.live, t \in Threads :
       ks.blocking[t].obj # o /\ ks.tcbBoundNotification[t] # o
  /\ \A e \in Endpoints \ ks.live : ks.epState[e] = "Idle"
  /\ \A n \in Notifications \ ks.live : ks.ntfnState[n] # "Waiting" /\ ks.ntfnBoundTCB[n] = Null

Before(q, a, b) == \E i, j \in DOMAIN q : i < j /\ q[i] = a /\ q[j] = b

\* q1 is q, served in turn: nobody gets in front of a thread of q who was not there
\* before, and if a message has moved, only the first thread of q has left.
InTurn(q, q1, moved) ==
  /\ \A a \in ToSet(q), b \in Threads : Before(q1, b, a) => Before(q, b, a)
  /\ \A a \in ToSet(q) \ ToSet(q1) : moved => a = Head(q)

\* Endpoint queues are first-come first-served: no step, the loop of
\* cancelBadgedSends included, puts a thread in front of one that stays queued
\* unless it was there before, and a transfer takes its partner from the head.
EndpointFIFO ==
  [][\A e \in Endpoints :
       InTurn(EPWaiters(e), EPWaiters(e)', ks'.transfer # NoTransfer)]_vars

-----------------------------------------------------------------------------
(* Scheduling *)

\* tcbQueued agrees with the ready queues: a queued thread is linked once, in
\* the queue of its own domain and priority, and no other thread is linked.
ReadyQueuesOK(k) ==
  \A i \in ReadyQueueIdx :
    /\ NoDuplicates(k.ksReadyQueues[i])
    /\ \A t \in Threads :
         t \in ToSet(k.ksReadyQueues[i]) <=> k.tcbQueued[t] /\ i = readyQueueOf(k, t)

\* The ready queues of tcb.c are consistent in every phase (setPriority and
\* setDomain move a thread between queues, suspend takes it out).
ReadyQueues == ReadyQueuesOK(ks)

\* The scheduler knows the runnable threads: a queued thread is runnable, and a
\* runnable thread runs, is queued, or is the candidate of the scheduler action
\* (rescheduleRequired queues the candidate it replaces).
NoThreadLost ==
  \A t \in Threads :
    /\ ks.tcbQueued[t] => isRunnable(ks, t)
    /\ isRunnable(ks, t) => t = cur \/ ks.tcbQueued[t] \/ ks.ksSchedulerAction = t

\* User code runs only in a runnable, unqueued thread of the active domain
\* (possibleSwitchTo must not make a thread of another domain the candidate).
CurrentThread ==
  phase = "user" =>
    /\ ks.ksSchedulerAction = ResumeCurrentThread
    /\ cur # IdleThread => /\ ks.tsType[cur] = "Running"
                           /\ ~ks.tcbQueued[cur]
                           /\ ks.tcbDomain[cur] = ks.ksCurDomain

\* No runnable thread of the active domain has a higher priority than the
\* thread that runs, and the idle thread runs only if there is none: the
\* shortcuts of schedule() for a candidate never skip a better thread.
\* threads.tex: "the highest priority thread in a runnable state is chosen".
HighestPriorityRuns ==
  phase = "user" =>
    \A t \in Threads :
      isRunnable(ks, t) /\ ks.tcbDomain[t] = ks.ksCurDomain =>
        cur # IdleThread /\ ks.tcbPriority[t] <= ks.tcbPriority[cur]

\* timerTick never decrements a ksDomainTime of 0, which would wrap around and
\* keep the domain active for ever: schedule() has called nextDomain by then,
\* for it never looks at the domain time unless the action is to choose anew.
DomainTimePositive ==
  /\ phase # "schedule" => ks.ksDomainTime > 0
  /\ ks.ksDomainTime = 0 => ks.ksSchedulerAction = ChooseNewThread

-----------------------------------------------------------------------------
(* Fast paths *)

\* What a kernel entry leaves whose slow-path handler has turned ks into k.
slowpath(k) == [activateThread(schedule(k)) EXCEPT !.transfer = NoTransfer]

\* Whenever fastpath.c commits to a Call or a ReplyRecv, it leaves the kernel in
\* the state the slow path would have left it in: the same thread runs, nobody is
\* queued who would not have been, endpoint queues and reply caps are the same.
FastpathAgrees ==
  phase = "user" /\ cur # IdleThread =>
    \A ep \in EPs :
      /\ \A canReply \in BOOLEAN, badge \in Badges :
           fastpath_call_ok(ks, ep, canReply) =>
             fastpath_call(ks, ep) = slowpath(finishInvocation(
               sendIPC(beginInvocation(ks), TRUE, TRUE, badge, canReply, cur, ep)))
      /\ fastpath_reply_recv_ok(ks, ep) =>
           fastpath_reply_recv(ks, ep) =
             slowpath(handleRecv(handleReply(ks, TRUE), ep, TRUE, Null))

-----------------------------------------------------------------------------
(* Progress *)

\* The kernel runs with interrupts off: once entered, it goes on.
FairSpec == Spec /\ WF_vars(KernelStep)

\* The timer keeps ticking: a tick that is pending when the kernel returns to
\* the user is taken before the user's next instruction.
TimedSpec == FairSpec /\ SF_vars(TimerInterrupt)

\* Round robin: a thread that stays runnable gets to run, however the other
\* threads of its priority use IPC, replies and Yield (timerTick, schedule()).
RoundRobin == \A t \in Threads : []<>(cur = t \/ ~isRunnable(ks, t))

=============================================================================
