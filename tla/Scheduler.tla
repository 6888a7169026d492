------------------------------ MODULE Scheduler ------------------------------
(***************************************************************************)
(* The non-MCS scheduler: the ready queues, the scheduler action, and      *)
(* schedule() itself (kernel/thread.c, the queues of object/tcb.c).        *)
(***************************************************************************)
EXTENDS KernelState

readyQueueOf(k, t) == <<k.tcbDomain[t], k.tcbPriority[t]>>

\* Add a TCB to the head of its ready queue, unless it is queued already.
tcbSchedEnqueue(k, t) ==
  IF k.tcbQueued[t] THEN k
  ELSE [k EXCEPT !.ksReadyQueues[readyQueueOf(k, t)] = <<t>> \o @,
                 !.tcbQueued[t] = TRUE]

\* Add a TCB to the end of its ready queue, unless it is queued already.
tcbSchedAppend(k, t) ==
  IF k.tcbQueued[t] THEN k
  ELSE [k EXCEPT !.ksReadyQueues[readyQueueOf(k, t)] = Append(@, t),
                 !.tcbQueued[t] = TRUE]

\* Remove a TCB from its ready queue.
tcbSchedDequeue(k, t) ==
  IF ~k.tcbQueued[t] THEN k
  ELSE [k EXCEPT !.ksReadyQueues[readyQueueOf(k, t)] = tcbEPDequeue(t, @),
                 !.tcbQueued[t] = FALSE]

\* Mutant of rescheduleRequired: the candidate is forgotten.
rescheduleRequired_DropsCandidate(k) == [k EXCEPT !.ksSchedulerAction = ChooseNewThread]

rescheduleRequired(k) ==
  LET k1 == IF k.ksSchedulerAction \in Threads
            THEN tcbSchedEnqueue(k, k.ksSchedulerAction) ELSE k
  IN  [k1 EXCEPT !.ksSchedulerAction = ChooseNewThread]

\* Mutant of possibleSwitchTo: the candidate's domain is not looked at.
possibleSwitchTo_AnyDomain(k, target) ==
  IF k.ksSchedulerAction # ResumeCurrentThread
  THEN tcbSchedEnqueue(rescheduleRequired(k), target)
  ELSE [k EXCEPT !.ksSchedulerAction = target]

possibleSwitchTo(k, target) ==
  IF k.ksCurDomain # k.tcbDomain[target] THEN tcbSchedEnqueue(k, target)
  ELSE IF k.ksSchedulerAction # ResumeCurrentThread
       THEN tcbSchedEnqueue(rescheduleRequired(k), target)
       ELSE [k EXCEPT !.ksSchedulerAction = target]

scheduleTCB(k, t) ==
  IF /\ t = k.ksCurThread
     /\ k.ksSchedulerAction = ResumeCurrentThread
     /\ ~isRunnable(k, t)
  THEN rescheduleRequired(k) ELSE k

setThreadState(k, t, ts) ==
  scheduleTCB([k EXCEPT !.tsType[t] = ts, !.blocking[t] = NotBlocking], t)

-----------------------------------------------------------------------------

nonEmptyPrios(k, dom) == {p \in Prios : k.ksReadyQueues[<<dom, p>>] # <<>>}

\* The two-level bitmap names the non-empty queues of a domain.
getHighestPrio(k, dom) ==
  CHOOSE p \in nonEmptyPrios(k, dom) : \A q \in nonEmptyPrios(k, dom) : q <= p

\* Mutant of isHighestPrio: off by one.
isHighestPrio_OffByOne(k, dom, prio) ==
  nonEmptyPrios(k, dom) = {} \/ prio + 1 >= getHighestPrio(k, dom)

isHighestPrio(k, dom, prio) ==
  nonEmptyPrios(k, dom) = {} \/ prio >= getHighestPrio(k, dom)

switchToThread(k, t) == [tcbSchedDequeue(k, t) EXCEPT !.ksCurThread = t]

switchToIdleThread(k) == [k EXCEPT !.ksCurThread = IdleThread]

chooseThread(k) ==
  LET dom    == k.ksCurDomain
      thread == Head(k.ksReadyQueues[<<dom, getHighestPrio(k, dom)>>])
  IN  IF nonEmptyPrios(k, dom) # {}
      THEN switchToThread(Assert_(k, isRunnable(k, thread)), thread)
      ELSE switchToIdleThread(k)

nextDomain(k) ==
  LET idx == IF k.ksDomScheduleIdx >= Len(DomSchedule) THEN 1
             ELSE k.ksDomScheduleIdx + 1
  IN  [k EXCEPT !.ksDomScheduleIdx = idx,
                !.ksCurDomain      = DomSchedule[idx].domain,
                !.ksDomainTime     = DomSchedule[idx].length]

\* Mutant of scheduleChooseNewThread: the domain never ends.
scheduleChooseNewThread_SameDomain(k) == chooseThread(k)

scheduleChooseNewThread(k) ==
  chooseThread(IF k.ksDomainTime = 0 THEN nextDomain(k) ELSE k)

\* The branch of schedule() for an action that names a candidate thread.
scheduleCandidate(k0, candidate, was_runnable) ==
  LET k        == Assert_(k0, isRunnable(k0, candidate))
      cur      == k.ksCurThread
      prio     == k.tcbPriority[candidate]
      fastfail == cur = IdleThread \/ prio < k.tcbPriority[cur]
  IN  IF fastfail /\ ~isHighestPrio(k, k.ksCurDomain, prio)
      THEN scheduleChooseNewThread(tcbSchedEnqueue(k, candidate))
      ELSE IF was_runnable /\ prio = k.tcbPriority[cur]
           THEN scheduleChooseNewThread(tcbSchedAppend(k, candidate))
           ELSE switchToThread(Assert_(k, candidate # cur), candidate)

schedule(k) ==
  LET action       == k.ksSchedulerAction
      was_runnable == isRunnable(k, k.ksCurThread)
      k1 == IF was_runnable THEN tcbSchedEnqueue(k, k.ksCurThread) ELSE k
      k2 == IF action = ResumeCurrentThread THEN k
            ELSE IF action = ChooseNewThread THEN scheduleChooseNewThread(k1)
                 ELSE scheduleCandidate(k1, action, was_runnable)
  IN  [k2 EXCEPT !.ksSchedulerAction = ResumeCurrentThread]

activateThread(k) ==
  LET cur == k.ksCurThread
  IN  IF cur = IdleThread THEN k
      ELSE IF k.tsType[cur] = "Restart" THEN setThreadState(k, cur, "Running")
           ELSE Assert_(k, k.tsType[cur] = "Running")

-----------------------------------------------------------------------------

\* Mutant of tickTimeSlice: a slice of 1 tick is counted down, not ended.
tickTimeSlice_OffByOne(k) ==
  LET t == k.ksCurThread
  IN  IF t = IdleThread \/ k.tsType[t] # "Running" THEN k
      ELSE IF k.tcbTimeSlice[t] > 0
           THEN [k EXCEPT !.tcbTimeSlice[t] = @ - 1]
           ELSE rescheduleRequired(tcbSchedAppend([k EXCEPT !.tcbTimeSlice[t] = TimeSlice], t))

\* Mutant of tickTimeSlice: a thread whose slice ends keeps the head of its queue.
tickTimeSlice_EnqueueAtHead(k) ==
  LET t == k.ksCurThread
  IN  IF t = IdleThread \/ k.tsType[t] # "Running" THEN k
      ELSE IF k.tcbTimeSlice[t] > 1
           THEN [k EXCEPT !.tcbTimeSlice[t] = @ - 1]
           ELSE rescheduleRequired(tcbSchedEnqueue([k EXCEPT !.tcbTimeSlice[t] = TimeSlice], t))

\* The part of timerTick that charges the current thread.
tickTimeSlice(k) ==
  LET t == k.ksCurThread
  IN  IF t = IdleThread \/ k.tsType[t] # "Running" THEN k
      ELSE IF k.tcbTimeSlice[t] > 1
           THEN [k EXCEPT !.tcbTimeSlice[t] = @ - 1]
           ELSE rescheduleRequired(tcbSchedAppend([k EXCEPT !.tcbTimeSlice[t] = TimeSlice], t))

timerTick(k) ==
  LET k1 == tickTimeSlice(k)
      k2 == [k1 EXCEPT !.ksDomainTime = @ - 1]
  IN  IF NumDomains = 1 THEN k1
      ELSE IF k2.ksDomainTime = 0 THEN rescheduleRequired(k2) ELSE k2

handleYield(k) ==
  rescheduleRequired(tcbSchedAppend(tcbSchedDequeue(k, k.ksCurThread), k.ksCurThread))

\* Mutant of setPriority: the thread stays linked in its old ready queue.
setPriority_StaysQueued(k, t, prio) ==
  LET k1 == [k EXCEPT !.tcbPriority[t] = prio]
  IN  IF ~isRunnable(k1, t) THEN k1
      ELSE IF t = k1.ksCurThread THEN rescheduleRequired(k1)
           ELSE possibleSwitchTo(k1, t)

setPriority(k, t, prio) ==
  LET k1 == [tcbSchedDequeue(k, t) EXCEPT !.tcbPriority[t] = prio]
  IN  IF ~isRunnable(k1, t) THEN k1
      ELSE IF t = k1.ksCurThread THEN rescheduleRequired(k1)
           ELSE possibleSwitchTo(k1, t)

setDomain(k, t, dom) ==
  LET k1 == [tcbSchedDequeue(k, t) EXCEPT !.tcbDomain[t] = dom]
      k2 == IF isRunnable(k1, t) THEN tcbSchedEnqueue(k1, t) ELSE k1
  IN  IF t = k2.ksCurThread THEN rescheduleRequired(k2) ELSE k2

=============================================================================
