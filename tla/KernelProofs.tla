---------------------------- MODULE KernelProofs -----------------------------
(***************************************************************************)
(* Proofs about module Kernel, for all values of its constants: type       *)
(* correctness, the domain time and the notification bindings.             *)
(*                                                                         *)
(* The three are proved together with what they rest on: the state of an   *)
(* endpoint or notification agrees with its queue, so that the head of a   *)
(* queue that is about to be served is a thread.  Kept(k, k1) says that a  *)
(* kernel function that turned k into k1 left all of this true and the     *)
(* domain time and the current thread alone; every function but timerTick  *)
(* and schedule has a lemma that says so.                                  *)
(***************************************************************************)
EXTENDS KernelProperties, SequenceTheorems, WellFoundedInduction, TLAPS

USE DistinctObjects, ConfigurationBounds, ActionsAreNotThreads

-----------------------------------------------------------------------------
(* Queues and priorities *)

\* Taking element n out of a sequence, which is how a TCB is unlinked.
LEMMA RemoveAtType ==
  ASSUME NEW S, NEW q \in Seq(S), NEW n \in 1 .. Len(q)
  PROVE  /\ RemoveAt(q, n) \in Seq(S)
         /\ ToSet(RemoveAt(q, n)) \subseteq ToSet(q)
<1> DEFINE a == SubSeq(q, 1, n - 1)
           b == SubSeq(q, n + 1, Len(q))
<1>1. /\ a \in Seq(S) /\ Len(a) = n - 1
      /\ \A i \in 1 .. (n - 1) : a[i] = q[i]
  BY SubSeqProperties
<1>2. /\ b \in Seq(S) /\ Len(b) = Len(q) - n
      /\ \A i \in 1 .. (Len(q) - n) : b[i] = q[n + i]
  BY SubSeqProperties
<1>3. RemoveAt(q, n) = a \o b
  BY DEF RemoveAt
<1> HIDE DEF a, b
<1>4. a \o b \in Seq(S)
  BY <1>1, <1>2
<1>5. ASSUME NEW i \in DOMAIN (a \o b) PROVE (a \o b)[i] \in ToSet(q)
  <2>1. i \in 1 .. Len(a) + Len(b)
        /\ (a \o b)[i] = IF i <= Len(a) THEN a[i] ELSE b[i - Len(a)]
    BY <1>1, <1>2, ConcatProperties
  <2>2. CASE i <= Len(a)
    BY <2>1, <2>2, <1>1 DEF ToSet
  <2>3. CASE i > Len(a)
    <3>1. i - Len(a) \in 1 .. (Len(q) - n)
      BY <2>1, <2>3, <1>1, <1>2, SMTT(40)
    <3>2. (a \o b)[i] = b[i - Len(a)]
      BY <2>1, <2>3, <1>1
    <3>3. b[i - Len(a)] = q[n + (i - Len(a))]
      BY <3>1, <1>2
    <3>4. n + (i - Len(a)) \in DOMAIN q
      BY <3>1, <1>1
    <3> QED BY <3>2, <3>3, <3>4 DEF ToSet
  <2> QED BY <2>1, <2>2, <2>3, <1>1
<1> QED BY <1>3, <1>4, <1>5 DEF ToSet

\* tcbEPDequeue unlinks and links nothing.
LEMMA DequeueType ==
  ASSUME NEW t \in Threads, NEW q \in Seq(Threads)
  PROVE  /\ tcbEPDequeue(t, q) \in Seq(Threads)
         /\ ToSet(tcbEPDequeue(t, q)) \subseteq ToSet(q)
<1>1. CASE t \in ToSet(q)
  <2>1. (CHOOSE i \in DOMAIN q : q[i] = t) \in 1 .. Len(q)
    BY <1>1 DEF ToSet
  <2> QED BY <1>1, <2>1, RemoveAtType DEF tcbEPDequeue
<1>2. CASE t \notin ToSet(q)
  BY <1>2 DEF tcbEPDequeue
<1> QED BY <1>1, <1>2

\* tcbEPAppend links one TCB.
LEMMA AppendType ==
  ASSUME NEW t \in Threads, NEW q \in Seq(Threads)
  PROVE  /\ tcbEPAppend(t, q) \in Seq(Threads)
         /\ ToSet(tcbEPAppend(t, q)) \subseteq ToSet(q) \cup {t}
BY DEF tcbEPAppend, ToSet

\* A set of priorities that is not empty has a greatest element.
LEMMA Maximum ==
  ASSUME NEW S, NEW n \in Nat, S \subseteq 0 .. n, S # {}
  PROVE  \E m \in S : \A x \in S : x <= m
<1> DEFINE R == OpToRel(<, Nat)
           T == {n - x : x \in S}
<1>1. IsWellFoundedOn(R, Nat)
  BY NatLessThanWellFounded
<1>2. ASSUME NEW x \in Nat, NEW y \in Nat, x < y PROVE <<x, y>> \in R
  BY <1>2 DEF OpToRel
<1> HIDE DEF R
<1>3. T \subseteq Nat
  OBVIOUS
<1>4. T # {}
  <2>1. PICK x0 \in S : TRUE
    OBVIOUS
  <2>2. n - x0 \in T
    OBVIOUS
  <2> QED BY <2>2
<1>5. PICK y \in T : \A z \in T : ~ (<<z, y>> \in R)
  BY <1>1, <1>3, <1>4, WFMin, Zenon
<1>6. PICK m \in S : y = n - m
  OBVIOUS
<1>7. ASSUME NEW x \in S PROVE x <= m
  <2>1. n - x \in T /\ n - x \in Nat /\ y \in Nat
    BY <1>6
  <2>2. ~ (n - x < y)
    BY <2>1, <1>5, <1>2
  <2> QED BY <2>2, <1>6
<1> QED BY <1>7

\* The priority that the bitmaps name is that of a queue with a thread in it.
LEMMA HighestPrioType ==
  ASSUME NEW k \in KState, NEW dom \in Domains, nonEmptyPrios(k, dom) # {}
  PROVE  /\ getHighestPrio(k, dom) \in Prios
         /\ Head(k.ksReadyQueues[<<dom, getHighestPrio(k, dom)>>]) \in Threads
<1>1. \E m \in nonEmptyPrios(k, dom) : \A x \in nonEmptyPrios(k, dom) : x <= m
  BY Maximum DEF nonEmptyPrios, Prios
<1>2. getHighestPrio(k, dom) \in nonEmptyPrios(k, dom)
  BY <1>1 DEF getHighestPrio
<1>3. /\ getHighestPrio(k, dom) \in Prios
      /\ k.ksReadyQueues[<<dom, getHighestPrio(k, dom)>>] # <<>>
  BY <1>2 DEF nonEmptyPrios
<1>4. k.ksReadyQueues[<<dom, getHighestPrio(k, dom)>>] \in Seq(Threads)
  BY <1>3 DEF KState, ReadyQueueIdx
<1> QED BY <1>3, <1>4

-----------------------------------------------------------------------------
(* The frame of the scheduler *)

SameObjects(k, k1) ==
  /\ k1.live = k.live
  /\ k1.tcbFault = k.tcbFault
  /\ k1.tcbBoundNotification = k.tcbBoundNotification
  /\ k1.replyMaster = k.replyMaster
  /\ k1.replyCap = k.replyCap
  /\ k1.epState = k.epState
  /\ k1.epQueue = k.epQueue
  /\ k1.ntfnState = k.ntfnState
  /\ k1.ntfnQueue = k.ntfnQueue
  /\ k1.ntfnMsgIdentifier = k.ntfnMsgIdentifier
  /\ k1.ntfnBoundTCB = k.ntfnBoundTCB
  /\ k1.transfer = k.transfer

\* What a function that schedules threads leaves alone; schedule() itself also
\* switches to another thread.
SameSwitch(k, k1) ==
  /\ SameObjects(k, k1)
  /\ k1.ksDomainTime = k.ksDomainTime

SameFrame(k, k1) ==
  /\ SameSwitch(k, k1)
  /\ k1.ksCurThread = k.ksCurThread

Switched(k, k1) ==
  /\ k1 \in KState
  /\ SameSwitch(k, k1)

Framed(k, k1) ==
  /\ k1 \in KState
  /\ SameFrame(k, k1)

\* How a step shows that it is framed.
LEMMA FramedIntro ==
  ASSUME NEW k, NEW k1 \in KState, SameFrame(k, k1)
  PROVE  Framed(k, k1)
BY DEF Framed, SameFrame, SameSwitch

\* The frames of two functions compose.
LEMMA FramedTrans ==
  ASSUME NEW k, NEW k1, NEW k2, Framed(k, k1), Framed(k1, k2)
  PROVE  Framed(k, k2)
BY DEF Framed, SameFrame, SameSwitch, SameObjects

\* A framed function may come before a switch.
LEMMA SwitchedTrans ==
  ASSUME NEW k, NEW k1, NEW k2, Framed(k, k1), Switched(k1, k2)
  PROVE  Switched(k, k2)
BY DEF Framed, SameFrame, SameSwitch, SameObjects, Switched

\* A function that does nothing is framed.
LEMMA FramedSelf ==
  ASSUME NEW k \in KState
  PROVE  Framed(k, k)
BY DEF Framed, SameFrame, SameSwitch, SameObjects

\* assert() and fail() only record what they saw.
LEMMA FramedAssert ==
  ASSUME NEW k \in KState, NEW c
  PROVE  Framed(k, Assert_(k, c))
<1>1. Assert_(k, c) \in KState
  BY ZenonT(40) DEF KState, Assert_
<1>2. SameFrame(k, Assert_(k, c))
  BY DEF SameFrame, SameSwitch, SameObjects, KState, Assert_
<1> QED BY <1>1, <1>2, FramedIntro

-----------------------------------------------------------------------------
(* The scheduler *)

\* The ready-queue functions touch the queue of the thread and tcbQueued.
LEMMA FramedEnqueue ==
  ASSUME NEW k \in KState, NEW t \in Threads
  PROVE  Framed(k, tcbSchedEnqueue(k, t))
<1>1. readyQueueOf(k, t) \in ReadyQueueIdx
  BY DEF readyQueueOf, ReadyQueueIdx, KState
<1>2. <<t>> \o k.ksReadyQueues[readyQueueOf(k, t)] \in Seq(Threads)
  BY <1>1 DEF KState
<1>3. tcbSchedEnqueue(k, t) \in KState
  BY <1>1, <1>2, ZenonT(40) DEF KState, tcbSchedEnqueue
<1>4. SameFrame(k, tcbSchedEnqueue(k, t))
  BY DEF SameFrame, SameSwitch, SameObjects, KState, tcbSchedEnqueue
<1> QED BY <1>3, <1>4, FramedIntro

\* tcbSchedAppend, the same at the other end.
LEMMA FramedAppend ==
  ASSUME NEW k \in KState, NEW t \in Threads
  PROVE  Framed(k, tcbSchedAppend(k, t))
<1>1. readyQueueOf(k, t) \in ReadyQueueIdx
  BY DEF readyQueueOf, ReadyQueueIdx, KState
<1>2. Append(k.ksReadyQueues[readyQueueOf(k, t)], t) \in Seq(Threads)
  BY <1>1 DEF KState
<1>3. tcbSchedAppend(k, t) \in KState
  BY <1>1, <1>2, ZenonT(40) DEF KState, tcbSchedAppend
<1>4. SameFrame(k, tcbSchedAppend(k, t))
  BY DEF SameFrame, SameSwitch, SameObjects, KState, tcbSchedAppend
<1> QED BY <1>3, <1>4, FramedIntro

\* tcbSchedDequeue, which unlinks.
LEMMA FramedDequeue ==
  ASSUME NEW k \in KState, NEW t \in Threads
  PROVE  Framed(k, tcbSchedDequeue(k, t))
<1>1. readyQueueOf(k, t) \in ReadyQueueIdx
  BY DEF readyQueueOf, ReadyQueueIdx, KState
<1>2. tcbEPDequeue(t, k.ksReadyQueues[readyQueueOf(k, t)]) \in Seq(Threads)
  BY <1>1, DequeueType DEF KState
<1>3. tcbSchedDequeue(k, t) \in KState
  BY <1>1, <1>2, ZenonT(40) DEF KState, tcbSchedDequeue
<1>4. SameFrame(k, tcbSchedDequeue(k, t))
  BY DEF SameFrame, SameSwitch, SameObjects, KState, tcbSchedDequeue
<1> QED BY <1>3, <1>4, FramedIntro

\* Storing a scheduler action.
LEMMA FramedAction ==
  ASSUME NEW k \in KState, NEW a \in Threads \cup {ResumeCurrentThread, ChooseNewThread}
  PROVE  Framed(k, [k EXCEPT !.ksSchedulerAction = a])
<1>1. [k EXCEPT !.ksSchedulerAction = a] \in KState
  BY DEF KState
<1>2. SameFrame(k, [k EXCEPT !.ksSchedulerAction = a])
  BY DEF SameFrame, SameSwitch, SameObjects, KState
<1> QED BY <1>1, <1>2, FramedIntro

\* rescheduleRequired queues the candidate it replaces.
LEMMA FramedReschedule ==
  ASSUME NEW k \in KState
  PROVE  /\ Framed(k, rescheduleRequired(k))
         /\ rescheduleRequired(k).ksSchedulerAction = ChooseNewThread
<1> DEFINE k1 == IF k.ksSchedulerAction \in Threads
                 THEN tcbSchedEnqueue(k, k.ksSchedulerAction) ELSE k
           k2 == [k1 EXCEPT !.ksSchedulerAction = ChooseNewThread]
<1>1. rescheduleRequired(k) = k2
  BY DEF rescheduleRequired
<1>2. Framed(k, k1)
  BY FramedEnqueue, FramedSelf
<1> HIDE DEF k1
<1>3. k1 \in KState
  BY <1>2 DEF Framed
<1>4. Framed(k1, k2)
  BY <1>3, FramedAction
<1>5. k2.ksSchedulerAction = ChooseNewThread
  BY <1>3 DEF KState
<1> QED BY <1>1, <1>2, <1>4, <1>5, FramedTrans

\* possibleSwitchTo makes the thread the candidate or queues it.
LEMMA FramedSwitch ==
  ASSUME NEW k \in KState, NEW t \in Threads
  PROVE  Framed(k, possibleSwitchTo(k, t))
<1>1. Framed(k, tcbSchedEnqueue(k, t))
  BY FramedEnqueue
<1>2. Framed(k, tcbSchedEnqueue(rescheduleRequired(k), t))
  BY FramedReschedule, FramedEnqueue, FramedTrans DEF Framed
<1>3. Framed(k, [k EXCEPT !.ksSchedulerAction = t])
  BY FramedAction
<1> QED BY <1>1, <1>2, <1>3 DEF possibleSwitchTo

\* scheduleTCB asks for a reschedule at most.
LEMMA FramedScheduleTCB ==
  ASSUME NEW k \in KState, NEW t
  PROVE  Framed(k, scheduleTCB(k, t))
BY FramedReschedule, FramedSelf DEF scheduleTCB

\* A thread state and what goes with it, as setThreadState and the blocking
\* paths of IPC store them.
LEMMA FramedState ==
  ASSUME NEW k \in KState, NEW t, NEW ts \in ThreadStates, NEW b \in Blocking
  PROVE  Framed(k, scheduleTCB([k EXCEPT !.tsType[t] = ts, !.blocking[t] = b], t))
<1> DEFINE k1 == [k EXCEPT !.tsType[t] = ts, !.blocking[t] = b]
<1>1. k1 \in KState
  BY DEF KState
<1>2. SameFrame(k, k1)
  BY DEF SameFrame, SameSwitch, SameObjects, KState
<1> HIDE DEF k1
<1>3. Framed(k, k1)
  BY <1>1, <1>2, FramedIntro
<1>4. Framed(k, scheduleTCB(k1, t))
  BY <1>1, <1>3, FramedScheduleTCB, FramedTrans
<1> QED BY <1>4 DEF k1

\* setThreadState, for a state that does not block.
LEMMA FramedSetThreadState ==
  ASSUME NEW k \in KState, NEW t, NEW ts \in ThreadStates
  PROVE  Framed(k, setThreadState(k, t, ts))
<1>1. NotBlocking \in Blocking
  BY DEF NotBlocking, Blocking
<1> QED BY <1>1, FramedState DEF setThreadState

\* switchToThread unlinks the thread and makes it current.
LEMMA SwitchToThreadSwitched ==
  ASSUME NEW k \in KState, NEW t \in Threads
  PROVE  Switched(k, switchToThread(k, t))
<1> DEFINE k1 == tcbSchedDequeue(k, t)
           k2 == [k1 EXCEPT !.ksCurThread = t]
<1>1. Framed(k, k1)
  BY FramedDequeue
<1> HIDE DEF k1
<1>2. k1 \in KState
  BY <1>1 DEF Framed
<1>3. k2 \in KState /\ SameSwitch(k1, k2)
  BY <1>2 DEF SameSwitch, SameObjects, KState
<1> HIDE DEF k2
<1>4. Switched(k1, k2)
  BY <1>3 DEF Switched
<1>5. Switched(k, k2)
  BY <1>1, <1>4, SwitchedTrans
<1> QED BY <1>5 DEF switchToThread, k1, k2

\* chooseThread switches to the head of the best queue or to the idle thread.
LEMMA ChooseThreadSwitched ==
  ASSUME NEW k \in KState
  PROVE  Switched(k, chooseThread(k))
<1> DEFINE dom    == k.ksCurDomain
           thread == Head(k.ksReadyQueues[<<dom, getHighestPrio(k, dom)>>])
<1>1. CASE nonEmptyPrios(k, dom) # {}
  <2>1. thread \in Threads
    BY <1>1, HighestPrioType DEF KState
  <2> HIDE DEF thread
  <2>2. Framed(k, Assert_(k, isRunnable(k, thread)))
    BY FramedAssert
  <2>3. Switched(k, switchToThread(Assert_(k, isRunnable(k, thread)), thread))
    BY <2>1, <2>2, SwitchToThreadSwitched, SwitchedTrans DEF Framed
  <2> QED BY <1>1, <2>3 DEF chooseThread, thread
<1>2. CASE nonEmptyPrios(k, dom) = {}
  <2>1. switchToIdleThread(k) \in KState /\ SameSwitch(k, switchToIdleThread(k))
    BY DEF switchToIdleThread, SameSwitch, SameObjects, KState
  <2> QED BY <1>2, <2>1 DEF chooseThread, Switched
<1> QED BY <1>1, <1>2

\* What schedule() leaves behind.
ScheduledOK(k, k1) ==
  /\ k1 \in KState
  /\ k1.ksDomainTime > 0
  /\ SameObjects(k, k1)

\* nextDomain starts a domain with all of its time.
LEMMA NextDomainScheduled ==
  ASSUME NEW k \in KState
  PROVE  ScheduledOK(k, nextDomain(k))
<1> DEFINE idx == IF k.ksDomScheduleIdx >= Len(DomSchedule) THEN 1
                  ELSE k.ksDomScheduleIdx + 1
<1>1. idx \in 1 .. Len(DomSchedule)
  BY DEF KState
<1>2. DomSchedule[idx] \in DomScheduleEntry
  BY <1>1
<1>3. DomSchedule[idx].domain \in Domains /\ DomSchedule[idx].length \in Nat \ {0}
  BY <1>2 DEF DomScheduleEntry
<1> HIDE DEF idx
<1> DEFINE k1 == [k EXCEPT !.ksDomScheduleIdx = idx,
                           !.ksCurDomain      = DomSchedule[idx].domain,
                           !.ksDomainTime     = DomSchedule[idx].length]
<1>4. k1 \in KState
  BY <1>1, <1>3 DEF KState
<1>5. k1.ksDomainTime > 0
  BY <1>3 DEF KState
<1>6. SameObjects(k, k1)
  BY DEF KState, SameObjects
<1>7. nextDomain(k) = k1
  BY DEF nextDomain, idx
<1> QED BY <1>4, <1>5, <1>6, <1>7 DEF ScheduledOK

\* A framed function may come before schedule().
LEMMA ScheduledTrans ==
  ASSUME NEW k, NEW k1, NEW k2, Framed(k, k1), ScheduledOK(k1, k2)
  PROVE  ScheduledOK(k, k2)
BY DEF Framed, SameFrame, SameSwitch, ScheduledOK, SameObjects

\* Once a domain has time, a switch does not take it away.
LEMMA ScheduledSwitched ==
  ASSUME NEW k, NEW k1, NEW k2, ScheduledOK(k, k1), Switched(k1, k2)
  PROVE  ScheduledOK(k, k2)
BY DEF Switched, SameSwitch, ScheduledOK, SameObjects

\* A framed function is a switch to the same thread.
LEMMA FramedIsSwitched ==
  ASSUME NEW k, NEW k1, Framed(k, k1)
  PROVE  Switched(k, k1)
BY DEF Framed, SameFrame, Switched

\* A switch in a domain that still has time.
LEMMA SwitchedIsScheduled ==
  ASSUME NEW k \in KState, NEW k1, Switched(k, k1), k.ksDomainTime # 0
  PROVE  ScheduledOK(k, k1)
BY SMTT(40) DEF Switched, SameSwitch, ScheduledOK, KState

\* scheduleChooseNewThread leaves the active domain with time to run.
LEMMA ChooseNewScheduled ==
  ASSUME NEW k \in KState
  PROVE  ScheduledOK(k, scheduleChooseNewThread(k))
<1>1. CASE k.ksDomainTime = 0
  <2>1. ScheduledOK(k, nextDomain(k))
    BY NextDomainScheduled
  <2>2. Switched(nextDomain(k), chooseThread(nextDomain(k)))
    BY <2>1, ChooseThreadSwitched DEF ScheduledOK
  <2> QED BY <1>1, <2>1, <2>2, ScheduledSwitched DEF scheduleChooseNewThread
<1>2. CASE k.ksDomainTime # 0
  <2>1. Switched(k, chooseThread(k))
    BY ChooseThreadSwitched
  <2> QED BY <1>2, <2>1, SwitchedIsScheduled DEF scheduleChooseNewThread
<1> QED BY <1>1, <1>2

\* The three ways schedule() treats a candidate.
LEMMA CandidateScheduled ==
  ASSUME NEW k \in KState, NEW t \in Threads, NEW b, k.ksDomainTime # 0
  PROVE  ScheduledOK(k, scheduleCandidate(k, t, b))
<1> DEFINE k1 == Assert_(k, isRunnable(k, t))
<1>1. Framed(k, k1) /\ k1 \in KState
  BY FramedAssert DEF Framed
<1> HIDE DEF k1
<1>2. ScheduledOK(k, scheduleChooseNewThread(tcbSchedEnqueue(k1, t)))
  BY <1>1, FramedEnqueue, ChooseNewScheduled, ScheduledTrans DEF Framed
<1>3. ScheduledOK(k, scheduleChooseNewThread(tcbSchedAppend(k1, t)))
  BY <1>1, FramedAppend, ChooseNewScheduled, ScheduledTrans DEF Framed
<1>4. ASSUME NEW c PROVE ScheduledOK(k, switchToThread(Assert_(k1, c), t))
  <2>1. Framed(k, Assert_(k1, c))
    BY <1>1, FramedAssert, FramedTrans
  <2>2. Switched(k, switchToThread(Assert_(k1, c), t))
    BY <2>1, SwitchToThreadSwitched, SwitchedTrans DEF Framed
  <2> QED BY <2>2, SwitchedIsScheduled
<1> QED BY <1>2, <1>3, <1>4 DEF scheduleCandidate, k1

\* schedule() never returns to a domain without time, if the end of a domain
\* made it choose a new thread.
LEMMA ScheduleScheduled ==
  ASSUME NEW k \in KState, k.ksDomainTime = 0 => k.ksSchedulerAction = ChooseNewThread
  PROVE  ScheduledOK(k, schedule(k))
<1> DEFINE action       == k.ksSchedulerAction
           was_runnable == isRunnable(k, k.ksCurThread)
           k1 == IF was_runnable THEN tcbSchedEnqueue(k, k.ksCurThread) ELSE k
           k2 == IF action = ResumeCurrentThread THEN k
                 ELSE IF action = ChooseNewThread THEN scheduleChooseNewThread(k1)
                      ELSE scheduleCandidate(k1, action, was_runnable)
           k3 == [k2 EXCEPT !.ksSchedulerAction = ResumeCurrentThread]
<1>1. was_runnable => k.ksCurThread \in Threads
  BY DEF isRunnable, KState
<1>2. Framed(k, k1)
  BY <1>1, FramedEnqueue, FramedSelf
<1>3. k1 \in KState /\ k1.ksDomainTime = k.ksDomainTime
  BY <1>2 DEF Framed, SameFrame, SameSwitch
<1> HIDE DEF k1, was_runnable
<1>4. ChooseNewThread # ResumeCurrentThread
  BY DEF ChooseNewThread, ResumeCurrentThread
<1>5. CASE action = ResumeCurrentThread
  <2>1. k.ksDomainTime # 0
    BY <1>4, <1>5
  <2> QED BY <1>5, <2>1, FramedSelf, FramedAction, FramedIsSwitched, SwitchedIsScheduled DEF schedule
<1>6. CASE action = ChooseNewThread
  <2>1. ScheduledOK(k, k2)
    BY <1>2, <1>3, <1>4, <1>6, ChooseNewScheduled, ScheduledTrans
  <2> QED BY <2>1, FramedAction, FramedIsSwitched, ScheduledSwitched DEF schedule, ScheduledOK, k1, was_runnable
<1>7. CASE action \in Threads
  <2>1. action # ResumeCurrentThread /\ action # ChooseNewThread
    BY <1>7
  <2>2. k1.ksDomainTime # 0
    BY <1>3, <2>1
  <2>3. ScheduledOK(k, k2)
    BY <1>2, <1>3, <1>7, <2>1, <2>2, CandidateScheduled, ScheduledTrans
  <2> QED BY <2>3, FramedAction, FramedIsSwitched, ScheduledSwitched DEF schedule, ScheduledOK, k1, was_runnable
<1> QED BY <1>5, <1>6, <1>7 DEF KState

\* activateThread restarts the current thread or leaves it running.
LEMMA FramedActivate ==
  ASSUME NEW k \in KState
  PROVE  Framed(k, activateThread(k))
<1>1. k.ksCurThread \in Threads \cup {IdleThread}
  BY DEF KState
<1>2. "Running" \in ThreadStates
  BY DEF ThreadStates, RunnableStates
<1> QED BY <1>1, <1>2, FramedSetThreadState, FramedAssert, FramedSelf DEF activateThread

\* A tick charges the current thread, whose slice stays positive.
LEMMA FramedTickTimeSlice ==
  ASSUME NEW k \in KState
  PROVE  Framed(k, tickTimeSlice(k))
<1> DEFINE t  == k.ksCurThread
           ka == [k EXCEPT !.tcbTimeSlice[t] = @ - 1]
           kb == [k EXCEPT !.tcbTimeSlice[t] = TimeSlice]
<1>1. CASE t = IdleThread \/ k.tsType[t] # "Running"
  BY <1>1, FramedSelf DEF tickTimeSlice
<1>2. CASE ~(t = IdleThread \/ k.tsType[t] # "Running")
  <2>1. t \in Threads
    BY <1>2 DEF KState
  <2> HIDE DEF t
  <2>2. k.tcbTimeSlice[t] > 1 => ka \in KState /\ SameFrame(k, ka)
    <3>1. k.tcbTimeSlice[t] \in 1 .. TimeSlice
      BY <2>1 DEF KState
    <3>2. k.tcbTimeSlice[t] > 1 => k.tcbTimeSlice[t] - 1 \in 1 .. TimeSlice
      BY <3>1
    <3>3. k.tcbTimeSlice[t] > 1 => ka \in KState
      BY <2>1, <3>2 DEF KState
    <3> QED BY <3>3, ZenonT(40) DEF KState, SameFrame, SameSwitch, SameObjects
  <2>3. kb \in KState /\ SameFrame(k, kb)
    <3>1. TimeSlice \in 1 .. TimeSlice
      OBVIOUS
    <3>2. kb \in KState
      BY <2>1, <3>1 DEF KState
    <3> QED BY <3>2 DEF KState, SameFrame, SameSwitch, SameObjects
  <2>4. Framed(k, kb)
    BY <2>3, FramedIntro
  <2> HIDE DEF ka, kb
  <2>5. Framed(kb, tcbSchedAppend(kb, t))
    BY <2>1, <2>3, FramedAppend
  <2>6. Framed(kb, rescheduleRequired(tcbSchedAppend(kb, t)))
    BY <2>5, FramedReschedule, FramedTrans DEF Framed
  <2>7. Framed(k, rescheduleRequired(tcbSchedAppend(kb, t)))
    BY <2>4, <2>6, FramedTrans
  <2>8. k.tcbTimeSlice[t] > 1 => Framed(k, ka)
    BY <2>2, FramedIntro
  <2> QED BY <1>2, <2>7, <2>8 DEF tickTimeSlice, ka, kb, t
<1> QED BY <1>1, <1>2

\* timerTick ends a domain by asking schedule() for a new choice.
LEMMA TimerTickType ==
  ASSUME NEW k \in KState, k.ksDomainTime > 0
  PROVE  /\ timerTick(k) \in KState
         /\ timerTick(k).ksDomainTime = 0 => timerTick(k).ksSchedulerAction = ChooseNewThread
         /\ SameObjects(k, timerTick(k))
<1> DEFINE k1 == tickTimeSlice(k)
           k2 == [k1 EXCEPT !.ksDomainTime = @ - 1]
<1>1. k1 \in KState /\ k1.ksDomainTime = k.ksDomainTime /\ SameObjects(k, k1)
  BY FramedTickTimeSlice DEF Framed, SameFrame, SameSwitch
<1> HIDE DEF k1
<1>2. k2 \in KState
  <2>1. k1.ksDomainTime - 1 \in Nat
    BY <1>1 DEF KState
  <2> QED BY <1>1, <2>1 DEF KState
<1>3. SameObjects(k1, k2)
  BY <1>1 DEF KState, SameObjects
<1> HIDE DEF k2
<1>4. SameObjects(k, k2)
  BY <1>1, <1>3 DEF SameObjects
<1>5. /\ Framed(k2, rescheduleRequired(k2))
      /\ rescheduleRequired(k2).ksSchedulerAction = ChooseNewThread
  BY <1>2, FramedReschedule
<1>6. SameObjects(k, rescheduleRequired(k2))
  BY <1>4, <1>5 DEF Framed, SameFrame, SameSwitch, SameObjects
<1>7. timerTick(k) = IF NumDomains = 1 THEN k1
                     ELSE IF k2.ksDomainTime = 0 THEN rescheduleRequired(k2) ELSE k2
  BY DEF timerTick, k1, k2
<1> QED BY <1>1, <1>2, <1>4, <1>5, <1>6, <1>7 DEF Framed, SameFrame, SameSwitch

\* handleYield moves the current thread to the end of its queue.
LEMMA FramedYield ==
  ASSUME NEW k \in KState, k.ksCurThread \in Threads
  PROVE  Framed(k, handleYield(k))
<1> DEFINE t  == k.ksCurThread
           k1 == tcbSchedDequeue(k, t)
           k2 == tcbSchedAppend(k1, t)
<1>1. Framed(k, k1) /\ k1 \in KState
  BY FramedDequeue DEF Framed
<1>2. Framed(k1, k2) /\ k2 \in KState
  BY <1>1, FramedAppend DEF Framed
<1>3. Framed(k, rescheduleRequired(k2))
  BY <1>1, <1>2, FramedReschedule, FramedTrans
<1> QED BY <1>3 DEF handleYield

\* setPriority moves a thread between ready queues.
LEMMA FramedSetPriority ==
  ASSUME NEW k \in KState, NEW t \in Threads, NEW p \in Prios
  PROVE  Framed(k, setPriority(k, t, p))
<1> DEFINE k0 == tcbSchedDequeue(k, t)
           k1 == [k0 EXCEPT !.tcbPriority[t] = p]
<1>1. Framed(k, k0) /\ k0 \in KState
  BY FramedDequeue DEF Framed
<1> HIDE DEF k0
<1>2. k1 \in KState /\ SameFrame(k0, k1)
  BY <1>1 DEF KState, SameFrame, SameSwitch, SameObjects
<1>3. Framed(k, k1)
  BY <1>1, <1>2, FramedIntro, FramedTrans
<1> HIDE DEF k1
<1>4. Framed(k, rescheduleRequired(k1)) /\ Framed(k, possibleSwitchTo(k1, t))
  BY <1>2, <1>3, FramedReschedule, FramedSwitch, FramedTrans
<1> QED BY <1>3, <1>4 DEF setPriority, k0, k1

\* setDomain moves a thread between the queues of two domains.
LEMMA FramedSetDomain ==
  ASSUME NEW k \in KState, NEW t \in Threads, NEW dom \in Domains
  PROVE  Framed(k, setDomain(k, t, dom))
<1> DEFINE k0 == tcbSchedDequeue(k, t)
           k1 == [k0 EXCEPT !.tcbDomain[t] = dom]
           k2 == IF isRunnable(k1, t) THEN tcbSchedEnqueue(k1, t) ELSE k1
<1>1. Framed(k, k0) /\ k0 \in KState
  BY FramedDequeue DEF Framed
<1> HIDE DEF k0
<1>2. k1 \in KState /\ SameFrame(k0, k1)
  BY <1>1 DEF KState, SameFrame, SameSwitch, SameObjects
<1>3. Framed(k, k1)
  BY <1>1, <1>2, FramedIntro, FramedTrans
<1> HIDE DEF k1
<1>4. Framed(k, k2) /\ k2 \in KState
  BY <1>2, <1>3, FramedEnqueue, FramedTrans DEF Framed
<1> HIDE DEF k2
<1>5. Framed(k, rescheduleRequired(k2))
  BY <1>4, FramedReschedule, FramedTrans
<1> QED BY <1>4, <1>5 DEF setDomain, k0, k1, k2

-----------------------------------------------------------------------------
(* The kernel *)

ObjectsOK(k) == BoundOK(k) /\ EPStatesOK(k) /\ NtfnStatesOK(k)

OK(k) == k \in KState /\ ObjectsOK(k)

Kept(k, k1) ==
  /\ OK(k1)
  /\ k1.ksDomainTime = k.ksDomainTime
  /\ k1.ksCurThread = k.ksCurThread

\* The parts of the state that OK and Kept look at.
SameQueues(k, k1) ==
  /\ k1.tcbBoundNotification = k.tcbBoundNotification
  /\ k1.epState = k.epState
  /\ k1.epQueue = k.epQueue
  /\ k1.ntfnState = k.ntfnState
  /\ k1.ntfnQueue = k.ntfnQueue
  /\ k1.ntfnBoundTCB = k.ntfnBoundTCB
  /\ k1.ksDomainTime = k.ksDomainTime
  /\ k1.ksCurThread = k.ksCurThread

\* The bindings depend on three fields of the state.
LEMMA BoundSame ==
  ASSUME NEW k, NEW k1, BoundOK(k),
         k1.tcbBoundNotification = k.tcbBoundNotification,
         k1.ntfnBoundTCB = k.ntfnBoundTCB,
         k1.ntfnQueue = k.ntfnQueue
  PROVE  BoundOK(k1)
BY DEF BoundOK

\* What two functions keep, one after the other keeps.
LEMMA KeptTrans ==
  ASSUME NEW k, NEW k1, NEW k2, Kept(k, k1), Kept(k1, k2)
  PROVE  Kept(k, k2)
BY DEF Kept

\* A function that does nothing keeps everything.
LEMMA KeptSelf ==
  ASSUME NEW k, OK(k)
  PROVE  Kept(k, k)
BY DEF Kept

\* A function that leaves the queues alone keeps what is said of them.
LEMMA KeptSame ==
  ASSUME NEW k, NEW k1 \in KState, OK(k), SameQueues(k, k1)
  PROVE  Kept(k, k1)
<1>1. BoundOK(k1)
  BY BoundSame DEF OK, ObjectsOK, SameQueues
<1>2. EPStatesOK(k1) /\ NtfnStatesOK(k1)
  BY DEF OK, ObjectsOK, EPStatesOK, NtfnStatesOK, SameQueues
<1> QED BY <1>1, <1>2 DEF Kept, OK, ObjectsOK, SameQueues

\* What ObjectsOK says is about fields that no scheduling function touches.
LEMMA SameObjectsOK ==
  ASSUME NEW k, NEW k1, ObjectsOK(k), SameObjects(k, k1)
  PROVE  ObjectsOK(k1)
<1>1. BoundOK(k1)
  BY BoundSame DEF ObjectsOK, SameObjects
<1> QED BY <1>1 DEF ObjectsOK, EPStatesOK, NtfnStatesOK, SameObjects

\* The functions of the scheduler leave the queues of the objects alone.
LEMMA KeptFramed ==
  ASSUME NEW k, NEW k1, OK(k), Framed(k, k1)
  PROVE  Kept(k, k1)
<1>1. SameQueues(k, k1) /\ k1 \in KState
  BY DEF Framed, SameFrame, SameSwitch, SameObjects, SameQueues
<1> QED BY <1>1, KeptSame

\* setThreadState, as all of IPC uses it.
LEMMA KeptSetThreadState ==
  ASSUME NEW k, OK(k), NEW t, NEW ts \in ThreadStates
  PROVE  Kept(k, setThreadState(k, t, ts))
BY FramedSetThreadState, KeptFramed DEF OK

\* possibleSwitchTo, as all of IPC uses it.
LEMMA KeptSwitch ==
  ASSUME NEW k, OK(k), NEW t \in Threads
  PROVE  Kept(k, possibleSwitchTo(k, t))
BY FramedSwitch, KeptFramed DEF OK

\* A thread that is made runnable and offered to the scheduler.
LEMMA KeptWake ==
  ASSUME NEW k, OK(k), NEW t \in Threads, NEW ts \in ThreadStates
  PROVE  Kept(k, possibleSwitchTo(setThreadState(k, t, ts), t))
BY KeptSetThreadState, KeptSwitch, KeptTrans DEF Kept

\* assert() and fail() only record what they saw.
LEMMA KeptAssert ==
  ASSUME NEW k, OK(k), NEW c
  PROVE  Kept(k, Assert_(k, c))
BY FramedAssert, KeptFramed DEF OK

-----------------------------------------------------------------------------
(* Reply caps, faults and transfers leave the queues alone *)

\* cteDeleteOne clears one slot.
LEMMA KeptDeleteOne ==
  ASSUME NEW k, OK(k), NEW slot
  PROVE  Kept(k, cteDeleteOne(k, slot))
<1>1. cteDeleteOne(k, slot) \in KState
  BY DEF OK, KState, cteDeleteOne
<1>2. SameQueues(k, cteDeleteOne(k, slot))
  BY DEF OK, KState, SameQueues, cteDeleteOne
<1> QED BY <1>1, <1>2, KeptSame

\* Storing a fault or clearing it.
LEMMA KeptFault ==
  ASSUME NEW k, OK(k), NEW t, NEW b \in BOOLEAN
  PROVE  Kept(k, [k EXCEPT !.tcbFault[t] = b])
<1> DEFINE k1 == [k EXCEPT !.tcbFault[t] = b]
<1>1. k1 \in KState
  BY DEF OK, KState
<1>2. SameQueues(k, k1)
  BY DEF OK, KState, SameQueues
<1> QED BY <1>1, <1>2, KeptSame

\* doIPCTransfer records what it delivers.
LEMMA KeptTransfer ==
  ASSUME NEW k, OK(k), NEW sender, NEW isCall \in BOOLEAN
  PROVE  Kept(k, doIPCTransfer(k, sender, isCall))
<1> DEFINE x == [label |-> IF k.tcbFault[sender] THEN "Fault" ELSE "Normal", isCall |-> isCall]
           k1 == [k EXCEPT !.transfer = x]
<1>1. x \in [label : {"None", "Normal", "Fault"}, isCall : BOOLEAN]
  OBVIOUS
<1> HIDE DEF x
<1>2. k1 \in KState
  BY <1>1 DEF OK, KState
<1>3. SameQueues(k, k1)
  BY DEF OK, KState, SameQueues
<1> QED BY <1>2, <1>3, KeptSame DEF doIPCTransfer, x

\* setupReplyMaster writes one slot of the TCB.
LEMMA KeptReplyMaster ==
  ASSUME NEW k, OK(k), NEW t
  PROVE  Kept(k, setupReplyMaster(k, t))
<1> DEFINE k0 == Assert_(k, callerSlots(k, t) = {})
           k1 == [k0 EXCEPT !.replyMaster[t] = TRUE]
<1>1. Kept(k, k0) /\ OK(k0)
  BY KeptAssert DEF Kept
<1> HIDE DEF k0
<1>2. k1 \in KState
  BY <1>1 DEF OK, KState
<1>3. SameQueues(k0, k1)
  BY <1>1 DEF OK, KState, SameQueues
<1>4. Kept(k, k1)
  BY <1>1, <1>2, <1>3, KeptSame, KeptTrans
<1> QED BY <1>4, KeptSelf DEF setupReplyMaster, k0

\* setupCallerCap blocks the sender and writes the receiver's caller slot.
LEMMA KeptCallerCap ==
  ASSUME NEW k, OK(k), NEW sender \in Threads, NEW receiver
  PROVE  Kept(k, setupCallerCap(k, sender, receiver))
<1> DEFINE k1 == setThreadState(k, sender, "BlockedOnReply")
           k2 == Assert_(k1, k1.replyMaster[sender] /\ k1.replyCap[receiver] = Null)
           k3 == [k2 EXCEPT !.replyCap[receiver] = sender]
<1>1. Kept(k, k1) /\ OK(k1)
  BY KeptSetThreadState DEF Kept, ThreadStates, StoppedStates
<1> HIDE DEF k1
<1>2. Kept(k, k2) /\ OK(k2)
  BY <1>1, KeptAssert, KeptTrans DEF Kept
<1> HIDE DEF k2
<1>3. k3 \in KState
  BY <1>2 DEF OK, KState
<1>4. SameQueues(k2, k3)
  BY <1>2 DEF OK, KState, SameQueues
<1>5. Kept(k, k3)
  BY <1>2, <1>3, <1>4, KeptSame, KeptTrans
<1> QED BY <1>5 DEF setupCallerCap, k1, k2

-----------------------------------------------------------------------------
(* Endpoints *)

\* An endpoint is given a queue and the state that goes with it.
LEMMA KeptEndpoint ==
  ASSUME NEW k, OK(k), NEW ep, NEW q, NEW st,
         ep \in Endpoints => /\ q \in Seq(Threads)
                             /\ st \in EPStates
                             /\ st = "Idle" <=> q = <<>>
  PROVE  Kept(k, [k EXCEPT !.epQueue[ep] = q, !.epState[ep] = st])
<1> DEFINE k1 == [k EXCEPT !.epQueue[ep] = q, !.epState[ep] = st]
<1>1. k1 \in KState
  <2>1. k.epQueue \in [Endpoints -> Seq(Threads)] /\ k.epState \in [Endpoints -> EPStates]
    BY DEF OK, KState
  <2>2. [k.epQueue EXCEPT ![ep] = q] \in [Endpoints -> Seq(Threads)]
    BY <2>1
  <2>3. [k.epState EXCEPT ![ep] = st] \in [Endpoints -> EPStates]
    BY <2>1
  <2> QED BY <2>2, <2>3 DEF OK, KState
<1>2. /\ k1.tcbBoundNotification = k.tcbBoundNotification
      /\ k1.ntfnState = k.ntfnState
      /\ k1.ntfnQueue = k.ntfnQueue
      /\ k1.ntfnBoundTCB = k.ntfnBoundTCB
      /\ k1.ksDomainTime = k.ksDomainTime
      /\ k1.ksCurThread = k.ksCurThread
      /\ k1.epQueue = [k.epQueue EXCEPT ![ep] = q]
      /\ k1.epState = [k.epState EXCEPT ![ep] = st]
  BY DEF OK, KState
<1> HIDE DEF k1
<1>3. EPStatesOK(k1)
  <2>1. k.epQueue \in [Endpoints -> Seq(Threads)] /\ k.epState \in [Endpoints -> EPStates]
    BY DEF OK, KState
  <2>2. EPStatesOK(k)
    BY DEF OK, ObjectsOK
  <2>3. ASSUME NEW e \in Endpoints PROVE k1.epState[e] = "Idle" <=> k1.epQueue[e] = <<>>
    <3>1. CASE e = ep
      BY <3>1, <1>2, <2>1
    <3>2. CASE e # ep
      BY <3>2, <1>2, <2>1, <2>2 DEF EPStatesOK
    <3> QED BY <3>1, <3>2
  <2> QED BY <2>3 DEF EPStatesOK
<1>4. BoundOK(k1) /\ NtfnStatesOK(k1)
  BY <1>2 DEF OK, ObjectsOK, BoundOK, NtfnStatesOK
<1>5. Kept(k, k1)
  BY <1>1, <1>2, <1>3, <1>4 DEF Kept, OK, ObjectsOK
<1> QED BY <1>5 DEF k1

\* epDequeue: the endpoint turns idle exactly when its queue empties.
LEMMA KeptEPDequeue ==
  ASSUME NEW k, OK(k), NEW ep, NEW t \in Threads
  PROVE  Kept(k, epDequeue(k, ep, t))
<1> DEFINE q  == tcbEPDequeue(t, k.epQueue[ep])
           st == IF q = <<>> THEN "Idle" ELSE k.epState[ep]
<1>1. ASSUME ep \in Endpoints
      PROVE  q \in Seq(Threads) /\ st \in EPStates /\ (st = "Idle" <=> q = <<>>)
  <2>1. k.epQueue[ep] \in Seq(Threads) /\ k.epState[ep] \in EPStates
    BY <1>1 DEF OK, KState
  <2>2. q \in Seq(Threads)
    BY <2>1, DequeueType
  <2>3. q # <<>> => k.epQueue[ep] # <<>>
    BY DEF tcbEPDequeue, ToSet
  <2>4. q # <<>> => k.epState[ep] # "Idle"
    BY <1>1, <2>3 DEF OK, ObjectsOK, EPStatesOK
  <2> HIDE DEF q
  <2> QED BY <2>1, <2>2, <2>4 DEF EPStates
<1> HIDE DEF q, st
<1>2. Kept(k, [k EXCEPT !.epQueue[ep] = q, !.epState[ep] = st])
  BY <1>1, KeptEndpoint
<1>3. epDequeue(k, ep, t) = [k EXCEPT !.epQueue[ep] = q, !.epState[ep] = st]
  BY DEF epDequeue, q, st, OK, KState
<1> QED BY <1>2, <1>3

\* epBlock: a thread that blocks makes the endpoint busy.
LEMMA KeptEPBlock ==
  ASSUME NEW k, OK(k), NEW ep \in Endpoints, NEW t \in Threads, NEW ts \in ThreadStates,
         NEW epst \in EPStates, epst # "Idle", NEW info \in Blocking
  PROVE  Kept(k, epBlock(k, ep, t, ts, epst, info))
<1> DEFINE k1 == scheduleTCB([k EXCEPT !.tsType[t] = ts, !.blocking[t] = info], t)
           q  == tcbEPAppend(t, k1.epQueue[ep])
<1>1. Kept(k, k1) /\ OK(k1)
  <2>1. Framed(k, k1)
    BY FramedState DEF OK
  <2> QED BY <2>1, KeptFramed DEF Kept
<1> HIDE DEF k1
<1>2. k1.epQueue[ep] \in Seq(Threads)
  BY <1>1 DEF OK, KState
<1>3. q \in Seq(Threads) /\ q # <<>>
  BY <1>2, AppendType DEF tcbEPAppend
<1> HIDE DEF q
<1>4. Kept(k1, [k1 EXCEPT !.epQueue[ep] = q, !.epState[ep] = epst])
  BY <1>1, <1>3, KeptEndpoint
<1>5. epBlock(k, ep, t, ts, epst, info) = [k1 EXCEPT !.epQueue[ep] = q, !.epState[ep] = epst]
  BY DEF epBlock, k1, q
<1> QED BY <1>1, <1>4, <1>5, KeptTrans

\* The head of a queue whose endpoint is not idle is a thread.
LEMMA EPHead ==
  ASSUME NEW k, OK(k), NEW ep \in Endpoints, k.epState[ep] # "Idle"
  PROVE  Head(k.epQueue[ep]) \in Threads
<1>1. k.epQueue[ep] \in Seq(Threads) /\ k.epQueue[ep] # <<>>
  BY DEF OK, KState, ObjectsOK, EPStatesOK
<1> QED BY <1>1

\* sendIPC: rendezvous with the first receiver, or block.
LEMMA KeptSendIPC ==
  ASSUME NEW k, OK(k), NEW blocking, NEW do_call \in BOOLEAN, NEW badge \in Badges,
         NEW canReply \in BOOLEAN, NEW thread \in Threads, NEW ep \in Endpoints
  PROVE  Kept(k, sendIPC(k, blocking, do_call, badge, canReply, thread, ep))
<1> DEFINE dest == Head(k.epQueue[ep])
           k0   == Assert_(k, k.epQueue[ep] # <<>>)
           k1   == epDequeue(k0, ep, dest)
           k2   == doIPCTransfer(k1, thread, do_call)
           k3   == possibleSwitchTo(setThreadState(k2, dest, "Running"), dest)
           info == [obj |-> ep, badge |-> badge, canReply |-> canReply, isCall |-> do_call]
<1> HIDE DEF info
<1>1. CASE k.epState[ep] = "Recv"
  <2>1. dest \in Threads
    BY <1>1, EPHead
  <2> HIDE DEF dest
  <2>2. Kept(k, k0) /\ OK(k0)
    BY KeptAssert DEF Kept
  <2> HIDE DEF k0
  <2>3. Kept(k0, k1) /\ OK(k1)
    BY <2>1, <2>2, KeptEPDequeue DEF Kept
  <2> HIDE DEF k1
  <2>4. Kept(k1, k2) /\ OK(k2)
    BY <2>3, KeptTransfer DEF Kept
  <2> HIDE DEF k2
  <2>5. Kept(k2, k3) /\ OK(k3)
    BY <2>1, <2>4, KeptWake DEF Kept, ThreadStates, RunnableStates
  <2> HIDE DEF k3
  <2>6. Kept(k, k3)
    BY <2>2, <2>3, <2>4, <2>5, KeptTrans
  <2>7. Kept(k, setupCallerCap(k3, thread, dest))
    BY <2>5, <2>6, KeptCallerCap, KeptTrans
  <2>8. Kept(k, setThreadState(k3, thread, "Inactive"))
    BY <2>5, <2>6, KeptSetThreadState, KeptTrans DEF ThreadStates, StoppedStates
  <2> QED BY <1>1, <2>6, <2>7, <2>8 DEF sendIPC, k3, k2, k1, k0, dest
<1>2. CASE k.epState[ep] # "Recv"
  <2>1. info \in Blocking
    BY DEF Blocking, info
  <2>2. Kept(k, epBlock(k, ep, thread, "BlockedOnSend", "Send", info))
    BY <2>1, KeptEPBlock DEF ThreadStates, StoppedStates, EPStates
  <2> QED BY <1>2, <2>2, KeptSelf DEF sendIPC, info
<1> QED BY <1>1, <1>2

-----------------------------------------------------------------------------
(* Notifications *)

\* A notification is given a queue, with no thread that was not in it or is not
\* the bound one, and the state that goes with it.
LEMMA KeptNotification ==
  ASSUME NEW k, OK(k), NEW n, NEW q, NEW st,
         n \in Notifications => /\ q \in Seq(Threads)
                                /\ st \in NtfnStates
                                /\ st = "Waiting" <=> q # <<>>
                                /\ ToSet(q) \subseteq ToSet(k.ntfnQueue[n])
                                     \/ ToSet(q) \subseteq {k.ntfnBoundTCB[n]}
                                     \/ k.ntfnBoundTCB[n] = Null
  PROVE  Kept(k, [k EXCEPT !.ntfnQueue[n] = q, !.ntfnState[n] = st])
<1> DEFINE k1 == [k EXCEPT !.ntfnQueue[n] = q, !.ntfnState[n] = st]
<1>0. k.ntfnQueue \in [Notifications -> Seq(Threads)] /\ k.ntfnState \in [Notifications -> NtfnStates]
  BY DEF OK, KState
<1>1. k1 \in KState
  <2>1. [k.ntfnQueue EXCEPT ![n] = q] \in [Notifications -> Seq(Threads)]
    BY <1>0
  <2>2. [k.ntfnState EXCEPT ![n] = st] \in [Notifications -> NtfnStates]
    BY <1>0
  <2> QED BY <2>1, <2>2 DEF OK, KState
<1>2. /\ k1.tcbBoundNotification = k.tcbBoundNotification
      /\ k1.epState = k.epState
      /\ k1.epQueue = k.epQueue
      /\ k1.ntfnBoundTCB = k.ntfnBoundTCB
      /\ k1.ksDomainTime = k.ksDomainTime
      /\ k1.ksCurThread = k.ksCurThread
      /\ k1.ntfnQueue = [k.ntfnQueue EXCEPT ![n] = q]
      /\ k1.ntfnState = [k.ntfnState EXCEPT ![n] = st]
  BY DEF OK, KState
<1> HIDE DEF k1
<1>3. BoundOK(k) /\ NtfnStatesOK(k) /\ EPStatesOK(k)
  BY DEF OK, ObjectsOK
<1>4. ASSUME NEW m \in Notifications
      PROVE  /\ k1.ntfnState[m] = "Waiting" <=> k1.ntfnQueue[m] # <<>>
             /\ k1.ntfnBoundTCB[m] # Null => ToSet(k1.ntfnQueue[m]) \subseteq {k1.ntfnBoundTCB[m]}
  <2>1. CASE m = n
    <3>1. k1.ntfnQueue[m] = q /\ k1.ntfnState[m] = st
      BY <2>1, <1>0, <1>2
    <3>2. k.ntfnBoundTCB[m] # Null => ToSet(k.ntfnQueue[m]) \subseteq {k.ntfnBoundTCB[m]}
      BY <1>3 DEF BoundOK
    <3> QED BY <2>1, <3>1, <3>2, <1>2
  <2>2. CASE m # n
    <3>1. k1.ntfnQueue[m] = k.ntfnQueue[m] /\ k1.ntfnState[m] = k.ntfnState[m]
      BY <2>2, <1>0, <1>2
    <3> QED BY <3>1, <1>2, <1>3 DEF BoundOK, NtfnStatesOK
  <2> QED BY <2>1, <2>2
<1>5. BoundOK(k1)
  BY <1>2, <1>3, <1>4 DEF BoundOK
<1>6. NtfnStatesOK(k1) /\ EPStatesOK(k1)
  BY <1>2, <1>3, <1>4 DEF NtfnStatesOK, EPStatesOK
<1>7. Kept(k, k1)
  BY <1>1, <1>2, <1>5, <1>6 DEF Kept, OK, ObjectsOK
<1> QED BY <1>7 DEF k1

\* A waiter is unlinked, and the notification turns idle if it was the last.
LEMMA KeptNtfnDequeue ==
  ASSUME NEW k, OK(k), NEW n, NEW t \in Threads
  PROVE  LET q == tcbEPDequeue(t, k.ntfnQueue[n])
         IN  Kept(k, [k EXCEPT !.ntfnQueue[n] = q,
                               !.ntfnState[n] = IF q = <<>> THEN "Idle" ELSE @])
<1> DEFINE q  == tcbEPDequeue(t, k.ntfnQueue[n])
           st == IF q = <<>> THEN "Idle" ELSE k.ntfnState[n]
<1>1. ASSUME n \in Notifications
      PROVE  /\ q \in Seq(Threads) /\ st \in NtfnStates /\ (st = "Waiting" <=> q # <<>>)
             /\ ToSet(q) \subseteq ToSet(k.ntfnQueue[n])
  <2>1. k.ntfnQueue[n] \in Seq(Threads) /\ k.ntfnState[n] \in NtfnStates
    BY <1>1 DEF OK, KState
  <2>2. q \in Seq(Threads) /\ ToSet(q) \subseteq ToSet(k.ntfnQueue[n])
    BY <2>1, DequeueType
  <2>3. q # <<>> => k.ntfnQueue[n] # <<>>
    BY DEF tcbEPDequeue, ToSet
  <2>4. q # <<>> => k.ntfnState[n] = "Waiting"
    BY <1>1, <2>3 DEF OK, ObjectsOK, NtfnStatesOK
  <2> HIDE DEF q
  <2> QED BY <2>1, <2>2, <2>4 DEF NtfnStates
<1> HIDE DEF q, st
<1>2. Kept(k, [k EXCEPT !.ntfnQueue[n] = q, !.ntfnState[n] = st])
  BY <1>1, KeptNotification
<1>3. [k EXCEPT !.ntfnQueue[n] = q, !.ntfnState[n] = IF q = <<>> THEN "Idle" ELSE @]
        = [k EXCEPT !.ntfnQueue[n] = q, !.ntfnState[n] = st]
  BY DEF st, OK, KState
<1> QED BY <1>2, <1>3 DEF q

\* A notification nobody waits on changes its state and its word.
LEMMA KeptNtfnState ==
  ASSUME NEW k, OK(k), NEW n \in Notifications, k.ntfnState[n] # "Waiting",
         NEW st \in NtfnStates, st # "Waiting"
  PROVE  Kept(k, [k EXCEPT !.ntfnState[n] = st])
<1> DEFINE k1 == [k EXCEPT !.ntfnState[n] = st]
<1>1. k1 \in KState
  BY DEF OK, KState
<1>2. /\ k1.tcbBoundNotification = k.tcbBoundNotification
      /\ k1.epState = k.epState
      /\ k1.epQueue = k.epQueue
      /\ k1.ntfnBoundTCB = k.ntfnBoundTCB
      /\ k1.ksDomainTime = k.ksDomainTime
      /\ k1.ksCurThread = k.ksCurThread
      /\ k1.ntfnQueue = k.ntfnQueue
      /\ k1.ntfnState = [k.ntfnState EXCEPT ![n] = st]
      /\ k.ntfnState \in [Notifications -> NtfnStates]
  BY DEF OK, KState
<1> HIDE DEF k1
<1>3. BoundOK(k1) /\ EPStatesOK(k1)
  <2>1. BoundOK(k) /\ EPStatesOK(k)
    BY DEF OK, ObjectsOK
  <2>2. BoundOK(k1)
    BY <1>2, <2>1, BoundSame
  <2>3. EPStatesOK(k1)
    BY <1>2, <2>1 DEF EPStatesOK
  <2> QED BY <2>2, <2>3
<1>4. NtfnStatesOK(k1)
  BY <1>2 DEF OK, ObjectsOK, NtfnStatesOK
<1>5. Kept(k, k1)
  BY <1>1, <1>2, <1>3, <1>4 DEF Kept, OK, ObjectsOK
<1> QED BY <1>5 DEF k1

\* The word of a notification.
LEMMA KeptNtfnWord ==
  ASSUME NEW k, OK(k), NEW n \in Notifications, NEW w \in SUBSET SignalBits
  PROVE  Kept(k, [k EXCEPT !.ntfnMsgIdentifier[n] = w])
<1> DEFINE k1 == [k EXCEPT !.ntfnMsgIdentifier[n] = w]
<1>1. k1 \in KState
  BY DEF OK, KState
<1>2. SameQueues(k, k1)
  BY DEF OK, KState, SameQueues
<1> QED BY <1>1, <1>2, KeptSame

\* completeSignal: the receiver takes the signal of its bound notification.
LEMMA KeptCompleteSignal ==
  ASSUME NEW k, OK(k), NEW n \in Notifications, k.ntfnState[n] = "Active"
  PROVE  Kept(k, completeSignal(k, n))
<1> DEFINE k1 == Assert_(k, k.ntfnState[n] = "Active")
<1>1. Kept(k, k1) /\ OK(k1)
  BY KeptAssert DEF Kept
<1>2. k1.ntfnState[n] # "Waiting"
  BY DEF Assert_, OK, KState
<1> HIDE DEF k1
<1>3. Kept(k1, [k1 EXCEPT !.ntfnState[n] = "Idle"])
  BY <1>1, <1>2, KeptNtfnState DEF NtfnStates
<1> QED BY <1>1, <1>3, KeptTrans DEF completeSignal, k1

\* receiveIPC: take a pending signal, rendezvous with the first sender, or block.
LEMMA KeptReceiveIPC ==
  ASSUME NEW k, OK(k), NEW thread \in Threads, NEW ep \in Endpoints, NEW isBlocking
  PROVE  Kept(k, receiveIPC(k, thread, ep, isBlocking))
<1> DEFINE ntfn   == k.tcbBoundNotification[thread]
           sender == Head(k.epQueue[ep])
           info   == k.blocking[sender]
           k0     == Assert_(k, k.epQueue[ep] # <<>>)
           k1     == epDequeue(k0, ep, sender)
           k2     == doIPCTransfer(k1, sender, info.isCall)
           wait   == [NotBlocking EXCEPT !.obj = ep]
<1> HIDE DEF wait
<1>1. CASE ntfn # Null /\ k.ntfnState[ntfn] = "Active"
  <2>1. ntfn \in Notifications
    BY <1>1 DEF OK, KState
  <2> QED BY <1>1, <2>1, KeptCompleteSignal DEF receiveIPC
<1>2. CASE ~(ntfn # Null /\ k.ntfnState[ntfn] = "Active") /\ k.epState[ep] = "Send"
  <2>1. sender \in Threads
    BY <1>2, EPHead
  <2>2. info.isCall \in BOOLEAN
    BY <2>1 DEF OK, KState, Blocking
  <2> HIDE DEF sender, info
  <2>3. Kept(k, k0) /\ OK(k0)
    BY KeptAssert DEF Kept
  <2> HIDE DEF k0
  <2>4. Kept(k0, k1) /\ OK(k1)
    BY <2>1, <2>3, KeptEPDequeue DEF Kept
  <2> HIDE DEF k1
  <2>5. Kept(k1, k2) /\ OK(k2)
    BY <2>2, <2>4, KeptTransfer DEF Kept
  <2> HIDE DEF k2
  <2>6. Kept(k, k2)
    BY <2>3, <2>4, <2>5, KeptTrans
  <2>7. Kept(k, possibleSwitchTo(setThreadState(k2, sender, "Running"), sender))
    BY <2>1, <2>5, <2>6, KeptWake, KeptTrans DEF ThreadStates, RunnableStates
  <2>8. Kept(k, setupCallerCap(k2, sender, thread))
    BY <2>1, <2>5, <2>6, KeptCallerCap, KeptTrans
  <2>9. Kept(k, setThreadState(k2, sender, "Inactive"))
    BY <2>1, <2>5, <2>6, KeptSetThreadState, KeptTrans DEF ThreadStates, StoppedStates
  <2> QED BY <1>2, <2>7, <2>8, <2>9 DEF receiveIPC, k2, k1, k0, sender, info
<1>3. CASE ~(ntfn # Null /\ k.ntfnState[ntfn] = "Active") /\ k.epState[ep] # "Send"
  <2>1. wait \in Blocking
    BY DEF wait, NotBlocking, Blocking
  <2>2. Kept(k, epBlock(k, ep, thread, "BlockedOnReceive", "Recv", wait))
    BY <2>1, KeptEPBlock DEF ThreadStates, StoppedStates, EPStates
  <2> QED BY <1>3, <2>2, KeptSelf DEF receiveIPC, wait
<1> QED BY <1>1, <1>2, <1>3

-----------------------------------------------------------------------------
(* Cancelling *)

\* cancelSignal takes the thread out of the queue it waits in.
LEMMA KeptCancelSignal ==
  ASSUME NEW k, OK(k), NEW t \in Threads, NEW n
  PROVE  Kept(k, cancelSignal(k, t, n))
<1> DEFINE k1 == Assert_(k, k.ntfnState[n] = "Waiting")
           q  == tcbEPDequeue(t, k1.ntfnQueue[n])
           k2 == [k1 EXCEPT !.ntfnQueue[n] = q,
                            !.ntfnState[n] = IF q = <<>> THEN "Idle" ELSE @]
<1>1. Kept(k, k1) /\ OK(k1)
  BY KeptAssert DEF Kept
<1> HIDE DEF k1
<1>2. Kept(k1, k2) /\ OK(k2)
  BY <1>1, KeptNtfnDequeue DEF Kept
<1> HIDE DEF k2
<1>3. Kept(k, setThreadState(k2, t, "Inactive"))
  BY <1>1, <1>2, KeptSetThreadState, KeptTrans DEF ThreadStates, StoppedStates
<1> QED BY <1>3 DEF cancelSignal, k2, k1

\* The endpoint case of cancelIPC does the same for an endpoint.
LEMMA KeptBlockedIPCCancel ==
  ASSUME NEW k, OK(k), NEW t \in Threads, NEW ep
  PROVE  Kept(k, blockedIPCCancel(k, t, ep))
<1> DEFINE k1 == Assert_(k, k.epState[ep] # "Idle")
           k2 == epDequeue(k1, ep, t)
<1>1. Kept(k, k1) /\ OK(k1)
  BY KeptAssert DEF Kept
<1> HIDE DEF k1
<1>2. Kept(k1, k2) /\ OK(k2)
  BY <1>1, KeptEPDequeue DEF Kept
<1> HIDE DEF k2
<1>3. Kept(k, setThreadState(k2, t, "Inactive"))
  BY <1>1, <1>2, KeptSetThreadState, KeptTrans DEF ThreadStates, StoppedStates
<1> QED BY <1>3 DEF blockedIPCCancel, k2, k1

\* The reply case of cancelIPC clears the fault and the caller cap.
LEMMA KeptReplyIPCCancel ==
  ASSUME NEW k, OK(k), NEW t
  PROVE  Kept(k, replyIPCCancel(k, t))
<1> DEFINE k1 == [k EXCEPT !.tcbFault[t] = FALSE]
<1>1. Kept(k, k1) /\ OK(k1)
  BY KeptFault DEF Kept
<1> HIDE DEF k1
<1>2. ASSUME NEW slot PROVE Kept(k, cteDeleteOne(k1, slot))
  BY <1>1, KeptDeleteOne, KeptTrans
<1> QED BY <1>1, <1>2 DEF replyIPCCancel, k1

\* cancelIPC, whatever the thread is blocked on.
LEMMA KeptCancelIPC ==
  ASSUME NEW k, OK(k), NEW t \in Threads
  PROVE  Kept(k, cancelIPC(k, t))
BY KeptBlockedIPCCancel, KeptCancelSignal, KeptReplyIPCCancel, KeptSelf DEF cancelIPC

\* suspend cancels, stops and unlinks the thread.
LEMMA KeptSuspend ==
  ASSUME NEW k, OK(k), NEW t \in Threads
  PROVE  Kept(k, suspend(k, t))
<1> DEFINE k1 == cancelIPC(k, t)
           k2 == setThreadState(k1, t, "Inactive")
<1>1. Kept(k, k1) /\ OK(k1)
  BY KeptCancelIPC DEF Kept
<1> HIDE DEF k1
<1>2. Kept(k1, k2) /\ OK(k2)
  BY <1>1, KeptSetThreadState DEF Kept, ThreadStates, StoppedStates
<1> HIDE DEF k2
<1>3. Framed(k2, tcbSchedDequeue(k2, t))
  BY <1>2, FramedDequeue DEF OK
<1>4. Kept(k2, tcbSchedDequeue(k2, t))
  BY <1>2, <1>3, KeptFramed
<1> QED BY <1>1, <1>2, <1>4, KeptTrans DEF suspend, k1, k2

\* restart cancels and offers the thread to the scheduler.
LEMMA KeptRestart ==
  ASSUME NEW k, OK(k), NEW t \in Threads
  PROVE  Kept(k, restart(k, t))
<1> DEFINE k0 == cancelIPC(k, t)
           ka == setupReplyMaster(k0, t)
           k1 == setThreadState(ka, t, "Restart")
           k2 == tcbSchedEnqueue(k1, t)
<1>1. Kept(k, k0) /\ OK(k0)
  BY KeptCancelIPC DEF Kept
<1> HIDE DEF k0
<1>2. Kept(k, ka) /\ OK(ka)
  BY <1>1, KeptReplyMaster, KeptTrans DEF Kept
<1> HIDE DEF ka
<1>3. Kept(k, k1) /\ OK(k1)
  BY <1>2, KeptSetThreadState, KeptTrans DEF Kept, ThreadStates, RunnableStates
<1> HIDE DEF k1
<1>4. Framed(k1, k2)
  BY <1>3, FramedEnqueue DEF OK
<1>5. Kept(k, k2) /\ OK(k2)
  BY <1>3, <1>4, KeptFramed, KeptTrans DEF Kept
<1> HIDE DEF k2
<1>6. Kept(k, possibleSwitchTo(k2, t))
  BY <1>5, KeptSwitch, KeptTrans
<1> QED BY <1>6, KeptSelf DEF restart, k2, k1, ka, k0

-----------------------------------------------------------------------------
(* Signals and bindings *)

\* ntfn_set_active on a notification nobody waits on.
LEMMA KeptSetActive ==
  ASSUME NEW k, OK(k), NEW n \in Notifications, k.ntfnState[n] # "Waiting",
         NEW badge \in SUBSET SignalBits
  PROVE  Kept(k, ntfn_set_active(k, n, badge))
<1> DEFINE k1 == [k EXCEPT !.ntfnState[n] = "Active"]
           k2 == [k1 EXCEPT !.ntfnMsgIdentifier[n] = badge]
<1>1. ntfn_set_active(k, n, badge) = k2
  BY DEF ntfn_set_active, OK, KState
<1>2. Kept(k, k1) /\ OK(k1)
  BY KeptNtfnState DEF NtfnStates, Kept
<1> HIDE DEF k1
<1>3. Kept(k1, k2)
  BY <1>2, KeptNtfnWord
<1> QED BY <1>1, <1>2, <1>3, KeptTrans

\* sendSignal: deliver to the bound receiver or the first waiter, or remember.
LEMMA KeptSendSignal ==
  ASSUME NEW k, OK(k), NEW n \in Notifications, NEW badge \in SUBSET SignalBits
  PROVE  Kept(k, sendSignal(k, n, badge))
<1> DEFINE bound == k.ntfnBoundTCB[n]
           dest  == Head(k.ntfnQueue[n])
           k1    == Assert_(k, k.ntfnQueue[n] # <<>>)
           q     == tcbEPDequeue(dest, k1.ntfnQueue[n])
           k2    == [k1 EXCEPT !.ntfnQueue[n] = q,
                               !.ntfnState[n] = IF q = <<>> THEN "Idle" ELSE @]
<1>1. CASE k.ntfnState[n] = "Idle"
  <2>1. bound # Null => bound \in Threads
    BY DEF OK, KState
  <2> HIDE DEF bound
  <2>2. bound # Null =>
          Kept(k, possibleSwitchTo(setThreadState(cancelIPC(k, bound), bound, "Running"), bound))
    <3>1. bound # Null => Kept(k, cancelIPC(k, bound)) /\ OK(cancelIPC(k, bound))
      BY <2>1, KeptCancelIPC DEF Kept
    <3> QED BY <2>1, <3>1, KeptWake, KeptTrans DEF ThreadStates, RunnableStates
  <2>3. Kept(k, ntfn_set_active(k, n, badge))
    BY <1>1, KeptSetActive
  <2> QED BY <1>1, <2>2, <2>3 DEF sendSignal, bound
<1>2. CASE k.ntfnState[n] = "Waiting"
  <2>1. k.ntfnQueue[n] \in Seq(Threads) /\ k.ntfnQueue[n] # <<>>
    BY <1>2 DEF OK, KState, ObjectsOK, NtfnStatesOK
  <2>2. dest \in Threads
    BY <2>1
  <2> HIDE DEF dest
  <2>3. Kept(k, k1) /\ OK(k1)
    BY KeptAssert DEF Kept
  <2> HIDE DEF k1
  <2>4. Kept(k1, k2) /\ OK(k2)
    BY <2>2, <2>3, KeptNtfnDequeue DEF Kept
  <2> HIDE DEF k2
  <2>5. Kept(k, possibleSwitchTo(setThreadState(k2, dest, "Running"), dest))
    BY <2>2, <2>3, <2>4, KeptWake, KeptTrans DEF ThreadStates, RunnableStates
  <2> QED BY <1>2, <2>5 DEF sendSignal, k2, k1, dest
<1>3. CASE k.ntfnState[n] = "Active"
  <2> DEFINE w == k.ntfnMsgIdentifier[n] \cup badge
  <2>1. w \in SUBSET SignalBits
    BY DEF OK, KState
  <2>2. Kept(k, [k EXCEPT !.ntfnMsgIdentifier[n] = w])
    BY <2>1, KeptNtfnWord
  <2>3. sendSignal(k, n, badge) = [k EXCEPT !.ntfnMsgIdentifier[n] = w]
    BY <1>3 DEF sendSignal
  <2> QED BY <2>2, <2>3
<1> QED BY <1>1, <1>2, <1>3 DEF OK, KState, NtfnStates

\* receiveSignal by a thread that may wait: the bound one if there is one.
LEMMA KeptReceiveSignal ==
  ASSUME NEW k, OK(k), NEW t \in Threads, NEW n \in Notifications, NEW isBlocking,
         k.ntfnBoundTCB[n] \in {Null, t}
  PROVE  Kept(k, receiveSignal(k, t, n, isBlocking))
<1> DEFINE info == [NotBlocking EXCEPT !.obj = n]
           k1   == scheduleTCB([k EXCEPT !.tsType[t] = "BlockedOnNotification",
                                         !.blocking[t] = info], t)
           q    == tcbEPAppend(t, k1.ntfnQueue[n])
           k2   == [k1 EXCEPT !.ntfnQueue[n] = q, !.ntfnState[n] = "Waiting"]
<1>1. info \in Blocking
  BY DEF NotBlocking, Blocking
<1> HIDE DEF info
<1>2. Framed(k, k1)
  BY <1>1, FramedState DEF OK, ThreadStates, StoppedStates
<1>3. Kept(k, k1) /\ OK(k1) /\ k1.ntfnBoundTCB = k.ntfnBoundTCB
  BY <1>2, KeptFramed DEF Kept, Framed, SameFrame, SameSwitch, SameObjects
<1> HIDE DEF k1
<1>4. k1.ntfnQueue[n] \in Seq(Threads)
  BY <1>3 DEF OK, KState
<1>5. q \in Seq(Threads) /\ q # <<>> /\ ToSet(q) \subseteq ToSet(k1.ntfnQueue[n]) \cup {t}
  BY <1>4, AppendType DEF tcbEPAppend
<1> HIDE DEF q
<1>6. k1.ntfnBoundTCB[n] # Null => ToSet(q) \subseteq {k1.ntfnBoundTCB[n]}
  BY <1>3, <1>5 DEF OK, ObjectsOK, BoundOK
<1>7. Kept(k, k2)
  BY <1>3, <1>5, <1>6, KeptNotification, KeptTrans DEF NtfnStates
<1>8. k2 = [k1 EXCEPT !.ntfnState[n] = "Waiting", !.ntfnQueue[n] = q]
  BY <1>3 DEF OK, KState
<1>9. k.ntfnState[n] = "Active" => Kept(k, [k EXCEPT !.ntfnState[n] = "Idle"])
  BY KeptNtfnState DEF NtfnStates
<1> HIDE DEF k2
<1> QED BY <1>7, <1>8, <1>9, KeptSelf DEF receiveSignal, q, k1, info

\* A binding is made or undone on both sides.
LEMMA KeptBinding ==
  ASSUME NEW k, OK(k), NEW t \in Threads, NEW n \in Notifications,
         NEW nb \in Threads \cup {Null}, NEW tb \in Notifications \cup {Null},
         \/ /\ nb = t /\ tb = n
            /\ k.tcbBoundNotification[t] = Null
            /\ k.ntfnBoundTCB[n] = Null
            /\ k.ntfnQueue[n] = <<>>
         \/ /\ nb = Null /\ tb = Null
            /\ k.ntfnBoundTCB[n] = t
  PROVE  Kept(k, [k EXCEPT !.ntfnBoundTCB[n] = nb, !.tcbBoundNotification[t] = tb])
<1> DEFINE k1 == [k EXCEPT !.ntfnBoundTCB[n] = nb, !.tcbBoundNotification[t] = tb]
<1>1. k1 \in KState
  BY DEF OK, KState
<1>2. /\ k1.tcbBoundNotification = [k.tcbBoundNotification EXCEPT ![t] = tb]
      /\ k1.ntfnBoundTCB = [k.ntfnBoundTCB EXCEPT ![n] = nb]
      /\ k1.epState = k.epState
      /\ k1.epQueue = k.epQueue
      /\ k1.ksDomainTime = k.ksDomainTime
      /\ k1.ksCurThread = k.ksCurThread
      /\ k1.ntfnQueue = k.ntfnQueue
      /\ k1.ntfnState = k.ntfnState
      /\ k.tcbBoundNotification \in [Threads -> Notifications \cup {Null}]
      /\ k.ntfnBoundTCB \in [Notifications -> Threads \cup {Null}]
  BY DEF OK, KState
<1> HIDE DEF k1
<1>3. BoundOK(k) /\ EPStatesOK(k) /\ NtfnStatesOK(k)
  BY DEF OK, ObjectsOK
<1>4. ASSUME NEW u \in Threads, NEW m \in Notifications
      PROVE  k1.tcbBoundNotification[u] = m <=> k1.ntfnBoundTCB[m] = u
  BY <1>2, <1>3 DEF BoundOK
<1>5. ASSUME NEW m \in Notifications, k1.ntfnBoundTCB[m] # Null
      PROVE  ToSet(k1.ntfnQueue[m]) \subseteq {k1.ntfnBoundTCB[m]}
  <2>1. CASE m = n
    BY <1>2, <1>5, <2>1 DEF ToSet
  <2>2. CASE m # n
    BY <1>2, <1>3, <1>5, <2>2 DEF BoundOK
  <2> QED BY <2>1, <2>2
<1>6. BoundOK(k1)
  BY <1>4, <1>5 DEF BoundOK
<1>7. EPStatesOK(k1) /\ NtfnStatesOK(k1)
  BY <1>2, <1>3 DEF EPStatesOK, NtfnStatesOK
<1>8. Kept(k, k1)
  BY <1>1, <1>2, <1>6, <1>7 DEF Kept, OK, ObjectsOK
<1> QED BY <1>8 DEF k1

\* bindNotification, after the checks of decodeBindNotification.
LEMMA KeptBind ==
  ASSUME NEW k, OK(k), NEW t \in Threads, NEW n \in Notifications,
         k.tcbBoundNotification[t] = Null, k.ntfnBoundTCB[n] = Null, k.ntfnQueue[n] = <<>>
  PROVE  Kept(k, bindNotification(k, t, n))
BY KeptBinding DEF bindNotification

\* unbindNotification and unbindMaybeNotification undo both sides.
LEMMA KeptUnbind ==
  ASSUME NEW k, OK(k)
  PROVE  /\ \A t \in Threads : Kept(k, unbindNotification(k, t))
         /\ \A n \in Notifications : Kept(k, unbindMaybeNotification(k, n))
<1>1. ASSUME NEW t \in Threads, NEW n \in Notifications, k.ntfnBoundTCB[n] = t
      PROVE  Kept(k, doUnbindNotification(k, n, t))
  BY <1>1, KeptBinding DEF doUnbindNotification
<1>2. ASSUME NEW t \in Threads PROVE Kept(k, unbindNotification(k, t))
  <2>1. CASE k.tcbBoundNotification[t] = Null
    BY <2>1, KeptSelf DEF unbindNotification
  <2>2. CASE k.tcbBoundNotification[t] # Null
    <3>1. k.tcbBoundNotification[t] \in Notifications
      BY <2>2 DEF OK, KState
    <3>2. k.ntfnBoundTCB[k.tcbBoundNotification[t]] = t
      BY <3>1 DEF OK, ObjectsOK, BoundOK
    <3> QED BY <2>2, <3>1, <3>2, <1>1 DEF unbindNotification
  <2> QED BY <2>1, <2>2
<1>3. ASSUME NEW n \in Notifications PROVE Kept(k, unbindMaybeNotification(k, n))
  <2>1. CASE k.ntfnBoundTCB[n] = Null
    BY <2>1, KeptSelf DEF unbindMaybeNotification
  <2>2. CASE k.ntfnBoundTCB[n] # Null
    <3>1. k.ntfnBoundTCB[n] \in Threads
      BY <2>2 DEF OK, KState
    <3> QED BY <2>2, <3>1, <1>1 DEF unbindMaybeNotification
  <2> QED BY <2>1, <2>2
<1> QED BY <1>2, <1>3

-----------------------------------------------------------------------------
(* Replies, faults and Recv *)

\* doReplyTransfer uses up the reply cap and wakes or stops the caller.
LEMMA KeptReplyTransfer ==
  ASSUME NEW k, OK(k), NEW sender, NEW receiver \in Threads, NEW slot, NEW restartThread
  PROVE  Kept(k, doReplyTransfer(k, sender, receiver, slot, restartThread))
<1> DEFINE k1 == Assert_(k, k.tsType[receiver] = "BlockedOnReply")
           ka == doIPCTransfer(k1, sender, FALSE)
           k2 == cteDeleteOne(ka, slot)
           kb == cteDeleteOne(k1, slot)
           k3 == [kb EXCEPT !.tcbFault[receiver] = FALSE]
<1>1. Kept(k, k1) /\ OK(k1)
  BY KeptAssert DEF Kept
<1> HIDE DEF k1
<1>2. Kept(k, ka) /\ OK(ka)
  BY <1>1, KeptTransfer, KeptTrans DEF Kept
<1> HIDE DEF ka
<1>3. Kept(k, k2) /\ OK(k2)
  BY <1>2, KeptDeleteOne, KeptTrans DEF Kept
<1>4. Kept(k, kb) /\ OK(kb)
  BY <1>1, KeptDeleteOne, KeptTrans DEF Kept
<1> HIDE DEF k2, kb
<1>5. Kept(kb, k3) /\ OK(k3)
  BY <1>4, KeptFault DEF Kept
<1> HIDE DEF k3
<1>6. Kept(k, possibleSwitchTo(setThreadState(k2, receiver, "Running"), receiver))
  BY <1>3, KeptWake, KeptTrans DEF ThreadStates, RunnableStates
<1>7. Kept(k3, possibleSwitchTo(setThreadState(k3, receiver, "Restart"), receiver))
  BY <1>5, KeptWake DEF ThreadStates, RunnableStates
<1>8. Kept(k3, setThreadState(k3, receiver, "Inactive"))
  BY <1>5, KeptSetThreadState DEF ThreadStates, StoppedStates
<1>9. /\ Kept(k, possibleSwitchTo(setThreadState(k3, receiver, "Restart"), receiver))
      /\ Kept(k, setThreadState(k3, receiver, "Inactive"))
  BY <1>4, <1>5, <1>7, <1>8, KeptTrans
<1> QED BY <1>6, <1>9 DEF doReplyTransfer, k3, kb, k2, ka, k1

\* handleReply replies to whoever the caller slot of the current thread names.
LEMMA KeptHandleReply ==
  ASSUME NEW k, OK(k), k.ksCurThread \in Threads, NEW restartThread
  PROVE  Kept(k, handleReply(k, restartThread))
<1> DEFINE c      == k.ksCurThread
           caller == k.replyCap[c]
           k1     == Assert_(k, caller # c)
<1>1. caller \in Threads \cup {Null}
  BY DEF OK, KState, ReplySlots
<1>2. Kept(k, k1) /\ OK(k1)
  BY KeptAssert DEF Kept
<1> HIDE DEF k1
<1>3. caller # Null => Kept(k, doReplyTransfer(k1, c, caller, c, restartThread))
  BY <1>1, <1>2, KeptReplyTransfer, KeptTrans
<1> QED BY <1>3, KeptSelf DEF handleReply, k1

\* handleFault sends a fault message or stops the thread.
LEMMA KeptHandleFault ==
  ASSUME NEW k, OK(k), NEW t \in Threads, NEW handler,
         handler # Null => handler.ep \in Endpoints /\ handler.badge \in Badges
  PROVE  Kept(k, handleFault(k, t, handler))
<1> DEFINE k1 == [k EXCEPT !.tcbFault[t] = TRUE]
<1>1. Kept(k, k1) /\ OK(k1)
  BY KeptFault DEF Kept
<1> HIDE DEF k1
<1>2. handler # Null => Kept(k, sendIPC(k1, TRUE, TRUE, handler.badge, TRUE, t, handler.ep))
  BY <1>1, KeptSendIPC, KeptTrans
<1>3. Kept(k, setThreadState(k, t, "Inactive"))
  BY KeptSetThreadState DEF ThreadStates, StoppedStates
<1> QED BY <1>2, <1>3 DEF handleFault, k1

\* handleRecv on an endpoint, a notification or anything else.
LEMMA KeptHandleRecv ==
  ASSUME NEW k, OK(k), k.ksCurThread \in Threads, NEW obj, NEW isBlocking, NEW handler,
         handler # Null => handler.ep \in Endpoints /\ handler.badge \in Badges
  PROVE  Kept(k, handleRecv(k, obj, isBlocking, handler))
<1> DEFINE c  == k.ksCurThread
           k1 == deleteCallerCap(k, c)
<1>1. Kept(k, k1) /\ OK(k1)
  BY KeptDeleteOne DEF Kept, deleteCallerCap
<1> HIDE DEF k1
<1>2. obj \in Endpoints => Kept(k, receiveIPC(k1, c, obj, isBlocking))
  BY <1>1, KeptReceiveIPC, KeptTrans
<1>3. obj \in Notifications /\ k.ntfnBoundTCB[obj] \in {Null, c} =>
        Kept(k, receiveSignal(k, c, obj, isBlocking))
  BY KeptReceiveSignal
<1>4. Kept(k, handleFault(k, c, handler))
  BY KeptHandleFault
<1>5. CASE obj \in Endpoints
  <2>1. obj \notin Notifications
    BY <1>5
  <2> QED BY <1>2, <1>5, <2>1 DEF handleRecv, k1
<1>6. CASE obj \notin Endpoints
  BY <1>3, <1>4, <1>6 DEF handleRecv
<1> QED BY <1>5, <1>6

-----------------------------------------------------------------------------
(* Invocations *)

\* What decode and the end of handleInvocation do to the invoking thread is
\* framed, so an invocation keeps what its function keeps.
LEMMA KeptInvocation ==
  ASSUME NEW k, OK(k)
  PROVE  /\ Kept(k, beginInvocation(k))
         /\ Kept(k, finishInvocation(k))
<1>1. "Restart" \in ThreadStates /\ "Running" \in ThreadStates
  BY DEF ThreadStates, RunnableStates
<1> QED BY <1>1, KeptSetThreadState, KeptSelf DEF beginInvocation, finishInvocation

\* The shape of every invocation: begin, the function, finish.
LEMMA KeptInvoked ==
  ASSUME NEW k, OK(k), NEW k1, Kept(beginInvocation(k), k1)
  PROVE  Kept(k, finishInvocation(k1))
<1>1. Kept(k, k1) /\ OK(k1)
  BY KeptInvocation, KeptTrans DEF Kept
<1> QED BY <1>1, KeptInvocation, KeptTrans

\* Objects come and go.
LEMMA KeptLive ==
  ASSUME NEW k, OK(k), NEW L \in SUBSET Objects
  PROVE  Kept(k, [k EXCEPT !.live = L])
<1> DEFINE k1 == [k EXCEPT !.live = L]
<1>1. k1 \in KState
  BY DEF OK, KState
<1>2. SameQueues(k, k1)
  BY DEF OK, KState, SameQueues
<1> QED BY <1>1, <1>2, KeptSame

\* createTCB resets the fields of a thread that no queue names.
LEMMA KeptCreateTCB ==
  ASSUME NEW k, OK(k), NEW t \in Threads
  PROVE  Kept(k, createTCB(k, t))
<1>1. /\ "Inactive" \in ThreadStates /\ NotBlocking \in Blocking
      /\ 0 \in Prios /\ TimeSlice \in 1 .. TimeSlice /\ k.ksCurDomain \in Domains
      /\ k.live \cup {t} \in SUBSET Objects
  BY DEF ThreadStates, StoppedStates, NotBlocking, Blocking, Prios, OK, KState, Objects
<1> DEFINE k1 == [k EXCEPT !.live        = @ \cup {t},
                           !.tsType[t]   = "Inactive",
                           !.blocking[t] = NotBlocking]
           k2 == [k1 EXCEPT !.tcbQueued[t]    = FALSE,
                            !.tcbPriority[t]  = 0,
                            !.tcbDomain[t]    = k.ksCurDomain,
                            !.tcbTimeSlice[t] = TimeSlice]
           k3 == [k2 EXCEPT !.tcbFault[t]     = FALSE,
                            !.replyMaster[t]  = FALSE,
                            !.replyCap[t]     = Null]
<1>2. createTCB(k, t) = k3
  BY DEF createTCB, OK, KState
<1>3. k1 \in KState /\ SameQueues(k, k1)
  <2>1. k1 \in KState
    BY <1>1 DEF OK, KState
  <2> QED BY <2>1 DEF OK, KState, SameQueues
<1> HIDE DEF k1
<1>4. Kept(k, k1) /\ OK(k1)
  BY <1>3, KeptSame DEF Kept
<1>5. k2 \in KState /\ SameQueues(k1, k2)
  <2>1. k2 \in KState
    BY <1>1, <1>3 DEF KState
  <2> QED BY <1>3, <2>1, SMTT(40) DEF KState, SameQueues
<1> HIDE DEF k2
<1>6. Kept(k1, k2) /\ OK(k2)
  BY <1>4, <1>5, KeptSame DEF Kept
<1>7. k3 \in KState /\ SameQueues(k2, k3)
  <2>1. k3 \in KState
    BY <1>5 DEF KState
  <2> QED BY <1>5, <2>1 DEF KState, SameQueues
<1> HIDE DEF k3
<1>8. Kept(k2, k3)
  BY <1>6, <1>7, KeptSame
<1> QED BY <1>2, <1>4, <1>6, <1>8, KeptTrans

\* An endpoint that loses its queue and turns idle.
LEMMA KeptEPMakeIdle ==
  ASSUME NEW k, OK(k), NEW e \in Endpoints
  PROVE  Kept(k, [k EXCEPT !.epQueue[e] = <<>>, !.epState[e] = "Idle"])
<1>1. "Idle" \in EPStates /\ <<>> \in Seq(Threads)
  BY DEF EPStates
<1> QED BY <1>1, KeptEndpoint

\* The same for a notification.
LEMMA KeptNtfnMakeIdle ==
  ASSUME NEW k, OK(k), NEW n \in Notifications
  PROVE  Kept(k, [k EXCEPT !.ntfnQueue[n] = <<>>, !.ntfnState[n] = "Idle"])
<1> DEFINE q == <<>>
<1>1. "Idle" \in NtfnStates /\ q \in Seq(Threads) /\ ("Idle" = "Waiting" <=> q # <<>>)
  BY DEF NtfnStates
<1>2. ToSet(q) \subseteq ToSet(k.ntfnQueue[n])
  BY DEF ToSet
<1> HIDE DEF q
<1>3. Kept(k, [k EXCEPT !.ntfnQueue[n] = q, !.ntfnState[n] = "Idle"])
  BY <1>1, <1>2, KeptNotification
<1> QED BY <1>3 DEF q

\* A new endpoint is idle.
LEMMA KeptCreateEndpoint ==
  ASSUME NEW k, OK(k), NEW e \in Endpoints
  PROVE  Kept(k, [k EXCEPT !.live = @ \cup {e}, !.epQueue[e] = <<>>, !.epState[e] = "Idle"])
<1> DEFINE k1 == [k EXCEPT !.live = k.live \cup {e}]
           k2 == [k1 EXCEPT !.epQueue[e] = <<>>, !.epState[e] = "Idle"]
<1>1. k.live \cup {e} \in SUBSET Objects
  BY DEF OK, KState, Objects
<1>2. Kept(k, k1) /\ OK(k1)
  BY <1>1, KeptLive DEF Kept
<1>3. k2 = [k EXCEPT !.live = @ \cup {e}, !.epQueue[e] = <<>>, !.epState[e] = "Idle"]
  BY DEF OK, KState
<1> HIDE DEF k1
<1>4. Kept(k1, k2)
  BY <1>2, KeptEPMakeIdle
<1> QED BY <1>2, <1>3, <1>4, KeptTrans

\* A new notification is idle and its word is empty.
LEMMA KeptCreateNotification ==
  ASSUME NEW k, OK(k), NEW n \in Notifications
  PROVE  Kept(k, [k EXCEPT !.live = @ \cup {n}, !.ntfnQueue[n] = <<>>,
                           !.ntfnState[n] = "Idle", !.ntfnMsgIdentifier[n] = {}])
<1> DEFINE k1 == [k EXCEPT !.live = k.live \cup {n}]
           k2 == [k1 EXCEPT !.ntfnQueue[n] = <<>>, !.ntfnState[n] = "Idle"]
           k3 == [k2 EXCEPT !.ntfnMsgIdentifier[n] = {}]
<1>1. k.live \cup {n} \in SUBSET Objects
  BY DEF OK, KState, Objects
<1>2. Kept(k, k1) /\ OK(k1)
  BY <1>1, KeptLive DEF Kept
<1>3. k3 = [k EXCEPT !.live = @ \cup {n}, !.ntfnQueue[n] = <<>>,
                     !.ntfnState[n] = "Idle", !.ntfnMsgIdentifier[n] = {}]
  BY DEF OK, KState
<1> HIDE DEF k1
<1>4. Kept(k1, k2) /\ OK(k2)
  BY <1>2, KeptNtfnMakeIdle DEF Kept
<1> HIDE DEF k2
<1>5. Kept(k2, k3)
  BY <1>4, KeptNtfnWord
<1> QED BY <1>2, <1>3, <1>4, <1>5, KeptTrans

\* SaveCaller moves the reply cap of the caller slot.
LEMMA KeptSaveCaller ==
  ASSUME NEW k, OK(k), NEW slot \in SaveSlots, NEW t \in Threads
  PROVE  Kept(k, [k EXCEPT !.replyCap[slot] = k.replyCap[t], !.replyCap[t] = Null])
<1> DEFINE k1 == [k EXCEPT !.replyCap[slot] = k.replyCap[t], !.replyCap[t] = Null]
<1>1. k.replyCap[t] \in Threads \cup {Null}
  BY DEF OK, KState, ReplySlots
<1>2. k1 \in KState
  BY <1>1 DEF OK, KState
<1>3. SameQueues(k, k1)
  BY DEF OK, KState, SameQueues
<1> QED BY <1>2, <1>3, KeptSame

\* finaliseCap of a TCB: unbind, suspend, and empty the slots of the TCB.
LEMMA KeptDeleteThread ==
  ASSUME NEW k, OK(k), NEW t \in Threads
  PROVE  Kept(k, [cteDeleteOne(suspend(unbindNotification(k, t), t), t)
                    EXCEPT !.replyMaster[t] = FALSE, !.live = @ \ {t}])
<1> DEFINE k1 == unbindNotification(k, t)
           k2 == suspend(k1, t)
           k3 == cteDeleteOne(k2, t)
           k4 == [k3 EXCEPT !.replyMaster[t] = FALSE, !.live = @ \ {t}]
<1>1. Kept(k, k1) /\ OK(k1)
  BY KeptUnbind DEF Kept
<1> HIDE DEF k1
<1>2. Kept(k, k2) /\ OK(k2)
  BY <1>1, KeptSuspend, KeptTrans DEF Kept
<1> HIDE DEF k2
<1>3. Kept(k, k3) /\ OK(k3)
  BY <1>2, KeptDeleteOne, KeptTrans DEF Kept
<1> HIDE DEF k3
<1>4. k4 \in KState
  BY <1>3 DEF OK, KState
<1>5. SameQueues(k3, k4)
  BY <1>3 DEF OK, KState, SameQueues
<1> HIDE DEF k4
<1>6. Kept(k, k4)
  BY <1>3, <1>4, <1>5, KeptSame, KeptTrans
<1> QED BY <1>6 DEF k4, k3, k2, k1

\* The queue loops release a thread at a time.
LEMMA KeptWakeToRestart ==
  ASSUME NEW k, OK(k), NEW t \in Threads
  PROVE  /\ Kept(k, wakeToRestart(k, t))
         /\ wakeToRestart(k, t).epState = k.epState
<1> DEFINE k1 == setThreadState(k, t, "Restart")
<1>1. Framed(k, k1) /\ k1 \in KState
  BY FramedSetThreadState DEF OK, ThreadStates, RunnableStates, Framed
<1> HIDE DEF k1
<1>2. Framed(k, tcbSchedEnqueue(k1, t))
  BY <1>1, FramedEnqueue, FramedTrans
<1>3. Framed(k, wakeToRestart(k, t))
  BY <1>2 DEF wakeToRestart, k1
<1>4. wakeToRestart(k, t).epState = k.epState
  BY <1>3 DEF Framed, SameFrame, SameSwitch, SameObjects
<1> QED BY <1>3, <1>4, KeptFramed

-----------------------------------------------------------------------------
(* The inductive invariant *)

\* cancelBadgedSends has emptied the endpoint it will put the others back in.
LoopOK ==
  phase = "cancelBadgedSends" =>
    \A e \in Endpoints : loop.obj = e => ks.epState[e] = "Idle"

IInv == TypeOK /\ ObjectsOK(ks) /\ DomainTimePositive /\ LoopOK

\* The state that boot leaves behind.
LEMMA InitIInv == Init => IInv
<1> SUFFICES ASSUME Init PROVE IInv
  OBVIOUS
<1>1. PICK t0 \in Threads : ks = InitKS(t0)
  BY DEF Init
<1>2. DomSchedule[1] \in DomScheduleEntry
  OBVIOUS
<1>3. DomSchedule[1].domain \in Domains /\ DomSchedule[1].length \in Nat \ {0}
  BY <1>2 DEF DomScheduleEntry
<1> HIDE DEF DomScheduleEntry
<1>4. /\ NotBlocking \in Blocking
      /\ NoTransfer \in [label : {"None", "Normal", "Fault"}, isCall : BOOLEAN]
      /\ 0 \in Prios /\ MaxPrio \in Prios
      /\ TimeSlice \in 1 .. TimeSlice
      /\ {t0} \in SUBSET Objects
      /\ 1 \in 1 .. Len(DomSchedule)
  BY DEF NotBlocking, Blocking, NoTransfer, Prios, Objects
<1>5. InitKS(t0) \in KState
  BY <1>3, <1>4 DEF InitKS, KState, ThreadStates, RunnableStates, StoppedStates, EPStates, NtfnStates
<1>6. /\ ks.ksDomainTime = DomSchedule[1].length
      /\ ks.epState = [e \in Endpoints |-> "Idle"]
      /\ ks.epQueue = [e \in Endpoints |-> <<>>]
      /\ ks.ntfnState = [n \in Notifications |-> "Idle"]
      /\ ks.ntfnQueue = [n \in Notifications |-> <<>>]
      /\ ks.ntfnBoundTCB = [n \in Notifications |-> Null]
      /\ ks.tcbBoundNotification = [t \in Threads |-> Null]
  BY <1>1 DEF InitKS
<1>7. ObjectsOK(ks)
  BY <1>6 DEF ObjectsOK, BoundOK, EPStatesOK, NtfnStatesOK
<1>8. TypeOK
  BY <1>1, <1>5 DEF TypeOK, Init, LoopType, NoLoop
<1>9. DomainTimePositive /\ LoopOK
  BY <1>3, <1>6 DEF DomainTimePositive, LoopOK, Init
<1> QED BY <1>7, <1>8, <1>9 DEF IInv

\* A handler that keeps what Kept says ends a kernel entry.
LEMMA HandlerStep ==
  ASSUME IInv, phase = "user", NEW k, Kept(ks, k), EndHandler(k)
  PROVE  IInv'
<1>1. ks' = k /\ phase' = "schedule" /\ loop' = loop
  BY DEF EndHandler
<1>2. ks.ksDomainTime > 0
  BY DEF IInv, DomainTimePositive
<1>3. TypeOK'
  BY <1>1 DEF IInv, TypeOK, Kept, OK
<1>4. ObjectsOK(ks')
  BY <1>1 DEF Kept, OK
<1>5. ks'.ksDomainTime > 0
  BY <1>1, <1>2 DEF Kept
<1>6. DomainTimePositive' /\ LoopOK'
  BY <1>1, <1>5 DEF DomainTimePositive, LoopOK
<1> QED BY <1>3, <1>4, <1>6 DEF IInv

\* The same for an invocation.
LEMMA InvocationStep ==
  ASSUME IInv, phase = "user", NEW k, Kept(beginInvocation(ks), k), EndHandler(finishInvocation(k))
  PROVE  IInv'
<1>1. OK(ks)
  BY DEF IInv, TypeOK, OK
<1>2. Kept(ks, finishInvocation(k))
  BY <1>1, KeptInvoked
<1> QED BY <1>2, HandlerStep

\* A system call finds the invariant and a user thread.
LEMMA SyscallFacts ==
  ASSUME IInv, NEW name, Syscall(name)
  PROVE  /\ phase = "user" /\ OK(ks) /\ cur \in Threads
         /\ OK(beginInvocation(ks))
         /\ beginInvocation(ks).ksCurThread = cur
<1>1. OK(ks)
  BY DEF IInv, TypeOK, OK
<1>2. cur \in Threads /\ phase = "user"
  BY <1>1 DEF Syscall, OK, KState, cur
<1>3. Kept(ks, beginInvocation(ks))
  BY <1>1, KeptInvocation
<1> QED BY <1>1, <1>2, <1>3 DEF Kept, cur

\* The IPC system calls keep the invariant.
LEMMA IPCStep == ASSUME IInv, IPCSyscall PROVE IInv'
<1>1. ASSUME NEW ep \in EPs, NEW badge \in Badges, NEW canReply \in BOOLEAN,
             NEW blocking \in BOOLEAN, Send(ep, badge, canReply, blocking)
      PROVE  IInv'
  <2>1. Syscall("Send") /\ ep \in Endpoints
    BY <1>1 DEF Send, EPs
  <2>2. Kept(beginInvocation(ks),
             sendIPC(beginInvocation(ks), blocking, FALSE, badge, canReply, cur, ep))
    BY <2>1, SyscallFacts, KeptSendIPC
  <2> QED BY <1>1, <2>1, <2>2, SyscallFacts, InvocationStep DEF Send
<1>2. ASSUME NEW ep \in EPs, NEW badge \in Badges, NEW canReply \in BOOLEAN,
             Call(ep, badge, canReply)
      PROVE  IInv'
  <2>1. Syscall("Call") /\ ep \in Endpoints
    BY <1>2 DEF Call, EPs
  <2>2. Kept(beginInvocation(ks),
             sendIPC(beginInvocation(ks), TRUE, TRUE, badge, canReply, cur, ep))
    BY <2>1, SyscallFacts, KeptSendIPC
  <2> QED BY <1>2, <2>1, <2>2, SyscallFacts, InvocationStep DEF Call
<1>3. ASSUME NEW handler \in FaultHandlers
      PROVE  handler # Null => handler.ep \in Endpoints /\ handler.badge \in Badges
  BY DEF FaultHandlers, EPs
<1>4. ASSUME NEW obj \in RecvObjects, NEW blocking \in BOOLEAN, NEW handler \in FaultHandlers,
             Recv(obj, blocking, handler)
      PROVE  IInv'
  <2>1. Syscall("Recv")
    BY <1>4 DEF Recv
  <2>2. OK(ks) /\ ks.ksCurThread \in Threads
    BY <2>1, SyscallFacts DEF cur
  <2>3. Kept(ks, handleRecv(ks, obj, blocking, handler))
    BY <2>2, <1>3, KeptHandleRecv
  <2> QED BY <1>4, <2>1, <2>3, SyscallFacts, HandlerStep DEF Recv
<1>5. ASSUME NEW restartThread \in BOOLEAN, Reply(restartThread)
      PROVE  IInv'
  <2>1. Syscall("Reply")
    BY <1>5 DEF Reply
  <2>2. Kept(ks, handleReply(ks, restartThread))
    BY <2>1, SyscallFacts, KeptHandleReply DEF cur
  <2> QED BY <1>5, <2>1, <2>2, SyscallFacts, HandlerStep DEF Reply
<1>6. ASSUME NEW restartThread \in BOOLEAN, NEW obj \in RecvObjects, NEW handler \in FaultHandlers,
             ReplyRecv(restartThread, obj, handler)
      PROVE  IInv'
  <2>1. Syscall("ReplyRecv")
    BY <1>6 DEF ReplyRecv
  <2> DEFINE k1 == handleReply(ks, restartThread)
  <2>2. Kept(ks, k1) /\ ks.ksCurThread \in Threads
    BY <2>1, SyscallFacts, KeptHandleReply DEF cur
  <2> HIDE DEF k1
  <2>3. OK(k1) /\ k1.ksCurThread \in Threads
    BY <2>2 DEF Kept
  <2>4. Kept(k1, handleRecv(k1, obj, TRUE, handler))
    BY <2>3, <1>3, KeptHandleRecv
  <2>5. Kept(ks, handleRecv(k1, obj, TRUE, handler))
    BY <2>2, <2>4, KeptTrans
  <2> QED BY <1>6, <2>1, <2>5, SyscallFacts, HandlerStep DEF ReplyRecv, k1
<1>7. ASSUME NEW slot \in SaveSlots, NEW restartThread \in BOOLEAN, InvokeReply(slot, restartThread)
      PROVE  IInv'
  <2>1. Syscall("InvokeReply")
    BY <1>7 DEF InvokeReply
  <2>2. ks.replyCap[slot] \in Threads
    BY <1>7, <2>1, SyscallFacts DEF InvokeReply, OK, KState, ReplySlots
  <2>3. Kept(beginInvocation(ks),
             doReplyTransfer(beginInvocation(ks), cur, ks.replyCap[slot], slot, restartThread))
    BY <2>1, <2>2, SyscallFacts, KeptReplyTransfer
  <2> QED BY <1>7, <2>1, <2>3, SyscallFacts, InvocationStep DEF InvokeReply
<1>8. ASSUME NEW ntfn \in Ntfns, NEW badge \in SUBSET SignalBits, Signal(ntfn, badge)
      PROVE  IInv'
  <2>1. Syscall("Signal") /\ ntfn \in Notifications
    BY <1>8 DEF Signal, Ntfns
  <2>2. Kept(beginInvocation(ks), sendSignal(beginInvocation(ks), ntfn, badge))
    BY <2>1, SyscallFacts, KeptSendSignal
  <2> QED BY <1>8, <2>1, <2>2, SyscallFacts, InvocationStep DEF Signal
<1>9. ASSUME NEW handler \in FaultHandlers, Fault(handler)
      PROVE  IInv'
  <2>1. Syscall("Fault")
    BY <1>9 DEF Fault
  <2>2. Kept(ks, handleFault(ks, cur, handler))
    BY <2>1, <1>3, SyscallFacts, KeptHandleFault
  <2> QED BY <1>9, <2>1, <2>2, SyscallFacts, HandlerStep DEF Fault
<1>10. ASSUME Yield PROVE IInv'
  <2>1. Syscall("Yield")
    BY <1>10 DEF Yield
  <2>2. OK(ks) /\ ks \in KState /\ ks.ksCurThread \in Threads
    BY <2>1, SyscallFacts DEF OK, cur
  <2>3. Kept(ks, handleYield(ks))
    BY <2>2, FramedYield, KeptFramed
  <2> QED BY <1>10, <2>1, <2>3, SyscallFacts, HandlerStep DEF Yield
<1> QED BY <1>1, <1>2, <1>4, <1>5, <1>6, <1>7, <1>8, <1>9, <1>10 DEF IPCSyscall

\* The functions of the TCB invocations that schedule threads, on a state that
\* the invariant holds of.
LEMMA KeptScheduling ==
  ASSUME NEW k, OK(k), NEW t \in Threads
  PROVE  /\ Kept(k, rescheduleRequired(k))
         /\ \A p \in Prios : Kept(k, setPriority(k, t, p))
         /\ \A d \in Domains : Kept(k, setDomain(k, t, d))
<1>1. k \in KState
  BY DEF OK
<1> QED BY <1>1, FramedReschedule, FramedSetPriority, FramedSetDomain, KeptFramed

\* CopyRegisters, ReadRegisters and WriteRegisters suspend and restart threads.
LEMMA KeptRegisters ==
  ASSUME NEW k, OK(k), NEW dest \in Threads, NEW src \in Threads,
         NEW suspendSource, NEW resumeTarget
  PROVE  LET k1 == IF suspendSource THEN suspend(k, src) ELSE k
             k2 == IF resumeTarget THEN restart(k1, dest) ELSE k1
         IN  Kept(k, k1) /\ Kept(k, k2)
<1> DEFINE k1 == IF suspendSource THEN suspend(k, src) ELSE k
           k2 == IF resumeTarget THEN restart(k1, dest) ELSE k1
<1>1. Kept(k, k1) /\ OK(k1)
  BY KeptSuspend, KeptSelf DEF Kept
<1> HIDE DEF k1
<1>2. Kept(k, k2)
  BY <1>1, KeptRestart, KeptTrans
<1> QED BY <1>1, <1>2 DEF k1

\* Retype and the CNode invocations keep the invariant.
LEMMA SlotStep ==
  ASSUME IInv,
         \/ \E t \in Threads : RetypeThread(t)
         \/ \E ep \in Endpoints : RetypeEndpoint(ep)
         \/ \E ntfn \in Notifications : RetypeNotification(ntfn)
         \/ \E slot \in SaveSlots : SaveCaller(slot) \/ DeleteReplyCap(slot)
  PROVE  IInv'
<1> DEFINE k == beginInvocation(ks)
<1>1. ASSUME NEW t \in Threads, RetypeThread(t) PROVE IInv'
  <2>1. Syscall("Retype")
    BY <1>1 DEF RetypeThread
  <2>2. Kept(beginInvocation(ks), createTCB(beginInvocation(ks), t))
    BY <2>1, SyscallFacts, KeptCreateTCB
  <2> QED BY <1>1, <2>1, <2>2, SyscallFacts, InvocationStep DEF RetypeThread
<1>2. ASSUME NEW ep \in Endpoints, RetypeEndpoint(ep) PROVE IInv'
  <2> DEFINE k1 == [k EXCEPT !.live = @ \cup {ep}, !.epQueue[ep] = <<>>, !.epState[ep] = "Idle"]
  <2>1. Syscall("Retype") /\ EndHandler(finishInvocation(k1))
    BY <1>2 DEF RetypeEndpoint
  <2>2. OK(k) /\ phase = "user"
    BY <2>1, SyscallFacts
  <2>3. Kept(k, k1)
    BY <2>2, KeptCreateEndpoint
  <2> HIDE DEF k1
  <2> QED BY <2>1, <2>2, <2>3, InvocationStep
<1>3. ASSUME NEW ntfn \in Notifications, RetypeNotification(ntfn) PROVE IInv'
  <2> DEFINE k1 == [k EXCEPT !.live = @ \cup {ntfn}, !.ntfnQueue[ntfn] = <<>>,
                             !.ntfnState[ntfn] = "Idle", !.ntfnMsgIdentifier[ntfn] = {}]
  <2>1. Syscall("Retype") /\ EndHandler(finishInvocation(k1))
    BY <1>3 DEF RetypeNotification
  <2>2. OK(k) /\ phase = "user"
    BY <2>1, SyscallFacts
  <2>3. Kept(k, k1)
    BY <2>2, KeptCreateNotification
  <2> HIDE DEF k1
  <2> QED BY <2>1, <2>2, <2>3, InvocationStep
<1>4. ASSUME NEW slot \in SaveSlots, SaveCaller(slot) PROVE IInv'
  <2> DEFINE k1 == [k EXCEPT !.replyCap[slot] = k.replyCap[cur], !.replyCap[cur] = Null]
  <2>1. Syscall("SaveCaller") /\ EndHandler(finishInvocation(k1))
    BY <1>4 DEF SaveCaller
  <2>2. OK(k) /\ phase = "user" /\ cur \in Threads
    BY <2>1, SyscallFacts
  <2>3. Kept(k, k1)
    BY <2>2, KeptSaveCaller
  <2> HIDE DEF k1
  <2> QED BY <2>1, <2>2, <2>3, InvocationStep
<1>5. ASSUME NEW slot \in SaveSlots, DeleteReplyCap(slot) PROVE IInv'
  <2>1. Syscall("DeleteReplyCap")
    BY <1>5 DEF DeleteReplyCap
  <2>2. Kept(beginInvocation(ks), cteDeleteOne(beginInvocation(ks), slot))
    BY <2>1, SyscallFacts, KeptDeleteOne
  <2> QED BY <1>5, <2>1, <2>2, SyscallFacts, InvocationStep DEF DeleteReplyCap
<1> QED BY <1>1, <1>2, <1>3, <1>4, <1>5

\* The TCB and domain invocations keep the invariant.
LEMMA TCBStep ==
  ASSUME IInv,
         \/ \E t \in TCBs : TCBSuspend(t) \/ TCBResume(t) \/ TCBSetContext(t) \/ DeleteThread(t)
         \/ \E t \in TCBs, prio \in Prios : TCBSetPriority(t, prio)
         \/ \E dest, src \in TCBs, suspendSource, resumeTarget \in BOOLEAN :
               TCBCopyRegisters(dest, src, suspendSource, resumeTarget)
         \/ \E t \in TCBs, flag \in BOOLEAN : TCBReadRegisters(t, flag) \/ TCBWriteRegisters(t, flag)
         \/ \E t \in TCBs, ntfn \in Ntfns : TCBBindNotification(t, ntfn)
         \/ \E t \in TCBs : TCBUnbindNotification(t)
         \/ \E t \in TCBs, dom \in Domains : DomainSet(t, dom)
  PROVE  IInv'
<1> DEFINE k == beginInvocation(ks)
<1>0. TCBs \subseteq Threads /\ Ntfns \subseteq Notifications
  BY DEF TCBs, Ntfns
<1>1. ASSUME NEW t \in TCBs, TCBSuspend(t) PROVE IInv'
  <2>1. Syscall("Suspend") /\ EndHandler(finishInvocation(suspend(k, t)))
    BY <1>1 DEF TCBSuspend
  <2>2. OK(k) /\ phase = "user"
    BY <2>1, SyscallFacts
  <2> QED BY <1>0, <2>1, <2>2, KeptSuspend, InvocationStep
<1>2. ASSUME NEW t \in TCBs, TCBResume(t) PROVE IInv'
  <2>1. Syscall("Resume") /\ EndHandler(finishInvocation(restart(k, t)))
    BY <1>2 DEF TCBResume
  <2>2. OK(k) /\ phase = "user"
    BY <2>1, SyscallFacts
  <2> QED BY <1>0, <2>1, <2>2, KeptRestart, InvocationStep
<1>3. ASSUME NEW t \in TCBs, TCBSetContext(t) PROVE IInv'
  <2> DEFINE k1 == IF t = cur THEN rescheduleRequired(k) ELSE k
  <2>1. Syscall("SetContext") /\ EndHandler(finishInvocation(k1))
    BY <1>3 DEF TCBSetContext
  <2>2. OK(k) /\ phase = "user"
    BY <2>1, SyscallFacts
  <2>3. Kept(k, k1)
    BY <1>0, <2>2, KeptScheduling, KeptSelf
  <2> HIDE DEF k1
  <2> QED BY <2>1, <2>2, <2>3, InvocationStep
<1>4. ASSUME NEW t \in TCBs, DeleteThread(t) PROVE IInv'
  <2> DEFINE k1 == [cteDeleteOne(suspend(unbindNotification(k, t), t), t)
                      EXCEPT !.replyMaster[t] = FALSE, !.live = @ \ {t}]
  <2>1. Syscall("DeleteThread") /\ EndHandler(finishInvocation(k1))
    BY <1>4 DEF DeleteThread
  <2>2. OK(k) /\ phase = "user"
    BY <2>1, SyscallFacts
  <2>3. Kept(k, k1)
    BY <1>0, <2>2, KeptDeleteThread
  <2> HIDE DEF k1
  <2> QED BY <2>1, <2>2, <2>3, InvocationStep
<1>5. ASSUME NEW t \in TCBs, NEW prio \in Prios, TCBSetPriority(t, prio) PROVE IInv'
  <2>1. Syscall("SetPriority") /\ EndHandler(finishInvocation(setPriority(k, t, prio)))
    BY <1>5 DEF TCBSetPriority
  <2>2. OK(k) /\ phase = "user"
    BY <2>1, SyscallFacts
  <2> QED BY <1>0, <2>1, <2>2, KeptScheduling, InvocationStep
<1>6. ASSUME NEW dest \in TCBs, NEW src \in TCBs, NEW suspendSource \in BOOLEAN,
             NEW resumeTarget \in BOOLEAN, TCBCopyRegisters(dest, src, suspendSource, resumeTarget)
      PROVE  IInv'
  <2> DEFINE k1 == IF suspendSource THEN suspend(k, src) ELSE k
             k2 == IF resumeTarget THEN restart(k1, dest) ELSE k1
             k3 == IF dest = cur THEN rescheduleRequired(k2) ELSE k2
  <2>1. Syscall("CopyRegisters") /\ EndHandler(finishInvocation(k3))
    BY <1>6 DEF TCBCopyRegisters
  <2>2. OK(k) /\ phase = "user"
    BY <2>1, SyscallFacts
  <2>3. Kept(k, k2)
    BY <1>0, <2>2, KeptRegisters
  <2> HIDE DEF k2
  <2>4. Kept(k, k3)
    BY <1>0, <2>3, KeptScheduling, KeptTrans DEF Kept
  <2> HIDE DEF k3
  <2> QED BY <2>1, <2>2, <2>4, InvocationStep
<1>7. ASSUME NEW t \in TCBs, NEW flag \in BOOLEAN, TCBReadRegisters(t, flag) PROVE IInv'
  <2> DEFINE k1 == IF flag THEN suspend(k, t) ELSE k
  <2>1. Syscall("ReadRegisters") /\ EndHandler(finishInvocation(setThreadState(k1, cur, "Running")))
    BY <1>7 DEF TCBReadRegisters
  <2>2. OK(k) /\ phase = "user"
    BY <2>1, SyscallFacts
  <2>3. Kept(k, k1) /\ OK(k1)
    BY <1>0, <2>2, KeptRegisters DEF Kept
  <2> HIDE DEF k1
  <2>4. Kept(k, setThreadState(k1, cur, "Running"))
    BY <2>3, KeptSetThreadState, KeptTrans DEF ThreadStates, RunnableStates
  <2> QED BY <2>1, <2>2, <2>4, InvocationStep
<1>8. ASSUME NEW t \in TCBs, NEW flag \in BOOLEAN, TCBWriteRegisters(t, flag) PROVE IInv'
  <2> DEFINE k1 == IF flag THEN restart(k, t) ELSE k
  <2>1. Syscall("WriteRegisters") /\ EndHandler(finishInvocation(k1))
    BY <1>8 DEF TCBWriteRegisters
  <2>2. OK(k) /\ phase = "user"
    BY <2>1, SyscallFacts
  <2>3. Kept(k, k1)
    BY <1>0, <2>2, KeptRestart, KeptSelf
  <2> HIDE DEF k1
  <2> QED BY <2>1, <2>2, <2>3, InvocationStep
<1>9. ASSUME NEW t \in TCBs, NEW ntfn \in Ntfns, TCBBindNotification(t, ntfn) PROVE IInv'
  <2>1. Syscall("BindNotification") /\ EndHandler(finishInvocation(bindNotification(k, t, ntfn)))
    BY <1>9 DEF TCBBindNotification
  <2>2. OK(k) /\ phase = "user"
    BY <2>1, SyscallFacts
  <2>3. Framed(ks, k)
    BY FramedSetThreadState DEF IInv, TypeOK, beginInvocation, ThreadStates, RunnableStates
  <2>4. k.tcbBoundNotification[t] = Null /\ k.ntfnBoundTCB[ntfn] = Null /\ k.ntfnQueue[ntfn] = <<>>
    BY <1>9, <2>3 DEF TCBBindNotification, Framed, SameFrame, SameSwitch, SameObjects
  <2>5. Kept(k, bindNotification(k, t, ntfn))
    BY <1>0, <2>2, <2>4, KeptBind
  <2> QED BY <2>1, <2>2, <2>5, InvocationStep
<1>10. ASSUME NEW t \in TCBs, TCBUnbindNotification(t) PROVE IInv'
  <2>1. Syscall("UnbindNotification") /\ EndHandler(finishInvocation(unbindNotification(k, t)))
    BY <1>10 DEF TCBUnbindNotification
  <2>2. OK(k) /\ phase = "user"
    BY <2>1, SyscallFacts
  <2> QED BY <1>0, <2>1, <2>2, KeptUnbind, InvocationStep
<1>11. ASSUME NEW t \in TCBs, NEW dom \in Domains, DomainSet(t, dom) PROVE IInv'
  <2>1. Syscall("DomainSet") /\ EndHandler(finishInvocation(setDomain(k, t, dom)))
    BY <1>11 DEF DomainSet
  <2>2. OK(k) /\ phase = "user"
    BY <2>1, SyscallFacts
  <2> QED BY <1>0, <2>1, <2>2, KeptScheduling, InvocationStep
<1> QED BY <1>1, <1>2, <1>3, <1>4, <1>5, <1>6, <1>7, <1>8, <1>9, <1>10, <1>11

-----------------------------------------------------------------------------
(* The loops over a detached queue *)

\* The start of a loop: the object is idle and its queue is in loop.
LEMMA BeginLoopStep ==
  ASSUME IInv, phase = "user", NEW k, Kept(ks, k), NEW name \in LoopPhases,
         NEW obj \in Endpoints \cup Notifications, NEW badge \in Badges \cup {Null},
         NEW queue \in Seq(Threads), BeginLoop(k, name, obj, badge, queue),
         obj \in Endpoints => k.epState[obj] = "Idle"
  PROVE  IInv'
<1>1. /\ ks' = k /\ phase' = name
      /\ loop' = [obj |-> obj, badge |-> badge, todo |-> queue, queue |-> queue]
  BY DEF BeginLoop
<1>2. loop' \in LoopType /\ loop'.obj = obj
  BY <1>1 DEF LoopType
<1>3. TypeOK'
  BY <1>1, <1>2 DEF TypeOK, Kept, OK
<1>4. ObjectsOK(ks')
  BY <1>1 DEF Kept, OK
<1>5. ks'.ksDomainTime > 0
  BY <1>1 DEF Kept, IInv, DomainTimePositive
<1>6. DomainTimePositive' /\ LoopOK'
  BY <1>1, <1>2, <1>5 DEF DomainTimePositive, LoopOK
<1> QED BY <1>3, <1>4, <1>6 DEF IInv

\* One iteration of a loop.
LEMMA LoopIterationStep ==
  ASSUME IInv, phase \in LoopPhases, Kept(ks, ks'), ks'.epState = ks.epState,
         phase' = phase, loop' \in LoopType, loop'.obj = loop.obj
  PROVE  IInv'
<1>1. TypeOK' /\ ObjectsOK(ks')
  BY DEF TypeOK, Kept, OK, IInv
<1>2. ks'.ksDomainTime > 0
  BY DEF Kept, IInv, DomainTimePositive, LoopPhases
<1>3. DomainTimePositive' /\ LoopOK'
  BY <1>2 DEF DomainTimePositive, LoopOK, IInv
<1> QED BY <1>1, <1>3 DEF IInv

\* The end of a loop.
LEMMA EndLoopStep ==
  ASSUME IInv, phase \in LoopPhases, NEW k, Kept(ks, k), EndLoop(k)
  PROVE  IInv'
<1> DEFINE k1 == rescheduleRequired(k)
           k2 == finishInvocation(k1)
<1>1. k \in KState /\ OK(k)
  BY DEF Kept, OK
<1>2. Kept(ks, k1) /\ OK(k1)
  BY <1>1, FramedReschedule, KeptFramed, KeptTrans DEF Kept
<1> HIDE DEF k1
<1>3. Kept(ks, k2)
  BY <1>2, KeptInvocation, KeptTrans
<1>4. ks' = k2 /\ phase' = "schedule" /\ loop' = NoLoop
  BY DEF EndLoop, k1
<1> HIDE DEF k2
<1>5. TypeOK' /\ ObjectsOK(ks')
  BY <1>3, <1>4 DEF TypeOK, LoopType, NoLoop, Kept, OK
<1>6. ks'.ksDomainTime > 0
  BY <1>3, <1>4 DEF Kept, IInv, DomainTimePositive, LoopPhases
<1>7. DomainTimePositive' /\ LoopOK'
  BY <1>4, <1>6 DEF DomainTimePositive, LoopOK
<1> QED BY <1>5, <1>7 DEF IInv

\* epMakeIdle, on the state in which the invocation finds the endpoint.
LEMMA MakeIdleFacts ==
  ASSUME NEW k, OK(k), NEW ep \in Endpoints
  PROVE  Kept(k, epMakeIdle(k, ep)) /\ epMakeIdle(k, ep).epState[ep] = "Idle"
<1>1. epMakeIdle(k, ep) = [k EXCEPT !.epQueue[ep] = <<>>, !.epState[ep] = "Idle"]
  BY DEF epMakeIdle, OK, KState
<1>2. epMakeIdle(k, ep).epState[ep] = "Idle"
  BY DEF epMakeIdle, OK, KState
<1> QED BY <1>1, <1>2, KeptEPMakeIdle, ZenonT(40)

\* Deleting an endpoint or a notification, and cancelBadgedSends.
LEMMA LoopInvocationStep ==
  ASSUME IInv,
         \/ \E ep \in EPs : DeleteEndpoint(ep)
         \/ \E ep \in EPs, badge \in Badges : CancelBadgedSends(ep, badge)
         \/ \E ntfn \in Ntfns : DeleteNotification(ntfn)
  PROVE  IInv'
<1> DEFINE k == beginInvocation(ks)
<1>0. EPs \subseteq Endpoints /\ Ntfns \subseteq Notifications
  BY DEF EPs, Ntfns
<1>1. ASSUME NEW ep \in EPs, DeleteEndpoint(ep) PROVE IInv'
  <2>1. /\ Syscall("DeleteEndpoint")
        /\ \/ EndHandler(finishInvocation([k EXCEPT !.live = @ \ {ep}]))
           \/ BeginLoop(epMakeIdle(k, ep), "cancelAllIPC", ep, Null, k.epQueue[ep])
    BY <1>1 DEF DeleteEndpoint
  <2>2. OK(ks) /\ OK(k) /\ phase = "user" /\ Kept(ks, k)
    BY <2>1, SyscallFacts, KeptInvocation
  <2> HIDE DEF k
  <2>3. CASE EndHandler(finishInvocation([k EXCEPT !.live = @ \ {ep}]))
    <3>1. Kept(k, [k EXCEPT !.live = k.live \ {ep}])
      BY <2>2, KeptLive DEF OK, KState
    <3> QED BY <2>2, <2>3, <3>1, InvocationStep DEF k
  <2>4. CASE BeginLoop(epMakeIdle(k, ep), "cancelAllIPC", ep, Null, k.epQueue[ep])
    <3>1. Kept(ks, epMakeIdle(k, ep)) /\ epMakeIdle(k, ep).epState[ep] = "Idle"
      BY <1>0, <2>2, MakeIdleFacts, KeptTrans
    <3>2. k.epQueue[ep] \in Seq(Threads)
      BY <1>0, <2>2 DEF OK, KState
    <3> QED BY <1>0, <2>2, <2>4, <3>1, <3>2, BeginLoopStep DEF LoopPhases
  <2> QED BY <2>1, <2>3, <2>4 DEF k
<1>2. ASSUME NEW ep \in EPs, NEW badge \in Badges, CancelBadgedSends(ep, badge) PROVE IInv'
  <2>1. /\ Syscall("CancelBadgedSends")
        /\ \/ EndHandler(finishInvocation(k))
           \/ BeginLoop(epMakeIdle(k, ep), "cancelBadgedSends", ep, badge, k.epQueue[ep])
    BY <1>2 DEF CancelBadgedSends
  <2>2. OK(ks) /\ OK(k) /\ phase = "user" /\ Kept(ks, k)
    BY <2>1, SyscallFacts, KeptInvocation
  <2> HIDE DEF k
  <2>3. CASE EndHandler(finishInvocation(k))
    BY <2>2, <2>3, KeptSelf, InvocationStep DEF k
  <2>4. CASE BeginLoop(epMakeIdle(k, ep), "cancelBadgedSends", ep, badge, k.epQueue[ep])
    <3>1. Kept(ks, epMakeIdle(k, ep)) /\ epMakeIdle(k, ep).epState[ep] = "Idle"
      BY <1>0, <2>2, MakeIdleFacts, KeptTrans
    <3>2. k.epQueue[ep] \in Seq(Threads)
      BY <1>0, <2>2 DEF OK, KState
    <3> QED BY <1>0, <2>2, <2>4, <3>1, <3>2, BeginLoopStep DEF LoopPhases
  <2> QED BY <2>1, <2>3, <2>4 DEF k
<1>3. ASSUME NEW n \in Ntfns, DeleteNotification(n) PROVE IInv'
  <2> DEFINE k1 == unbindMaybeNotification(k, n)
             k2 == [k1 EXCEPT !.ntfnState[n] = "Idle", !.ntfnQueue[n] = <<>>]
  <2>1. /\ Syscall("DeleteNotification")
        /\ \/ EndHandler(finishInvocation([k1 EXCEPT !.live = @ \ {n}]))
           \/ BeginLoop(k2, "cancelAllSignals", n, Null, k1.ntfnQueue[n])
    BY <1>3 DEF DeleteNotification
  <2>2. OK(ks) /\ OK(k) /\ phase = "user" /\ Kept(ks, k)
    BY <2>1, SyscallFacts, KeptInvocation
  <2>3. Kept(k, k1) /\ OK(k1)
    BY <1>0, <2>2, KeptUnbind DEF Kept
  <2> HIDE DEF k1
  <2>4. CASE EndHandler(finishInvocation([k1 EXCEPT !.live = @ \ {n}]))
    <3>1. Kept(k1, [k1 EXCEPT !.live = k1.live \ {n}])
      BY <2>3, KeptLive DEF OK, KState
    <3> QED BY <2>2, <2>3, <2>4, <3>1, KeptTrans, InvocationStep
  <2>5. CASE BeginLoop(k2, "cancelAllSignals", n, Null, k1.ntfnQueue[n])
    <3>1. k2 = [k1 EXCEPT !.ntfnQueue[n] = <<>>, !.ntfnState[n] = "Idle"]
      BY <2>3 DEF OK, KState
    <3>2. Kept(k1, k2)
      BY <1>0, <2>3, <3>1, KeptNtfnMakeIdle
    <3>3. Kept(ks, k2)
      BY <2>2, <2>3, <3>2, KeptTrans
    <3>4. k1.ntfnQueue[n] \in Seq(Threads) /\ n \notin Endpoints
      BY <1>0, <2>3 DEF OK, KState
    <3> HIDE DEF k2
    <3> QED BY <1>0, <2>2, <2>5, <3>3, <3>4, BeginLoopStep DEF LoopPhases
  <2> QED BY <2>1, <2>4, <2>5 DEF k1
<1> QED BY <1>1, <1>2, <1>3

-----------------------------------------------------------------------------
(* Interrupts and the steps of the kernel *)

\* The timer and the interrupts that signal a notification keep the invariant.
LEMMA InterruptStep == ASSUME IInv, Interrupt PROVE IInv'
<1>0. OK(ks) /\ ks \in KState
  BY DEF IInv, TypeOK, OK
<1>1. ASSUME TimerInterrupt PROVE IInv'
  <2>1. phase = "user" /\ EndHandler(timerTick(ks))
    BY <1>1 DEF TimerInterrupt
  <2>2. ks.ksDomainTime > 0
    BY <2>1 DEF IInv, DomainTimePositive
  <2> DEFINE k == timerTick(ks)
  <2>3. /\ k \in KState /\ SameObjects(ks, k)
        /\ k.ksDomainTime = 0 => k.ksSchedulerAction = ChooseNewThread
    BY <1>0, <2>2, TimerTickType
  <2>4. ks' = k /\ phase' = "schedule" /\ loop' = loop
    BY <2>1 DEF EndHandler
  <2> HIDE DEF k
  <2>5. ObjectsOK(k)
    BY <2>3, SameObjectsOK DEF IInv
  <2>6. TypeOK' /\ DomainTimePositive' /\ LoopOK'
    BY <2>3, <2>4 DEF IInv, TypeOK, DomainTimePositive, LoopOK
  <2> QED BY <2>4, <2>5, <2>6 DEF IInv
<1>2. ASSUME NEW ntfn \in Ntfns, NEW badge \in SUBSET SignalBits, SignalInterrupt(ntfn, badge)
      PROVE  IInv'
  <2>1. phase = "user" /\ EndHandler(sendSignal(ks, ntfn, badge))
    BY <1>2 DEF SignalInterrupt
  <2>2. Kept(ks, sendSignal(ks, ntfn, badge))
    BY <1>0, KeptSendSignal DEF Ntfns
  <2> QED BY <2>1, <2>2, HandlerStep
<1> QED BY <1>1, <1>2 DEF Interrupt

\* schedule() and activateThread() return to the user in a domain with time.
LEMMA ScheduleStep == ASSUME IInv, ScheduleAndActivate PROVE IInv'
<1> DEFINE k1 == schedule(ks)
           k2 == activateThread(k1)
           k3 == [k2 EXCEPT !.transfer = NoTransfer]
<1>1. ScheduledOK(ks, k1)
  BY ScheduleScheduled DEF IInv, TypeOK, DomainTimePositive
<1> HIDE DEF k1
<1>2. Framed(k1, k2) /\ k2 \in KState
  BY <1>1, FramedActivate DEF ScheduledOK, Framed
<1> HIDE DEF k2
<1>3. ScheduledOK(ks, k2)
  BY <1>1, <1>2, ScheduledSwitched DEF Framed, SameFrame, Switched
<1>4. OK(k2)
  BY <1>3, SameObjectsOK DEF IInv, ScheduledOK, OK
<1>5. k3 \in KState /\ SameQueues(k2, k3)
  BY <1>2 DEF KState, SameQueues, NoTransfer
<1>6. ks' = k3 /\ phase' = "user" /\ loop' = loop
  BY DEF ScheduleAndActivate, k1, k2
<1> HIDE DEF k3
<1>7. Kept(k2, k3)
  BY <1>4, <1>5, KeptSame
<1>8. TypeOK' /\ DomainTimePositive' /\ LoopOK'
  BY <1>3, <1>5, <1>6, <1>7 DEF IInv, TypeOK, DomainTimePositive, LoopOK, ScheduledOK, Kept
<1> QED BY <1>6, <1>7, <1>8 DEF IInv, Kept, OK

\* The steps that finish a kernel entry keep the invariant.
LEMMA KernelStepStep == ASSUME IInv, KernelStep PROVE IInv'
<1>0. OK(ks) /\ ks \in KState /\ loop \in LoopType
  BY DEF IInv, TypeOK, OK
<1>1. ASSUME NEW q \in Seq(Threads), q # <<>> PROVE Head(q) \in Threads /\ Tail(q) \in Seq(Threads)
  BY <1>1
<1>2. CASE CancelAllStep
  <2>1. /\ phase \in LoopPhases /\ loop.todo # <<>> /\ phase' = phase
        /\ ks' = wakeToRestart(ks, Head(loop.todo))
        /\ loop' = [loop EXCEPT !.todo = Tail(@), !.queue = Tail(loop.todo)]
    BY <1>2 DEF CancelAllStep, LoopPhases
  <2>2. Head(loop.todo) \in Threads /\ Tail(loop.todo) \in Seq(Threads)
    BY <1>0, <1>1, <2>1 DEF LoopType
  <2>3. loop' \in LoopType /\ loop'.obj = loop.obj
    BY <1>0, <2>1, <2>2 DEF LoopType
  <2>4. Kept(ks, ks') /\ ks'.epState = ks.epState
    BY <1>0, <2>1, <2>2, KeptWakeToRestart
  <2> QED BY <2>1, <2>3, <2>4, LoopIterationStep
<1>3. CASE CancelAllDone
  <2>1. phase \in LoopPhases /\ EndLoop([ks EXCEPT !.live = @ \ {loop.obj}])
    BY <1>3 DEF CancelAllDone, LoopPhases
  <2>2. Kept(ks, [ks EXCEPT !.live = ks.live \ {loop.obj}])
    BY <1>0, KeptLive DEF KState
  <2> QED BY <2>1, <2>2, EndLoopStep
<1>4. CASE CancelBadgedStep
  <2> DEFINE thread == Head(loop.todo)
             match  == ks.blocking[thread].badge = loop.badge
  <2>1. /\ phase \in LoopPhases /\ loop.todo # <<>> /\ phase' = phase
        /\ ks' = IF match THEN wakeToRestart(ks, thread) ELSE ks
        /\ loop' = [loop EXCEPT !.todo = Tail(@),
                                !.queue = IF match THEN tcbEPDequeue(thread, @) ELSE @]
    BY <1>4 DEF CancelBadgedStep, LoopPhases
  <2>2. thread \in Threads /\ Tail(loop.todo) \in Seq(Threads)
    BY <1>0, <1>1, <2>1 DEF LoopType
  <2> HIDE DEF thread, match
  <2>3. tcbEPDequeue(thread, loop.queue) \in Seq(Threads)
    BY <1>0, <2>2, DequeueType DEF LoopType
  <2>4. loop' \in LoopType /\ loop'.obj = loop.obj
    BY <1>0, <2>1, <2>2, <2>3 DEF LoopType
  <2>5. Kept(ks, ks') /\ ks'.epState = ks.epState
    BY <1>0, <2>1, <2>2, KeptWakeToRestart, KeptSelf
  <2> QED BY <2>1, <2>4, <2>5, LoopIterationStep
<1>5. CASE CancelBadgedDone
  <2> DEFINE st == IF loop.queue # <<>> THEN "Send" ELSE ks.epState[loop.obj]
             k  == [ks EXCEPT !.epQueue[loop.obj] = loop.queue, !.epState[loop.obj] = st]
  <2>1. phase = "cancelBadgedSends" /\ phase \in LoopPhases
    BY <1>5 DEF CancelBadgedDone, LoopPhases
  <2>2. k = [ks EXCEPT !.epQueue[loop.obj] = loop.queue,
                       !.epState[loop.obj] = IF loop.queue # <<>> THEN "Send" ELSE @]
    BY <1>0 DEF KState
  <2>3. EndLoop(k)
    BY <1>5, <2>2 DEF CancelBadgedDone
  <2>4. ASSUME loop.obj \in Endpoints
        PROVE  loop.queue \in Seq(Threads) /\ st \in EPStates /\ (st = "Idle" <=> loop.queue = <<>>)
    <3>1. ks.epState[loop.obj] = "Idle"
      BY <2>1, <2>4 DEF IInv, LoopOK
    <3> QED BY <1>0, <3>1 DEF LoopType, EPStates
  <2> HIDE DEF st
  <2>5. Kept(ks, k)
    BY <1>0, <2>4, KeptEndpoint
  <2> HIDE DEF k
  <2> QED BY <2>1, <2>3, <2>5, EndLoopStep
<1> QED BY <1>2, <1>3, <1>4, <1>5, ScheduleStep DEF KernelStep

\* Every step of the kernel keeps the invariant.
LEMMA NextIInv == IInv /\ [Next]_vars => IInv'
<1> SUFFICES ASSUME IInv, [Next]_vars PROVE IInv'
  OBVIOUS
<1>1. CASE ObjectInvocation
  BY <1>1, SlotStep, TCBStep, LoopInvocationStep, Zenon DEF ObjectInvocation
<1>2. CASE UNCHANGED vars
  BY <1>2 DEF vars, IInv, TypeOK, ObjectsOK, BoundOK, EPStatesOK, NtfnStatesOK,
              DomainTimePositive, LoopOK
<1> QED BY <1>1, <1>2, IPCStep, InterruptStep, KernelStepStep DEF Next

\* The invariant holds in every state the kernel reaches.
LEMMA SpecIInv == Spec => []IInv
<1> QED BY InitIInv, NextIInv, PTL DEF Spec

-----------------------------------------------------------------------------
(* What is proved *)

\* Every variable keeps its type, through every kernel function: no time slice
\* reaches 0, and no queue, cap or scheduler action holds anything but a TCB.
THEOREM TypeCorrect == Spec => []TypeOK
<1>1. IInv => TypeOK
  BY DEF IInv
<1> QED BY <1>1, SpecIInv, PTL

\* timerTick never decrements a domain time of 0, for every domain schedule:
\* the end of a domain's time survives every path of schedule().
THEOREM DomainTimeNeverWraps == Spec => []DomainTimePositive
<1>1. IInv => DomainTimePositive
  BY DEF IInv
<1> QED BY <1>1, SpecIInv, PTL

\* TCBs and notifications are bound one to one and only the bound thread waits
\* on a bound notification, for any number of threads and notifications.
THEOREM BindingsConsistent == Spec => []BoundNotifications
<1>1. IInv => BoundNotifications
  BY DEF IInv, ObjectsOK, BoundNotifications
<1> QED BY <1>1, SpecIInv, PTL

=============================================================================
