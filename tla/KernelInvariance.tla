--------------------------- MODULE KernelInvariance ---------------------------
(***************************************************************************)
(* KernelInv is an invariant of the kernel: what FunctionInvariance says   *)
(* of its functions, put together for every action of Kernel, and what it  *)
(* means for the properties of KernelProperties; and the fast paths, which *)
(* in a state that satisfies it do what the slow paths do.                 *)
(***************************************************************************)
EXTENDS FunctionInvariance

-----------------------------------------------------------------------------
(* The fast paths, and the slow paths under their conditions *)

\* The fields of k that a fast path or the slow path it stands for writes.
Patched(k, ts, bl, rc, eq, es, tr, ac, ct) ==
  [k EXCEPT !.tsType = ts, !.blocking = bl, !.replyCap = rc, !.epQueue = eq, !.epState = es,
            !.transfer = tr, !.ksSchedulerAction = ac, !.ksCurThread = ct]

\* The function f with the value x at t.
Upd(f, t, x) == [f EXCEPT ![t] = x]

\* A state is what its own fields make it.
LEMMA PatchedSelf ==
  ASSUME NEW k \in KState
  PROVE  k = Patched(k, k.tsType, k.blocking, k.replyCap, k.epQueue, k.epState, k.transfer,
                     k.ksSchedulerAction, k.ksCurThread)
BY DEF KState, Patched

\* What setThreadState and epBlock write.
Stored(k, t, x, y) == [k EXCEPT !.tsType[t] = x, !.blocking[t] = y]

\* An assertion that holds leaves the state as it is.
LEMMA AssertSame ==
  ASSUME NEW u, u = [f \in DOMAIN u |-> u[f]], u.asserts = TRUE, NEW c, c
  PROVE  Assert_(u, c) = u
<1>1. (u.asserts /\ c) = u.asserts
  BY Zenon
<1>2. [u EXCEPT !.asserts = u.asserts] = u
  OBVIOUS
<1> QED BY <1>1, <1>2, Zenon DEF Assert_

\* setThreadState, unless it makes the current thread stop.
LEMMA PatchedState ==
  ASSUME NEW k \in KState, NEW ts, NEW bl, NEW rc, NEW eq, NEW es, NEW tr, NEW ac, NEW ct,
         NEW t \in Threads, NEW s, Upd(ts, t, s)[t] = s,
         ac # ResumeCurrentThread \/ t # ct \/ s \in RunnableStates
  PROVE  setThreadState(Patched(k, ts, bl, rc, eq, es, tr, ac, ct), t, s)
           = Patched(k, Upd(ts, t, s), Upd(bl, t, NotBlocking), rc, eq, es, tr, ac, ct)
<1> DEFINE ts1 == Upd(ts, t, s)
           bl1 == Upd(bl, t, NotBlocking)
<1> DEFINE u == Patched(k, ts, bl, rc, eq, es, tr, ac, ct)
           v == Stored(u, t, s, NotBlocking)
<1>1. v = Patched(k, ts1, bl1, rc, eq, es, tr, ac, ct)
  BY ZenonT(40) DEF KState, Patched, Stored, Upd
<1> HIDE DEF v
<1>2. v.ksSchedulerAction = ac /\ v.ksCurThread = ct /\ v.tsType = ts1
  BY <1>1 DEF KState, Patched
<1>3. v.tsType[t] = s /\ t # IdleThread
  BY <1>2, DistinctObjects
<1>4. scheduleTCB(v, t) = v
  BY <1>2, <1>3 DEF scheduleTCB, isRunnable
<1> QED BY <1>1, <1>4 DEF v, Stored, setThreadState

\* possibleSwitchTo a thread of the active domain while the current one is to go on.
LEMMA PatchedSwitch ==
  ASSUME NEW k \in KState, NEW ts, NEW bl, NEW rc, NEW eq, NEW es, NEW tr, NEW ct,
         NEW t \in Threads, k.tcbDomain[t] = k.ksCurDomain
  PROVE  possibleSwitchTo(Patched(k, ts, bl, rc, eq, es, tr, ResumeCurrentThread, ct), t)
           = Patched(k, ts, bl, rc, eq, es, tr, t, ct)
<1> DEFINE u == Patched(k, ts, bl, rc, eq, es, tr, ResumeCurrentThread, ct)
<1>1. u.ksSchedulerAction = ResumeCurrentThread /\ u.tcbDomain[t] = u.ksCurDomain
  BY DEF KState, Patched
<1>2. [u EXCEPT !.ksSchedulerAction = t] = Patched(k, ts, bl, rc, eq, es, tr, t, ct)
  BY DEF KState, Patched
<1> QED BY <1>1, <1>2 DEF possibleSwitchTo

\* The thread t that has just been made Running is one that schedule() switches to from c.
GoodCandidate(k, ts, c, t) ==
  /\ k \in KState /\ k.asserts = TRUE /\ ts \in [Threads -> ThreadStates]
  /\ c \in Threads /\ t \in Threads
  /\ t # c /\ ts[t] = "Running" /\ ts[c] \notin RunnableStates /\ ~k.tcbQueued[t]
  /\ k.tcbPriority[t] >= k.tcbPriority[c] \/ isHighestPrio(k, k.ksCurDomain, k.tcbPriority[t])

\* The end of a kernel entry whose handler has blocked the current thread c and made t the
\* candidate, where t is good enough for schedule() to switch to it.
LEMMA PatchedScheduled ==
  ASSUME NEW k, NEW ts, NEW bl, NEW rc, NEW eq, NEW es, NEW tr, NEW c, NEW t,
         GoodCandidate(k, ts, c, t)
  PROVE  slowpath(Patched(k, ts, bl, rc, eq, es, tr, t, c))
           = Patched(k, ts, bl, rc, eq, es, NoTransfer, ResumeCurrentThread, t)
<1>g. /\ k \in KState /\ k.asserts = TRUE /\ ts \in [Threads -> ThreadStates]
      /\ c \in Threads /\ t \in Threads
      /\ t # c /\ ts[t] = "Running" /\ ts[c] \notin RunnableStates /\ ~k.tcbQueued[t]
      /\ k.tcbPriority[t] >= k.tcbPriority[c] \/ isHighestPrio(k, k.ksCurDomain, k.tcbPriority[t])
  BY DEF GoodCandidate
<1> DEFINE u == Patched(k, ts, bl, rc, eq, es, tr, t, c)
           v == Patched(k, ts, bl, rc, eq, es, tr, t, t)
           w == Patched(k, ts, bl, rc, eq, es, tr, ResumeCurrentThread, t)
<1>1. /\ u.ksSchedulerAction = t /\ u.ksCurThread = c /\ u.tsType = ts /\ u.tcbQueued = k.tcbQueued
      /\ u.tcbPriority = k.tcbPriority /\ u.ksCurDomain = k.ksCurDomain
      /\ u.ksReadyQueues = k.ksReadyQueues
  BY <1>g DEF KState, Patched
<1>2. ~isRunnable(u, c) /\ isRunnable(u, t) /\ t # IdleThread /\ c # IdleThread
  BY <1>g, <1>1, DistinctObjects DEF isRunnable, RunnableStates
<1>3. Assert_(u, isRunnable(u, t)) = u /\ Assert_(u, t # c) = u
  <2>1. u = [f \in DOMAIN u |-> u[f]]
    BY <1>g DEF Patched
  <2>2. u.asserts = k.asserts
    BY <1>g DEF KState, Patched
  <2> QED BY <1>2, <2>1, <2>2, AssertSame, <1>g
<1>4. tcbSchedDequeue(u, t) = u
  BY <1>g, <1>1 DEF tcbSchedDequeue
<1>5. switchToThread(u, t) = v
  <2>1. [u EXCEPT !.ksCurThread = t] = v
    BY <1>g DEF KState, Patched
  <2> QED BY <1>4, <2>1 DEF switchToThread
<1>6. \A p : isHighestPrio(u, u.ksCurDomain, p) <=> isHighestPrio(k, k.ksCurDomain, p)
  BY <1>1 DEF isHighestPrio, nonEmptyPrios, getHighestPrio
<1>7. k.tcbPriority[t] \in Nat /\ k.tcbPriority[c] \in Nat
  BY <1>g DEF KState, Prios
<1>8. ~(u.tcbPriority[t] < u.tcbPriority[c] /\ ~isHighestPrio(u, u.ksCurDomain, u.tcbPriority[t]))
  BY <1>g, <1>1, <1>6, <1>7
<1> HIDE DEF u, v, w
<1>9. scheduleCandidate(u, t, isRunnable(u, c)) = v
  BY <1>g, <1>1, <1>2, <1>3, <1>5, <1>8 DEF scheduleCandidate
<1>10. schedule(u) = [v EXCEPT !.ksSchedulerAction = ResumeCurrentThread]
  <2>1. t # ResumeCurrentThread /\ t # ChooseNewThread
    BY <1>g, ActionsAreNotThreads
  <2> QED BY <1>g, <1>1, <1>2, <1>9, <2>1 DEF schedule
<1>11. schedule(u) = w
  BY <1>g, <1>10 DEF KState, Patched, v, w
<1>12. w.ksCurThread = t /\ w.tsType = ts
  BY <1>g DEF KState, Patched, w
<1>13. Assert_(w, w.tsType[t] = "Running") = w
  <2>1. w = [f \in DOMAIN w |-> w[f]]
    BY <1>g DEF Patched, w
  <2>2. w.asserts = k.asserts
    BY <1>g DEF KState, Patched, w
  <2> QED BY <1>12, <2>1, <2>2, AssertSame, <1>g
<1>14. activateThread(w) = w
  BY <1>g, <1>2, <1>12, <1>13 DEF activateThread
<1>15. [w EXCEPT !.transfer = NoTransfer] = Patched(k, ts, bl, rc, eq, es, NoTransfer, ResumeCurrentThread, t)
  BY <1>g DEF KState, Patched, w
<1> QED BY <1>11, <1>14, <1>15 DEF slowpath, u

\* Taking the first TCB off a queue.
LEMMA DequeueHead ==
  ASSUME NEW q \in Seq(Threads), q # <<>>, NoDuplicates(q)
  PROVE  tcbEPDequeue(Head(q), q) = Tail(q)
<1>1. 1 \in DOMAIN q /\ Head(q) = q[1] /\ Len(q) \in Nat /\ Len(q) >= 1
  OBVIOUS
<1>2. (CHOOSE i \in DOMAIN q : q[i] = Head(q)) = 1
  BY <1>1 DEF NoDuplicates
<1>3. Head(q) \in ToSet(q)
  BY <1>1 DEF ToSet
<1>4. tcbEPDequeue(Head(q), q) = SubSeq(q, 1, 0) \o SubSeq(q, 2, Len(q))
  <2>1. tcbEPDequeue(Head(q), q) = RemoveAt(q, 1)
    BY <1>2, <1>3 DEF tcbEPDequeue
  <2>2. 1 - 1 = 0 /\ 1 + 1 = 2
    OBVIOUS
  <2> QED BY <2>1, <2>2 DEF RemoveAt
<1> DEFINE b == SubSeq(q, 2, Len(q))
<1>5. SubSeq(q, 1, 0) = <<>>
  BY <1>1
<1>6. b \in Seq(Threads) /\ Len(b) = Len(q) - 1 /\ \A i \in 1 .. Len(q) - 1 : b[i] = q[i + 1]
  <2>1. \A i \in 2 .. Len(q) : q[i] \in Threads
    BY <1>1
  <2>2. 2 \in Int /\ Len(q) \in Int /\ Len(q) - 2 + 1 = Len(q) - 1
    BY <1>1
  <2>3. /\ b \in Seq(Threads) /\ Len(b) = IF 2 <= Len(q) THEN Len(q) - 2 + 1 ELSE 0
        /\ \A i \in 1 .. Len(q) - 2 + 1 : b[i] = q[2 + i - 1]
    BY <2>1, <2>2, SubSeqProperties
  <2> HIDE DEF b
  <2>4. \A i \in 1 .. Len(q) - 1 : 2 + i - 1 = i + 1
    BY <1>1
  <2>5. Len(b) = IF 2 <= Len(q) THEN Len(q) - 2 + 1 ELSE 0
    BY <2>3
  <2>6. Len(b) = Len(q) - 1
    <3>1. \A n \in Nat : n >= 1 => (IF 2 <= n THEN n - 2 + 1 ELSE 0) = n - 1
      OBVIOUS
    <3> QED BY <1>1, <2>5, <3>1
  <2> QED BY <2>2, <2>3, <2>4, <2>6
<1> HIDE DEF b
<1>7. <<>> \o b = b
  BY <1>6
<1>8. Tail(q) \in Seq(Threads) /\ Len(Tail(q)) = Len(q) - 1
      /\ \A i \in 1 .. Len(q) - 1 : Tail(q)[i] = q[i + 1]
  BY <1>1
<1>9. b = Tail(q)
  BY <1>6, <1>8, SeqEqual
<1> QED BY <1>4, <1>5, <1>7, <1>9 DEF b

\* A state in which user code runs: what the fast paths can rely on.
UserState(k) ==
  /\ k \in KState /\ k.asserts = TRUE /\ k.transfer = NoTransfer
  /\ k.ksSchedulerAction = ResumeCurrentThread
  /\ k.ksCurThread \in Threads /\ k.tsType[k.ksCurThread] = "Running"
  /\ ObjectsInv(k) /\ SchedulerInv(k, {}) /\ EPStatesOK(k)

\* A thread that is not runnable is not queued.
LEMMA BlockedNotQueued ==
  ASSUME NEW k, UserState(k), NEW t \in Threads, k.tsType[t] \notin RunnableStates
  PROVE  ~k.tcbQueued[t] /\ t # k.ksCurThread
BY DEF UserState, SchedulerInv, isRunnable, RunnableStates

\* The thread that a fast path switches to is of the active domain.
LEMMA SameDomainFP ==
  ASSUME NEW k \in KState, NEW t \in Threads, sameDomain_fp(k, t)
  PROVE  k.tcbDomain[t] = k.ksCurDomain
<1>1. k.tcbDomain[t] \in Domains /\ k.ksCurDomain \in Domains
  BY DEF KState
<1> QED BY <1>1 DEF sameDomain_fp, Domains

\* What fastpath_call writes.
CallEffect(k, ep, c, d, qu, st) ==
  [k EXCEPT !.epQueue[ep] = qu, !.epState[ep] = st, !.tsType[c] = "BlockedOnReply", !.replyCap[d] = c,
            !.tsType[d] = "Running", !.blocking[d] = NotBlocking, !.ksCurThread = d]

\* The fields that fastpath_call writes.
LEMMA CallEffectFields ==
  ASSUME NEW k \in KState, NEW ep, NEW c, NEW d, NEW qu, NEW st
  PROVE  CallEffect(k, ep, c, d, qu, st)
           = Patched(k, Upd(Upd(k.tsType, c, "BlockedOnReply"), d, "Running"), Upd(k.blocking, d, NotBlocking),
                     Upd(k.replyCap, d, c), Upd(k.epQueue, ep, qu), Upd(k.epState, ep, st), k.transfer,
                     k.ksSchedulerAction, d)
BY ZenonT(40) DEF KState, CallEffect, Patched, Upd

\* fastpath_call leaves the state that handleInvocation, schedule() and activateThread() leave.
LEMMA FastpathCallAgrees ==
  ASSUME NEW k, UserState(k), NEW ep \in Endpoints, NEW badge, NEW canReply \in BOOLEAN,
         fastpath_call_ok(k, ep, canReply)
  PROVE  fastpath_call(k, ep) = slowpath(finishInvocation(
           sendIPC(beginInvocation(k), TRUE, TRUE, badge, canReply, k.ksCurThread, ep)))
<1> DEFINE c   == k.ksCurThread
           q   == k.epQueue[ep]
           d   == Head(q)
           ts1 == Upd(k.tsType, c, "Restart")
           ts2 == Upd(ts1, d, "Running")
           ts3 == Upd(ts2, c, "BlockedOnReply")
           bl1 == Upd(k.blocking, c, NotBlocking)
           bl2 == Upd(bl1, d, NotBlocking)
           bl3 == Upd(bl2, c, NotBlocking)
           rc1 == Upd(k.replyCap, d, c)
           eq1 == Upd(k.epQueue, ep, Tail(q))
           es1 == Upd(k.epState, ep, IF Tail(q) = <<>> THEN "Idle" ELSE k.epState[ep])
           tr1 == [label |-> IF k.tcbFault[c] THEN "Fault" ELSE "Normal", isCall |-> TRUE]
           k1  == Patched(k, ts1, bl1, k.replyCap, k.epQueue, k.epState, NoTransfer, ResumeCurrentThread, c)
           k2  == Patched(k, ts1, bl1, k.replyCap, eq1, es1, NoTransfer, ResumeCurrentThread, c)
           k3  == Patched(k, ts1, bl1, k.replyCap, eq1, es1, tr1, ResumeCurrentThread, c)
           k4  == Patched(k, ts2, bl2, k.replyCap, eq1, es1, tr1, ResumeCurrentThread, c)
           k5  == Patched(k, ts2, bl2, k.replyCap, eq1, es1, tr1, d, c)
           k6  == Patched(k, ts3, bl3, k.replyCap, eq1, es1, tr1, d, c)
           k7  == Patched(k, ts3, bl3, rc1, eq1, es1, tr1, d, c)
           k8  == Patched(k, ts3, bl3, rc1, eq1, es1, NoTransfer, ResumeCurrentThread, d)
<1>1. /\ k \in KState /\ k.asserts = TRUE /\ c \in Threads /\ k.tsType[c] = "Running"
      /\ k.transfer = NoTransfer /\ k.ksSchedulerAction = ResumeCurrentThread
      /\ k.epState[ep] = "Recv" /\ canReply /\ sameDomain_fp(k, d)
      /\ k.tcbPriority[d] >= k.tcbPriority[c] \/ isHighestPrio(k, k.ksCurDomain, k.tcbPriority[d])
  BY DEF UserState, fastpath_call_ok
<1>2. q # <<>> /\ q \in Seq(Threads) /\ NoDuplicates(q)
  BY <1>1 DEF UserState, EPStatesOK, ObjectsInv, EPLinked, Linked, KState
<1>3. d \in Threads /\ d \in ToSet(q) /\ Tail(q) \in Seq(Threads) /\ tcbEPDequeue(d, q) = Tail(q)
  BY <1>2, HeadTailQueue, DequeueHead
<1>4. k.tsType[d] = "BlockedOnReceive" /\ k.replyCap[d] = Null
  BY <1>1, <1>3 DEF UserState, ObjectsInv, ThreadsInv, EPKinds, RepliesOK
<1>5. ~k.tcbQueued[d] /\ d # c
  BY <1>3, <1>4, BlockedNotQueued DEF RunnableStates
<1>6. k.blocking[c] = NotBlocking /\ k.replyMaster[c]
  BY <1>1 DEF UserState, ObjectsInv, ThreadsInv, BlockingOK, RepliesOK, WaitStates, EPBlocked
<1>7. k.tcbDomain[d] = k.ksCurDomain
  BY <1>1, <1>3, SameDomainFP
<1>8. /\ k.tsType \in [Threads -> ThreadStates] /\ k.blocking \in [Threads -> Blocking]
      /\ k.epQueue \in [Endpoints -> Seq(Threads)] /\ k.epState \in [Endpoints -> EPStates]
  BY <1>1 DEF KState
<1>9. /\ ts1[c] = "Restart" /\ ts2[d] = "Running" /\ ts3[c] = "BlockedOnReply" /\ ts3[d] = "Running"
      /\ ts3 \in [Threads -> ThreadStates]
  BY <1>1, <1>3, <1>5, <1>8 DEF Upd, ThreadStates, RunnableStates, StoppedStates
<1>10. ts3 = Upd(Upd(k.tsType, c, "BlockedOnReply"), d, "Running")
  BY <1>1, <1>3, <1>5, <1>8 DEF Upd
<1>11. bl3 = Upd(k.blocking, d, NotBlocking)
  BY <1>1, <1>3, <1>5, <1>6, <1>8 DEF Upd
<1>e. eq1[ep] = Tail(q) /\ es1[ep] = IF Tail(q) = <<>> THEN "Idle" ELSE k.epState[ep]
  BY <1>8 DEF Upd
<1> HIDE DEF c, q, d, ts1, ts2, ts3, bl1, bl2, bl3, rc1, eq1, es1, tr1
<1>12. beginInvocation(k) = k1
  <2>1. k = Patched(k, k.tsType, k.blocking, k.replyCap, k.epQueue, k.epState, NoTransfer,
                    ResumeCurrentThread, c)
    BY <1>1, PatchedSelf DEF c
  <2>2. setThreadState(Patched(k, k.tsType, k.blocking, k.replyCap, k.epQueue, k.epState, NoTransfer,
                    ResumeCurrentThread, c), c, "Restart") = k1
    BY <1>1, <1>9, PatchedState DEF ts1, bl1, RunnableStates
  <2> QED BY <2>1, <2>2 DEF beginInvocation, c
<1>13. k1.epQueue[ep] = q /\ k1.epState[ep] = "Recv" /\ Assert_(k1, q # <<>>) = k1
  <2>1. k1 = [f \in DOMAIN k1 |-> k1[f]]
    BY DEF Patched
  <2>2. k1.asserts = k.asserts /\ k1.epQueue = k.epQueue /\ k1.epState = k.epState
    BY <1>1 DEF KState, Patched
  <2>3. Assert_(k1, q # <<>>) = k1
    <3> HIDE DEF k1
    <3> QED BY <1>1, <1>2, <2>1, <2>2, AssertSame
  <2> HIDE DEF k1
  <2> QED BY <1>1, <2>2, <2>3 DEF q
<1>14. epDequeue(k1, ep, d) = k2
  <2>1. epDequeue(k1, ep, d)
          = [k1 EXCEPT !.epQueue[ep] = Tail(q), !.epState[ep] = IF Tail(q) = <<>> THEN "Idle" ELSE @]
    BY <1>13, <1>3 DEF epDequeue
  <2>2. [k1 EXCEPT !.epQueue[ep] = Tail(q), !.epState[ep] = IF Tail(q) = <<>> THEN "Idle" ELSE @] = k2
    BY <1>1, ZenonT(40) DEF KState, Patched, Upd, eq1, es1
  <2> QED BY <2>1, <2>2
<1>15. doIPCTransfer(k2, c, TRUE) = k3
  <2>1. k2.tcbFault = k.tcbFault
    BY <1>1 DEF KState, Patched
  <2>2. [k2 EXCEPT !.transfer = tr1] = k3
    BY <1>1 DEF KState, Patched
  <2> QED BY <2>1, <2>2 DEF doIPCTransfer, tr1
<1>16. setThreadState(k3, d, "Running") = k4
  <2>1. Upd(ts1, d, "Running")[d] = "Running"
    BY <1>9 DEF ts2
  <2> QED BY <1>1, <1>3, <1>5, <2>1, PatchedState DEF ts2, bl2
<1>17. possibleSwitchTo(k4, d) = k5
  BY <1>1, <1>3, <1>7, PatchedSwitch
<1>18. setThreadState(k5, c, "BlockedOnReply") = k6
  <2>1. d # ResumeCurrentThread
    BY <1>3, ActionsAreNotThreads
  <2>2. Upd(ts2, c, "BlockedOnReply")[c] = "BlockedOnReply"
    BY <1>9 DEF ts3
  <2> QED BY <1>1, <2>1, <2>2, PatchedState DEF ts3, bl3
<1>19. setupCallerCap(k5, c, d) = k7
  <2>1. k6 = [f \in DOMAIN k6 |-> k6[f]]
    BY DEF Patched
  <2>2. k6.asserts = k.asserts /\ k6.replyMaster = k.replyMaster /\ k6.replyCap = k.replyCap
    BY <1>1 DEF KState, Patched
  <2>3. Assert_(k6, k6.replyMaster[c] /\ k6.replyCap[d] = Null) = k6
    <3> HIDE DEF k6
    <3>1. k6.replyMaster[c] /\ k6.replyCap[d] = Null
      BY <1>4, <1>6, <2>2, Zenon
    <3>2. k6.asserts = TRUE
      BY <1>1, <2>2
    <3> QED BY <2>1, <3>1, <3>2, AssertSame
  <2>4. [k6 EXCEPT !.replyCap[d] = c] = k7
    BY <1>1 DEF KState, Patched, Upd, rc1
  <2> HIDE DEF k6
  <2> QED BY <1>18, <2>3, <2>4 DEF setupCallerCap
<1> HIDE DEF k1, k2, k3, k4, k5, k6, k7
<1>20. sendIPC(beginInvocation(k), TRUE, TRUE, badge, canReply, c, ep) = k7
  BY <1>1, <1>12, <1>13, <1>14, <1>15, <1>16, <1>17, <1>19 DEF sendIPC, d
<1>21. finishInvocation(k7) = k7
  <2>1. k7.tsType = ts3 /\ k7.ksCurThread = c
    BY <1>1 DEF KState, Patched, k7
  <2> QED BY <1>9, <2>1 DEF finishInvocation
<1>22. slowpath(k7) = k8
  <2>1. ts3[c] \notin RunnableStates
    BY <1>9 DEF RunnableStates
  <2> HIDE DEF k8
  <2>2. k7 = Patched(k, ts3, bl3, rc1, eq1, es1, tr1, d, c)
        /\ k8 = Patched(k, ts3, bl3, rc1, eq1, es1, NoTransfer, ResumeCurrentThread, d)
    BY DEF k7, k8
  <2>3. slowpath(Patched(k, ts3, bl3, rc1, eq1, es1, tr1, d, c))
          = Patched(k, ts3, bl3, rc1, eq1, es1, NoTransfer, ResumeCurrentThread, d)
    <3>1. GoodCandidate(k, ts3, c, d)
      BY <1>1, <1>3, <1>5, <1>9, <2>1, Zenon DEF GoodCandidate
    <3> QED BY <3>1, PatchedScheduled
  <2> QED BY <2>2, <2>3
<1>23. fastpath_call(k, ep) = k8
  <2>1. fastpath_call(k, ep)
          = CallEffect(k, ep, c, d, Tail(q), IF Tail(q) = <<>> THEN "Idle" ELSE k.epState[ep])
    BY Zenon DEF fastpath_call, CallEffect, c, d, q
  <2> DEFINE qu == Tail(q)
             st == IF Tail(q) = <<>> THEN "Idle" ELSE k.epState[ep]
  <2>2. eq1 = Upd(k.epQueue, ep, qu) /\ es1 = Upd(k.epState, ep, st) /\ rc1 = Upd(k.replyCap, d, c)
    BY DEF eq1, es1, rc1
  <2> HIDE DEF qu, st
  <2>3. CallEffect(k, ep, c, d, qu, st)
           = Patched(k, Upd(Upd(k.tsType, c, "BlockedOnReply"), d, "Running"), Upd(k.blocking, d, NotBlocking),
                     Upd(k.replyCap, d, c), Upd(k.epQueue, ep, qu), Upd(k.epState, ep, st), k.transfer,
                     k.ksSchedulerAction, d)
    BY <1>1, CallEffectFields
  <2> HIDE DEF k8
  <2>4. k8 = Patched(k, ts3, bl3, rc1, eq1, es1, k.transfer, k.ksSchedulerAction, d)
    BY <1>1 DEF k8
  <2> QED BY <2>1, <2>2, <2>3, <2>4, <1>10, <1>11 DEF qu, st
<1> QED BY <1>20, <1>21, <1>22, <1>23 DEF c

\* Deleting a reply cap.
LEMMA PatchedDelete ==
  ASSUME NEW k \in KState, NEW ts, NEW bl, NEW rc, NEW eq, NEW es, NEW tr, NEW ac, NEW ct, NEW slot
  PROVE  cteDeleteOne(Patched(k, ts, bl, rc, eq, es, tr, ac, ct), slot)
           = Patched(k, ts, bl, Upd(rc, slot, Null), eq, es, tr, ac, ct)
BY DEF KState, Patched, Upd, cteDeleteOne

\* Blocking a thread on an endpoint while another one is the candidate of the scheduler.
LEMMA PatchedBlock ==
  ASSUME NEW k \in KState, NEW ts, NEW bl, NEW rc, NEW eq, NEW es, NEW tr, NEW ac, NEW ct,
         NEW ep, NEW t, NEW s, NEW epst, NEW info, ac # ResumeCurrentThread
  PROVE  epBlock(Patched(k, ts, bl, rc, eq, es, tr, ac, ct), ep, t, s, epst, info)
           = Patched(k, Upd(ts, t, s), Upd(bl, t, info), rc, Upd(eq, ep, tcbEPAppend(t, eq[ep])),
                     Upd(es, ep, epst), tr, ac, ct)
<1> DEFINE u == Stored(Patched(k, ts, bl, rc, eq, es, tr, ac, ct), t, s, info)
           v == Patched(k, Upd(ts, t, s), Upd(bl, t, info), rc, eq, es, tr, ac, ct)
<1>1. u = v
  BY ZenonT(40) DEF KState, Patched, Stored, Upd
<1>2. v.ksSchedulerAction = ac /\ v.epQueue = eq
  BY DEF KState, Patched
<1>3. [v EXCEPT !.epQueue[ep] = tcbEPAppend(t, eq[ep]), !.epState[ep] = epst]
        = Patched(k, Upd(ts, t, s), Upd(bl, t, info), rc, Upd(eq, ep, tcbEPAppend(t, eq[ep])),
                  Upd(es, ep, epst), tr, ac, ct)
  BY ZenonT(40) DEF KState, Patched, Upd
<1> HIDE DEF v
<1>4. scheduleTCB(v, t) = v
  BY <1>2 DEF scheduleTCB
<1> QED BY <1>1, <1>2, <1>3, <1>4 DEF epBlock, Stored

\* What fastpath_reply_recv writes.
ReplyRecvEffect(k, ep, c, r, qu, info) ==
  [k EXCEPT !.tsType[c] = "BlockedOnReceive", !.blocking[c] = info, !.epQueue[ep] = qu,
            !.epState[ep] = "Recv", !.replyCap[c] = Null, !.tsType[r] = "Running", !.ksCurThread = r]

\* The fields that fastpath_reply_recv writes.
LEMMA ReplyRecvEffectFields ==
  ASSUME NEW k \in KState, NEW ep, NEW c, NEW r, NEW qu, NEW info
  PROVE  ReplyRecvEffect(k, ep, c, r, qu, info)
           = Patched(k, Upd(Upd(k.tsType, c, "BlockedOnReceive"), r, "Running"), Upd(k.blocking, c, info),
                     Upd(k.replyCap, c, Null), Upd(k.epQueue, ep, qu), Upd(k.epState, ep, "Recv"),
                     k.transfer, k.ksSchedulerAction, r)
BY ZenonT(40) DEF KState, ReplyRecvEffect, Patched, Upd

\* fastpath_reply_recv leaves the state that handleReply, handleRecv, schedule() and
\* activateThread() leave.
LEMMA FastpathReplyRecvAgrees ==
  ASSUME NEW k, UserState(k), NEW ep \in Endpoints, fastpath_reply_recv_ok(k, ep)
  PROVE  fastpath_reply_recv(k, ep) = slowpath(handleRecv(handleReply(k, TRUE), ep, TRUE, Null))
<1> DEFINE c    == k.ksCurThread
           r    == k.replyCap[c]
           info == [NotBlocking EXCEPT !.obj = ep]
           ts1  == Upd(k.tsType, r, "Running")
           ts2  == Upd(ts1, c, "BlockedOnReceive")
           bl1  == Upd(k.blocking, r, NotBlocking)
           bl2  == Upd(bl1, c, info)
           rc1  == Upd(k.replyCap, c, Null)
           rc2  == Upd(rc1, c, Null)
           qu   == tcbEPAppend(c, k.epQueue[ep])
           eq1  == Upd(k.epQueue, ep, qu)
           es1  == Upd(k.epState, ep, "Recv")
           tr1  == [label |-> IF k.tcbFault[c] THEN "Fault" ELSE "Normal", isCall |-> FALSE]
           k1   == Patched(k, k.tsType, k.blocking, k.replyCap, k.epQueue, k.epState, tr1, ResumeCurrentThread, c)
           k2   == Patched(k, k.tsType, k.blocking, rc1, k.epQueue, k.epState, tr1, ResumeCurrentThread, c)
           k3   == Patched(k, ts1, bl1, rc1, k.epQueue, k.epState, tr1, ResumeCurrentThread, c)
           k4   == Patched(k, ts1, bl1, rc1, k.epQueue, k.epState, tr1, r, c)
           k5   == Patched(k, ts1, bl1, rc2, k.epQueue, k.epState, tr1, r, c)
           k6   == Patched(k, ts2, bl2, rc2, eq1, es1, tr1, r, c)
           k7   == Patched(k, ts2, bl2, rc2, eq1, es1, NoTransfer, ResumeCurrentThread, r)
<1>1. /\ k \in KState /\ k.asserts = TRUE /\ c \in Threads /\ k.tsType[c] = "Running"
      /\ k.transfer = NoTransfer /\ k.ksSchedulerAction = ResumeCurrentThread
      /\ k.epState[ep] # "Send" /\ r # Null /\ sameDomain_fp(k, r) /\ ~k.tcbFault[r]
      /\ isHighestPrio(k, k.ksCurDomain, k.tcbPriority[r])
      /\ k.tcbBoundNotification[c] = Null \/ k.ntfnState[k.tcbBoundNotification[c]] # "Active"
  BY DEF UserState, fastpath_reply_recv_ok
<1>2. r \in Threads /\ k.tsType[r] = "BlockedOnReply"
  <2>1. c \in ReplySlots /\ k.replyCap \in [ReplySlots -> Threads \cup {Null}]
    BY <1>1 DEF KState, ReplySlots
  <2>2. RepliesOK(k.tsType, k.replyCap, k.replyMaster)
    BY DEF UserState, ObjectsInv, ThreadsInv
  <2> QED BY <1>1, <2>1, <2>2 DEF RepliesOK
<1>3. ~k.tcbQueued[r] /\ r # c
  BY <1>2, BlockedNotQueued DEF RunnableStates
<1>4. k.blocking[r] = NotBlocking
  BY <1>2 DEF UserState, ObjectsInv, ThreadsInv, BlockingOK, RepliesOK, WaitStates, EPBlocked
<1>5. k.tcbDomain[r] = k.ksCurDomain
  BY <1>1, <1>2, SameDomainFP
<1>6. /\ k.tsType \in [Threads -> ThreadStates] /\ k.blocking \in [Threads -> Blocking]
      /\ k.replyCap \in [ReplySlots -> Threads \cup {Null}] /\ c \in ReplySlots
  BY <1>1 DEF KState, ReplySlots
<1>7. /\ ts1[r] = "Running" /\ ts2[c] = "BlockedOnReceive" /\ ts2[r] = "Running"
      /\ ts2 \in [Threads -> ThreadStates]
  BY <1>1, <1>2, <1>3, <1>6 DEF Upd, ThreadStates, RunnableStates, StoppedStates
<1>8. ts2 = Upd(Upd(k.tsType, c, "BlockedOnReceive"), r, "Running")
  BY <1>1, <1>2, <1>3, <1>6 DEF Upd
<1>9. bl2 = Upd(k.blocking, c, info)
  <2>1. bl1 = k.blocking
    BY <1>2, <1>4, <1>6 DEF Upd
  <2> QED BY <2>1
<1>10. rc2 = rc1
  BY <1>6 DEF Upd
<1> HIDE DEF c, r, info, ts1, ts2, bl1, bl2, rc1, rc2, qu, eq1, es1, tr1
<1>11. Assert_(k, k.tsType[r] = "BlockedOnReply") = k /\ Assert_(k, r # c) = k
  <2>1. k = [f \in DOMAIN k |-> k[f]]
    BY <1>1 DEF KState
  <2> QED BY <1>1, <1>2, <1>3, <2>1, AssertSame
<1>12. doIPCTransfer(k, c, FALSE) = k1
  <2>1. doIPCTransfer(k, c, FALSE) = [k EXCEPT !.transfer = tr1]
    BY DEF doIPCTransfer, tr1
  <2>2. [k EXCEPT !.transfer = tr1] = k1
    BY <1>1 DEF KState, Patched, c
  <2> QED BY <2>1, <2>2
<1>13. cteDeleteOne(k1, c) = k2
  BY <1>1, PatchedDelete DEF rc1
<1>14. setThreadState(k2, r, "Running") = k3
  <2>1. Upd(k.tsType, r, "Running")[r] = "Running"
    BY <1>7 DEF ts1
  <2> QED BY <1>1, <1>2, <1>3, <2>1, PatchedState DEF ts1, bl1
<1>15. possibleSwitchTo(k3, r) = k4
  BY <1>1, <1>2, <1>5, PatchedSwitch
<1>16. deleteCallerCap(k4, c) = k5
  BY <1>1, PatchedDelete DEF rc2, deleteCallerCap
<1>17. epBlock(k5, ep, c, "BlockedOnReceive", "Recv", info) = k6
  <2>1. r # ResumeCurrentThread
    BY <1>2, ActionsAreNotThreads
  <2> QED BY <1>1, <2>1, PatchedBlock DEF ts2, bl2, eq1, es1, qu
<1>18. k4.ksCurThread = c
  BY <1>1 DEF KState, Patched
<1>19. k5.tcbBoundNotification = k.tcbBoundNotification /\ k5.ntfnState = k.ntfnState /\ k5.epState = k.epState
  BY <1>1 DEF KState, Patched
<1> HIDE DEF k1, k2, k3, k4, k5, k6
<1>20. handleReply(k, TRUE) = k4
  <2>1. doReplyTransfer(k, c, r, c, TRUE) = k4
    BY <1>1, <1>11, <1>12, <1>13, <1>14, <1>15 DEF doReplyTransfer
  <2> QED BY <1>1, <1>11, <2>1 DEF handleReply, c, r
<1>21. receiveIPC(k5, c, ep, TRUE) = k6
  BY <1>1, <1>17, <1>19 DEF receiveIPC, info
<1>22. handleRecv(k4, ep, TRUE, Null) = k6
  BY <1>16, <1>18, <1>21, DistinctObjects DEF handleRecv
<1>23. slowpath(k6) = k7
  <2>1. ts2[c] \notin RunnableStates
    BY <1>7 DEF RunnableStates
  <2> HIDE DEF k7
  <2>2. k6 = Patched(k, ts2, bl2, rc2, eq1, es1, tr1, r, c)
        /\ k7 = Patched(k, ts2, bl2, rc2, eq1, es1, NoTransfer, ResumeCurrentThread, r)
    BY DEF k6, k7
  <2>3. GoodCandidate(k, ts2, c, r)
    BY <1>1, <1>2, <1>3, <1>7, <2>1, Zenon DEF GoodCandidate
  <2>4. slowpath(Patched(k, ts2, bl2, rc2, eq1, es1, tr1, r, c))
          = Patched(k, ts2, bl2, rc2, eq1, es1, NoTransfer, ResumeCurrentThread, r)
    BY <2>3, PatchedScheduled
  <2> QED BY <2>2, <2>4
<1>24. fastpath_reply_recv(k, ep) = k7
  <2>1. fastpath_reply_recv(k, ep) = ReplyRecvEffect(k, ep, c, r, qu, info)
    BY Zenon DEF fastpath_reply_recv, ReplyRecvEffect, c, r, qu, info
  <2>2. eq1 = Upd(k.epQueue, ep, qu) /\ es1 = Upd(k.epState, ep, "Recv") /\ rc2 = Upd(k.replyCap, c, Null)
    BY <1>10 DEF eq1, es1, rc1
  <2>3. ReplyRecvEffect(k, ep, c, r, qu, info)
           = Patched(k, Upd(Upd(k.tsType, c, "BlockedOnReceive"), r, "Running"), Upd(k.blocking, c, info),
                     Upd(k.replyCap, c, Null), Upd(k.epQueue, ep, qu), Upd(k.epState, ep, "Recv"),
                     k.transfer, k.ksSchedulerAction, r)
    BY <1>1, ReplyRecvEffectFields
  <2> HIDE DEF k7
  <2>4. k7 = Patched(k, ts2, bl2, rc2, eq1, es1, k.transfer, k.ksSchedulerAction, r)
    BY <1>1 DEF k7
  <2> QED BY <2>1, <2>2, <2>3, <2>4, <1>8, <1>9
<1> QED BY <1>20, <1>22, <1>23, <1>24

-----------------------------------------------------------------------------

USE DistinctObjects, ConfigurationBounds, ActionsAreNotThreads

-----------------------------------------------------------------------------
(* Object lifetime *)

\* Everything but the set of live objects is the same.
SameButLive(k, k1) ==
  /\ SameScheduling(k, k1) /\ SameEPs(k, k1) /\ SameNtfns(k, k1) /\ SameReplies(k, k1)
  /\ k1.blocking = k.blocking /\ k1.asserts = k.asserts
  /\ k1.tcbBoundNotification = k.tcbBoundNotification
  /\ k1.ntfnBoundTCB = k.ntfnBoundTCB

\* Consistent(k1) from Consistent(k), but for what is said of live objects.
LEMMA ConsistentLive ==
  ASSUME NEW k, Consistent(k), NEW k1, SameButLive(k, k1), LiveOK(k1)
  PROVE  Consistent(k1)
<1>1. SchedInv(k1, {})
  BY SchedInvSame DEF Consistent, SameButLive
<1>2. ObjectsInv(k1)
  BY DEF Consistent, ObjectsInv, ThreadsInv, SameButLive, SameEPs, SameNtfns, SameReplies, SameScheduling
<1> QED BY <1>1, <1>2 DEF Consistent, SameButLive

\* An endpoint or notification nobody waits for goes.
LEMMA LiveRemoved ==
  ASSUME NEW k, LiveOK(k), NEW k1, SameButLive(k, k1),
         NEW o \in Endpoints \cup Notifications, k1.live = k.live \ {o},
         \A t \in Threads : k.blocking[t].obj # o,
         o \in Endpoints => k.epState[o] = "Idle",
         o \in Notifications => k.ntfnState[o] # "Waiting" /\ k.ntfnBoundTCB[o] = Null
  PROVE  LiveOK(k1)
<1>1. o \notin Threads
  BY DistinctKinds
<1> QED BY <1>1 DEF LiveOK, SameButLive, SameEPs, SameNtfns, SameReplies, SameScheduling

\* An endpoint is idle: nobody waits there.
LEMMA IdleEndpoint ==
  ASSUME NEW k, KernelOK(k), NEW ep \in Endpoints, k.epState[ep] = "Idle"
  PROVE  \A t \in Threads : k.blocking[t].obj # ep
<1>1. k.epQueue[ep] = <<>>
  BY DEF KernelOK, OK, ObjectsOK, EPStatesOK
<1>2. ToSet(k.epQueue[ep]) = {}
  BY <1>1 DEF ToSet
<1>3. \A t \in Threads : ~(k.tsType[t] \in EPBlocked /\ k.blocking[t].obj = ep)
  BY <1>2 DEF KernelOK, Consistent, ObjectsInv, EPLinked, Linked
<1>4. \A t \in Threads : k.tsType[t] \notin EPBlocked => k.blocking[t].obj # ep
  BY DEF KernelOK, Consistent, ObjectsInv, ThreadsInv, BlockingOK, WaitStates, NotBlocking
<1> QED BY <1>3, <1>4

\* A notification is not waiting: nobody waits there.
LEMMA IdleNotification ==
  ASSUME NEW k, KernelOK(k), NEW n \in Notifications, k.ntfnState[n] # "Waiting"
  PROVE  \A t \in Threads : k.blocking[t].obj # n
<1>1. k.ntfnQueue[n] = <<>>
  BY DEF KernelOK, OK, ObjectsOK, NtfnStatesOK
<1>2. ToSet(k.ntfnQueue[n]) = {}
  BY <1>1 DEF ToSet
<1>3. \A t \in Threads : ~(k.tsType[t] = "BlockedOnNotification" /\ k.blocking[t].obj = n)
  BY <1>2 DEF KernelOK, Consistent, ObjectsInv, NtfnLinked, Linked
<1>4. \A t \in Threads : k.tsType[t] # "BlockedOnNotification" => k.blocking[t].obj # n
  BY DEF KernelOK, Consistent, ObjectsInv, ThreadsInv, BlockingOK, WaitStates, NotBlocking
<1> QED BY <1>3, <1>4

\* The last cap to an idle endpoint is deleted.
LEMMA DeleteEndpointInv ==
  ASSUME NEW k, KernelOK(k), NEW ep \in Endpoints, k.epState[ep] = "Idle"
  PROVE  Consistent([k EXCEPT !.live = @ \ {ep}])
<1> DEFINE k1 == [k EXCEPT !.live = @ \ {ep}]
<1>1. SameButLive(k, k1) /\ k1.live = k.live \ {ep}
  BY DEF KernelOK, OK, KState, SameButLive, SameScheduling, SameEPs, SameNtfns, SameReplies
<1> HIDE DEF k1
<1>2. ep \notin Notifications
  OBVIOUS
<1>3. LiveOK(k1)
  BY <1>1, <1>2, IdleEndpoint, LiveRemoved DEF KernelOK, Consistent, ObjectsInv, ThreadsInv
<1>4. Consistent(k1)
  BY <1>1, <1>3, ConsistentLive DEF KernelOK
<1> QED BY <1>4 DEF k1

\* The last cap to an unbound notification nobody waits for is deleted.
LEMMA DeleteNotificationInv ==
  ASSUME NEW k, KernelOK(k), NEW n \in Notifications, k.ntfnState[n] # "Waiting",
         k.ntfnBoundTCB[n] = Null
  PROVE  Consistent([k EXCEPT !.live = @ \ {n}])
<1> DEFINE k1 == [k EXCEPT !.live = @ \ {n}]
<1>1. SameButLive(k, k1) /\ k1.live = k.live \ {n}
  BY DEF KernelOK, OK, KState, SameButLive, SameScheduling, SameEPs, SameNtfns, SameReplies
<1> HIDE DEF k1
<1>2. n \notin Endpoints
  OBVIOUS
<1>3. LiveOK(k1)
  BY <1>1, <1>2, IdleNotification, LiveRemoved DEF KernelOK, Consistent, ObjectsInv, ThreadsInv
<1>4. Consistent(k1)
  BY <1>1, <1>3, ConsistentLive DEF KernelOK
<1> QED BY <1>4 DEF k1

\* Retype of an endpoint.
LEMMA CreateEndpointInv ==
  ASSUME NEW k, KernelOK(k), NEW ep \in Endpoints, ep \notin k.live
  PROVE  Consistent([k EXCEPT !.live = @ \cup {ep}, !.epQueue[ep] = <<>>, !.epState[ep] = "Idle"])
<1> DEFINE k1 == [k EXCEPT !.live = @ \cup {ep}, !.epQueue[ep] = <<>>, !.epState[ep] = "Idle"]
<1>1. k.epState[ep] = "Idle"
  BY DEF KernelOK, Consistent, ObjectsInv, ThreadsInv, LiveOK
<1>2. k.epQueue[ep] = <<>>
  BY <1>1 DEF KernelOK, OK, ObjectsOK, EPStatesOK
<1>3. /\ k.epQueue \in [Endpoints -> Seq(Threads)] /\ k.epState \in [Endpoints -> EPStates]
      /\ k.live \in SUBSET Objects
  BY DEF KernelOK, OK, KState
<1>4. [k.epQueue EXCEPT ![ep] = <<>>] = k.epQueue /\ [k.epState EXCEPT ![ep] = "Idle"] = k.epState
  BY <1>1, <1>2, <1>3
<1>5. SameButLive(k, k1) /\ k1.live = k.live \cup {ep}
  BY <1>4 DEF KernelOK, OK, KState, SameButLive, SameScheduling, SameEPs, SameNtfns, SameReplies
<1> HIDE DEF k1
<1>6. LiveOK(k1)
  BY <1>5 DEF KernelOK, Consistent, ObjectsInv, ThreadsInv, LiveOK, SameButLive, SameScheduling,
     SameEPs, SameNtfns, SameReplies
<1>7. Consistent(k1)
  BY <1>5, <1>6, ConsistentLive DEF KernelOK
<1> QED BY <1>7 DEF k1

\* Retype of a notification.
LEMMA CreateNotificationInv ==
  ASSUME NEW k, KernelOK(k), NEW n \in Notifications, n \notin k.live
  PROVE  Consistent([k EXCEPT !.live = @ \cup {n}, !.ntfnQueue[n] = <<>>,
                              !.ntfnState[n] = "Idle", !.ntfnMsgIdentifier[n] = {}])
<1> DEFINE k1 == [k EXCEPT !.live = @ \cup {n}, !.ntfnQueue[n] = <<>>,
                           !.ntfnState[n] = "Idle", !.ntfnMsgIdentifier[n] = {}]
<1>1. k.ntfnState[n] # "Waiting"
  BY DEF KernelOK, Consistent, ObjectsInv, ThreadsInv, LiveOK
<1>2. k.ntfnQueue[n] = <<>>
  BY <1>1 DEF KernelOK, OK, ObjectsOK, NtfnStatesOK
<1>3. /\ k.ntfnQueue \in [Notifications -> Seq(Threads)] /\ k.ntfnState \in [Notifications -> NtfnStates]
      /\ k.live \in SUBSET Objects
  BY DEF KernelOK, OK, KState
<1>4. [k.ntfnQueue EXCEPT ![n] = <<>>] = k.ntfnQueue
  BY <1>2, <1>3
<1>5. /\ SameScheduling(k, k1) /\ SameEPs(k, k1) /\ SameReplies(k, k1)
      /\ k1.blocking = k.blocking /\ k1.asserts = k.asserts
      /\ k1.tcbBoundNotification = k.tcbBoundNotification /\ k1.ntfnBoundTCB = k.ntfnBoundTCB
      /\ k1.ntfnQueue = k.ntfnQueue /\ k1.ntfnState = [k.ntfnState EXCEPT ![n] = "Idle"]
      /\ k1.live = k.live \cup {n}
  BY <1>4 DEF KernelOK, OK, KState, SameScheduling, SameEPs, SameReplies
<1> HIDE DEF k1
<1>6. \A m \in Notifications \ {n} : k1.ntfnState[m] = k.ntfnState[m]
  BY <1>3, <1>5
<1>7. LiveOK(k1)
  BY <1>5, <1>6 DEF KernelOK, Consistent, ObjectsInv, ThreadsInv, LiveOK, SameScheduling, SameEPs, SameReplies
<1>8. ObjectsInv(k1)
  BY <1>5, <1>7 DEF KernelOK, Consistent, ObjectsInv, ThreadsInv, SameScheduling, SameEPs, SameReplies
<1>9. SchedInv(k1, {})
  BY <1>5, SchedInvSame DEF KernelOK, Consistent
<1>10. Consistent(k1)
  BY <1>5, <1>8, <1>9 DEF KernelOK, Consistent
<1> QED BY <1>10 DEF k1

\* What createTCB writes.
CreatedTCB(k, k1, t) ==
  /\ k1.tsType = [k.tsType EXCEPT ![t] = "Inactive"]
  /\ k1.blocking = [k.blocking EXCEPT ![t] = NotBlocking]
  /\ k1.tcbQueued = [k.tcbQueued EXCEPT ![t] = FALSE]
  /\ k1.replyMaster = [k.replyMaster EXCEPT ![t] = FALSE]
  /\ k1.replyCap = [k.replyCap EXCEPT ![t] = Null]
  /\ k1.live = k.live \cup {t}
  /\ k1.tcbPriority = [k.tcbPriority EXCEPT ![t] = 0]
  /\ k1.tcbDomain = [k.tcbDomain EXCEPT ![t] = k.ksCurDomain]
  /\ SameEPs(k, k1) /\ SameNtfns(k, k1)
  /\ k1.tcbBoundNotification = k.tcbBoundNotification /\ k1.ntfnBoundTCB = k.ntfnBoundTCB
  /\ k1.ksReadyQueues = k.ksReadyQueues /\ k1.ksSchedulerAction = k.ksSchedulerAction
  /\ k1.ksCurThread = k.ksCurThread /\ k1.ksCurDomain = k.ksCurDomain /\ k1.asserts = k.asserts
  /\ k1.transfer = k.transfer

\* createTCB, three fields at a time.
LEMMA CreateTCBEffect ==
  ASSUME NEW k \in KState, NEW t \in Threads
  PROVE  CreatedTCB(k, createTCB(k, t), t)
<1> DEFINE a == [k EXCEPT !.live = @ \cup {t}, !.tsType[t] = "Inactive", !.blocking[t] = NotBlocking]
           b == [a EXCEPT !.tcbQueued[t] = FALSE, !.tcbPriority[t] = 0,
                          !.tcbDomain[t] = k.ksCurDomain, !.tcbTimeSlice[t] = TimeSlice]
           c == [b EXCEPT !.tcbFault[t] = FALSE, !.replyMaster[t] = FALSE, !.replyCap[t] = Null]
<1>1. /\ "Inactive" \in ThreadStates /\ NotBlocking \in Blocking
      /\ 0 \in Prios /\ TimeSlice \in 1 .. TimeSlice /\ k.ksCurDomain \in Domains
      /\ k.live \cup {t} \in SUBSET Objects
  BY DEF ThreadStates, StoppedStates, NotBlocking, Blocking, Prios, KState, Objects
<1>2. createTCB(k, t) = c
  BY DEF createTCB, KState
<1>3. a \in KState
  BY <1>1 DEF KState
<1>4. /\ a.tsType = [k.tsType EXCEPT ![t] = "Inactive"]
      /\ a.blocking = [k.blocking EXCEPT ![t] = NotBlocking]
      /\ a.live = k.live \cup {t}
      /\ a.tcbQueued = k.tcbQueued /\ a.replyMaster = k.replyMaster /\ a.replyCap = k.replyCap
      /\ a.tcbPriority = k.tcbPriority /\ a.tcbDomain = k.tcbDomain
      /\ SameEPs(k, a) /\ SameNtfns(k, a)
      /\ a.tcbBoundNotification = k.tcbBoundNotification /\ a.ntfnBoundTCB = k.ntfnBoundTCB
      /\ a.ksReadyQueues = k.ksReadyQueues /\ a.ksSchedulerAction = k.ksSchedulerAction
      /\ a.ksCurThread = k.ksCurThread /\ a.ksCurDomain = k.ksCurDomain /\ a.asserts = k.asserts
      /\ a.transfer = k.transfer
  BY DEF KState, SameEPs, SameNtfns
<1> HIDE DEF a
<1>5. b \in KState
  BY <1>1, <1>3, ZenonT(40) DEF KState
<1>6. /\ b.tcbQueued = [a.tcbQueued EXCEPT ![t] = FALSE]
      /\ b.tcbPriority = [a.tcbPriority EXCEPT ![t] = 0]
      /\ b.tcbDomain = [a.tcbDomain EXCEPT ![t] = k.ksCurDomain]
      /\ b.tsType = a.tsType /\ b.blocking = a.blocking /\ b.live = a.live
      /\ b.replyMaster = a.replyMaster /\ b.replyCap = a.replyCap
      /\ SameEPs(a, b) /\ SameNtfns(a, b)
      /\ b.tcbBoundNotification = a.tcbBoundNotification /\ b.ntfnBoundTCB = a.ntfnBoundTCB
      /\ b.ksReadyQueues = a.ksReadyQueues /\ b.ksSchedulerAction = a.ksSchedulerAction
      /\ b.ksCurThread = a.ksCurThread /\ b.ksCurDomain = a.ksCurDomain /\ b.asserts = a.asserts
      /\ b.transfer = a.transfer
  BY <1>3 DEF KState, SameEPs, SameNtfns
<1> HIDE DEF b
<1>7. /\ c.replyMaster = [b.replyMaster EXCEPT ![t] = FALSE]
      /\ c.replyCap = [b.replyCap EXCEPT ![t] = Null]
      /\ c.tcbQueued = b.tcbQueued /\ c.tcbPriority = b.tcbPriority /\ c.tcbDomain = b.tcbDomain
      /\ c.tsType = b.tsType /\ c.blocking = b.blocking /\ c.live = b.live
      /\ SameEPs(b, c) /\ SameNtfns(b, c)
      /\ c.tcbBoundNotification = b.tcbBoundNotification /\ c.ntfnBoundTCB = b.ntfnBoundTCB
      /\ c.ksReadyQueues = b.ksReadyQueues /\ c.ksSchedulerAction = b.ksSchedulerAction
      /\ c.ksCurThread = b.ksCurThread /\ c.ksCurDomain = b.ksCurDomain /\ c.asserts = b.asserts
      /\ c.transfer = b.transfer
  BY <1>5 DEF KState, SameEPs, SameNtfns
<1> HIDE DEF c
<1> QED BY <1>2, <1>4, <1>6, <1>7 DEF CreatedTCB, SameEPs, SameNtfns

\* Retype of a TCB: what it clears is clear already, but for the scheduling parameters.
LEMMA CreateTCBInv ==
  ASSUME NEW k, KernelOK(k), Runs(k), NEW t \in Threads, t \notin k.live
  PROVE  Consistent(createTCB(k, t))
<1> DEFINE k1 == createTCB(k, t)
<1>1. /\ k \in KState /\ SchedInv(k, {}) /\ QueuesInv(k, {}) /\ PriorityInv(k, {}) /\ ObjectsInv(k)
      /\ Consistent(k) /\ ThreadsInv(k)
  BY DEF KernelOK, OK, Consistent, SchedInv, ObjectsInv
<1>2. /\ k.tsType[t] = "Inactive" /\ k.replyMaster[t] = FALSE /\ k.replyCap[t] = Null
      /\ k.blocking[t] = NotBlocking
  <2>1. k.replyMaster[t] \in BOOLEAN
    BY <1>1 DEF KState
  <2>2. k.tsType[t] = "Inactive" /\ ~k.replyMaster[t] /\ k.replyCap[t] = Null
    BY <1>1 DEF ThreadsInv, LiveOK
  <2>3. k.blocking[t] = NotBlocking
    BY <1>1, <2>2 DEF ThreadsInv, BlockingOK, WaitStates, EPBlocked
  <2> QED BY <2>1, <2>2, <2>3
<1>3. ~isRunnable(k, t)
  BY <1>2 DEF isRunnable, RunnableStates
<1>4. ~k.tcbQueued[t] /\ k.ksSchedulerAction # t /\ k.ksCurThread # t
  BY <1>1, <1>3, StoppedFacts DEF Runs
<1>5. /\ k.tsType \in [Threads -> ThreadStates] /\ k.blocking \in [Threads -> Blocking]
      /\ k.tcbQueued \in [Threads -> BOOLEAN] /\ k.replyMaster \in [Threads -> BOOLEAN]
      /\ k.replyCap \in [ReplySlots -> Threads \cup {Null}] /\ k.live \in SUBSET Objects
      /\ k.tcbPriority \in [Threads -> Prios] /\ k.tcbDomain \in [Threads -> Domains]
  BY <1>1 DEF KState
<1>6. /\ [k.tsType EXCEPT ![t] = "Inactive"] = k.tsType /\ [k.blocking EXCEPT ![t] = NotBlocking] = k.blocking
      /\ [k.tcbQueued EXCEPT ![t] = FALSE] = k.tcbQueued /\ [k.replyMaster EXCEPT ![t] = FALSE] = k.replyMaster
      /\ [k.replyCap EXCEPT ![t] = Null] = k.replyCap
  BY <1>2, <1>4, <1>5, ZenonT(40)
<1>7. /\ k1.tsType = k.tsType /\ k1.blocking = k.blocking /\ k1.tcbQueued = k.tcbQueued
      /\ SameReplies(k, k1) /\ SameEPs(k, k1) /\ SameNtfns(k, k1)
      /\ k1.tcbBoundNotification = k.tcbBoundNotification /\ k1.ntfnBoundTCB = k.ntfnBoundTCB
      /\ k1.ksReadyQueues = k.ksReadyQueues /\ k1.ksSchedulerAction = k.ksSchedulerAction
      /\ k1.ksCurThread = k.ksCurThread /\ k1.ksCurDomain = k.ksCurDomain /\ k1.asserts = k.asserts
      /\ k1.live = k.live \cup {t}
      /\ k1.tcbPriority = [k.tcbPriority EXCEPT ![t] = 0]
      /\ k1.tcbDomain = [k.tcbDomain EXCEPT ![t] = k.ksCurDomain]
  <2>1. CreatedTCB(k, k1, t)
    BY <1>1, CreateTCBEffect
  <2> HIDE DEF k1
  <2> QED BY <1>6, <2>1 DEF CreatedTCB, SameReplies
<1>8. k1 \in KState
  BY KeptCreateTCB DEF KernelOK, Kept, OK
<1> HIDE DEF k1
<1>9. \A u \in Threads \ {t} : k1.tcbPriority[u] = k.tcbPriority[u] /\ k1.tcbDomain[u] = k.tcbDomain[u]
  BY <1>5, <1>7
<1>10. QueuesInv(k1, {t})
  <2>1. \A u \in Threads \ {t} : readyQueueOf(k1, u) = readyQueueOf(k, u)
    BY <1>9 DEF readyQueueOf
  <2>2. QueuesInv(k, {t})
    BY <1>1, QueuesInvWeaken
  <2> QED BY <1>1, <1>4, <1>7, <1>8, <1>9, <2>1, <2>2, ParameterInv
<1>11. QueuesInv(k1, {})
  <2>1. ~k1.tcbQueued[t] /\ ~isRunnable(k1, t) /\ k1.ksCurThread # t
    BY <1>3, <1>4, <1>7 DEF isRunnable
  <2> QED BY <1>10, <2>1 DEF QueuesInv, SchedulerInv
<1>12. PriorityInv(k1, {})
  <2>1. k.ksCurThread \in Threads \ {t}
    BY <1>4 DEF Runs
  <2>2. \A u \in Threads : isRunnable(k1, u) => isRunnable(k, u) /\ u # t
    BY <1>3, <1>7 DEF isRunnable
  <2> QED BY <1>1, <1>7, <1>9, <2>1, <2>2 DEF PriorityInv
<1>13. LiveOK(k1)
  BY <1>1, <1>7 DEF ThreadsInv, LiveOK, SameReplies, SameEPs, SameNtfns
<1>14. ObjectsInv(k1)
  BY <1>1, <1>7, <1>13 DEF ObjectsInv, ThreadsInv, SameReplies, SameEPs, SameNtfns
<1> QED BY <1>1, <1>7, <1>11, <1>12, <1>14 DEF Consistent, SchedInv, k1

\* SaveCaller moves a reply cap.
LEMMA SaveCallerInv ==
  ASSUME NEW k, KernelOK(k), NEW slot \in SaveSlots, NEW t \in Threads, k.replyCap[slot] = Null
  PROVE  Consistent([k EXCEPT !.replyCap[slot] = k.replyCap[t], !.replyCap[t] = Null])
<1> DEFINE k1 == [k EXCEPT !.replyCap[slot] = k.replyCap[t], !.replyCap[t] = Null]
<1>1. k \in KState /\ Consistent(k) /\ RepliesOK(k.tsType, k.replyCap, k.replyMaster)
  BY DEF KernelOK, OK, Consistent, ObjectsInv, ThreadsInv
<1>2. /\ SameBase(k, k1) /\ SameEPs(k, k1) /\ SameNtfns(k, k1) /\ k1.replyMaster = k.replyMaster
      /\ k1.replyCap = [k.replyCap EXCEPT ![slot] = k.replyCap[t], ![t] = Null]
  BY <1>1 DEF KState, SameBase, SameScheduling, SameEPs, SameNtfns
<1>3. k.replyCap \in [ReplySlots -> Threads \cup {Null}] /\ slot \in ReplySlots /\ t \in ReplySlots /\ slot # t
  BY <1>1 DEF KState, ReplySlots
<1> HIDE DEF k1
<1>4. /\ k1.replyCap[slot] = k.replyCap[t] /\ k1.replyCap[t] = Null
      /\ \A s \in ReplySlots \ {slot, t} : k1.replyCap[s] = k.replyCap[s]
  BY <1>2, <1>3
<1>5. \A u \in Threads : u # slot /\ u \in ReplySlots
  BY DEF ReplySlots
<1>6. RepliesOK(k1.tsType, k1.replyCap, k1.replyMaster)
  <2>0. k1.tsType = k.tsType
    BY <1>2 DEF SameBase, SameScheduling
  <2>1. \A s \in ReplySlots : k1.replyCap[s] # Null => k1.tsType[k1.replyCap[s]] = "BlockedOnReply"
    BY <1>1, <1>3, <1>4, <2>0 DEF RepliesOK
  <2>2. ASSUME NEW s1 \in ReplySlots, NEW s2 \in ReplySlots,
               k1.replyCap[s1] = k1.replyCap[s2], k1.replyCap[s1] # Null
        PROVE  s1 = s2
    <3> DEFINE from(s) == IF s = slot THEN t ELSE s
    <3>1. s1 # t /\ s2 # t
      BY <1>4, <2>2
    <3>2. \A s \in ReplySlots \ {t} : k1.replyCap[s] = k.replyCap[from(s)] /\ from(s) \in ReplySlots
      BY <1>3, <1>4
    <3>3. from(s1) = from(s2)
      <4> HIDE DEF from
      <4> QED BY <1>1, <2>2, <3>1, <3>2 DEF RepliesOK
    <3> QED BY <3>1, <3>3
  <2>3. \A u \in Threads : k1.tsType[u] = "BlockedOnReceive" => k1.replyCap[u] = Null
    BY <1>1, <1>4, <1>5, <2>0 DEF RepliesOK
  <2> QED BY <1>1, <1>2, <2>0, <2>1, <2>2, <2>3 DEF RepliesOK
<1>7. LiveOK(k1)
  BY <1>1, <1>2, <1>4, <1>5 DEF Consistent, ObjectsInv, ThreadsInv, LiveOK, SameBase, SameScheduling,
     SameEPs, SameNtfns
<1>8. ObjectsInv(k1)
  BY <1>1, <1>2, <1>6, <1>7 DEF Consistent, ObjectsInv, ThreadsInv, SameBase, SameScheduling, SameEPs, SameNtfns
<1>9. SchedInv(k1, {})
  BY <1>1, <1>2, SchedInvSame DEF Consistent, SameBase
<1>10. Consistent(k1)
  BY <1>1, <1>2, <1>8, <1>9 DEF Consistent, SameBase
<1> QED BY <1>10 DEF k1

\* The last cap to a TCB goes: its thread is suspended and unbound before its slots
\* are cleared.
LEMMA DeleteThreadInv ==
  ASSUME NEW k, Entered(k), NEW t \in Threads
  PROVE  Consistent([cteDeleteOne(suspend(unbindNotification(k, t), t), t)
                       EXCEPT !.replyMaster[t] = FALSE, !.live = @ \ {t}])
<1> DEFINE k1 == unbindNotification(k, t)
           k2 == suspend(k1, t)
           k3 == cteDeleteOne(k2, t)
           k4 == [k3 EXCEPT !.replyMaster[t] = FALSE, !.live = @ \ {t}]
<1>1. KernelOK(k1) /\ SameScheduling(k, k1) /\ k1.tcbBoundNotification[t] = Null
  BY UnbindInv DEF Entered
<1> HIDE DEF k1
<1>2. k1.ksSchedulerAction # t
  BY <1>1 DEF Entered, SameScheduling
<1>3. /\ KernelOK(k2) /\ k2.tsType[t] = "Inactive" /\ callerSlots(k2, t) = {}
      /\ k2.tcbBoundNotification = k1.tcbBoundNotification
  BY <1>1, <1>2, SuspendInv
<1> HIDE DEF k2
<1>4. k2 \in KState /\ Consistent(k2) /\ t \in ReplySlots
  BY <1>3 DEF KernelOK, OK, ReplySlots
<1>5. /\ Consistent(k3) /\ k3 \in KState /\ SameBase(k2, k3)
      /\ k3.replyCap = [k2.replyCap EXCEPT ![t] = Null] /\ callerSlots(k3, t) = {}
  BY <1>3, <1>4, DeleteOneInv
<1> HIDE DEF k3
<1>6. k3.tsType[t] = "Inactive" /\ k3.tcbBoundNotification[t] = Null
  BY <1>1, <1>3, <1>5 DEF SameBase, SameScheduling
<1>7. k3.replyCap[t] = Null
  <2>1. k2.replyCap \in [ReplySlots -> Threads \cup {Null}]
    BY <1>4 DEF KState
  <2> QED BY <1>4, <1>5, <2>1
<1>8. /\ SameScheduling(k3, k4) /\ SameEPs(k3, k4) /\ SameNtfns(k3, k4)
      /\ k4.blocking = k3.blocking /\ k4.asserts = k3.asserts
      /\ k4.tcbBoundNotification = k3.tcbBoundNotification /\ k4.ntfnBoundTCB = k3.ntfnBoundTCB
      /\ k4.replyCap = k3.replyCap /\ k4.live = k3.live \ {t}
      /\ k4.replyMaster = [k3.replyMaster EXCEPT ![t] = FALSE]
  BY <1>5 DEF KState, SameScheduling, SameEPs, SameNtfns
<1>9. /\ k3.replyMaster \in [Threads -> BOOLEAN] /\ k3.blocking \in [Threads -> Blocking]
  BY <1>5 DEF KState
<1> HIDE DEF k4
<1>10. ~k4.replyMaster[t] /\ \A u \in Threads \ {t} : k4.replyMaster[u] = k3.replyMaster[u]
  BY <1>8, <1>9
<1>11. \A u \in Threads : k3.blocking[u].obj # t
  BY <1>9, DistinctKinds DEF Blocking
<1>12. ThreadsInv(k3)
  BY <1>5 DEF Consistent, ObjectsInv
<1>13. LiveOK(k4)
  <2>1. \A u \in Threads : u \notin k4.live =>
          /\ k4.tsType[u] = "Inactive" /\ ~k4.replyMaster[u]
          /\ k4.replyCap[u] = Null /\ k4.tcbBoundNotification[u] = Null
    BY <1>6, <1>7, <1>8, <1>10, <1>12 DEF ThreadsInv, LiveOK, SameScheduling
  <2>2. \A u \in Threads : k4.blocking[u].obj \in k4.live \cup {Null}
    BY <1>8, <1>11, <1>12 DEF ThreadsInv, LiveOK
  <2>3. t \notin Endpoints \cup Notifications
    BY DistinctKinds
  <2> QED BY <1>8, <1>12, <2>1, <2>2, <2>3 DEF ThreadsInv, LiveOK, SameEPs, SameNtfns
<1>14. RepliesOK(k4.tsType, k4.replyCap, k4.replyMaster)
  BY <1>6, <1>8, <1>10, <1>12 DEF ThreadsInv, RepliesOK, SameScheduling
<1>15. ObjectsInv(k4)
  BY <1>5, <1>8, <1>12, <1>13, <1>14 DEF Consistent, ObjectsInv, ThreadsInv, SameScheduling, SameEPs, SameNtfns
<1>16. SchedInv(k4, {})
  BY <1>5, <1>8, SchedInvSame DEF Consistent
<1>17. Consistent(k4)
  BY <1>5, <1>8, <1>15, <1>16 DEF Consistent
<1> QED BY <1>17 DEF k1, k2, k3, k4

-----------------------------------------------------------------------------
(* The handlers of a kernel entry *)

\* The state a user thread enters the kernel in.
LEMMA EnterKernel ==
  ASSUME IInv, KernelInv, phase \notin LoopPhases
  PROVE  loop = NoLoop /\ KernelOK(ks)
<1>1. loop = NoLoop
  BY DEF KernelInv, LoopInv
<1>2. ks \in KState /\ OK(ks)
  BY DEF IInv, TypeOK, OK
<1>3. loop.obj \notin Endpoints /\ loop.obj \notin Notifications
  BY <1>1 DEF NoLoop
<1>4. EPQueues = ks.epQueue
  <2>1. ks.epQueue \in [Endpoints -> Seq(Threads)]
    BY <1>2 DEF KState
  <2>2. \A e \in Endpoints : EPWaiters(e) = ks.epQueue[e]
    BY <1>3 DEF EPWaiters
  <2> QED BY <2>1, <2>2 DEF EPQueues
<1>5. NtfnQueues = ks.ntfnQueue
  <2>1. ks.ntfnQueue \in [Notifications -> Seq(Threads)]
    BY <1>2 DEF KState
  <2>2. \A n \in Notifications : NtfnWaiters(n) = ks.ntfnQueue[n]
    BY <1>3 DEF NtfnWaiters
  <2> QED BY <2>1, <2>2 DEF NtfnQueues
<1>6. Consistent(ks)
  BY <1>4, <1>5 DEF KernelInv, Consistent, ObjectsInv, SchedInv
<1> QED BY <1>1, <1>2, <1>6 DEF KernelOK

\* A kernel entry leaves a consistent state behind.
LEMMA LeaveKernel ==
  ASSUME IInv', phase' \notin LoopPhases, loop' = NoLoop, Consistent(ks'),
         phase' = "user" => /\ ks'.ksSchedulerAction = ResumeCurrentThread
                            /\ cur' # IdleThread => ks'.tsType[cur'] = "Running"
  PROVE  KernelInv'
<1>1. ks' \in KState
  BY DEF IInv, TypeOK
<1>2. loop'.obj \notin Endpoints /\ loop'.obj \notin Notifications
  BY DEF NoLoop
<1>3. EPQueues' = ks'.epQueue
  <2>1. ks'.epQueue \in [Endpoints -> Seq(Threads)]
    BY <1>1 DEF KState
  <2>2. \A e \in Endpoints : EPWaiters(e)' = ks'.epQueue[e]
    BY <1>2 DEF EPWaiters
  <2> QED BY <2>1, <2>2 DEF EPQueues
<1>4. NtfnQueues' = ks'.ntfnQueue
  <2>1. ks'.ntfnQueue \in [Notifications -> Seq(Threads)]
    BY <1>1 DEF KState
  <2>2. \A n \in Notifications : NtfnWaiters(n)' = ks'.ntfnQueue[n]
    BY <1>2 DEF NtfnWaiters
  <2> QED BY <2>1, <2>2 DEF NtfnQueues
<1>5. LoopInv'
  BY DEF LoopInv, LoopPhases
<1> QED BY <1>3, <1>4, <1>5 DEF KernelInv, Consistent, ObjectsInv, SchedInv

\* A handler whose function leaves a consistent state.
LEMMA HandlerInv ==
  ASSUME IInv, KernelInv, IInv', phase = "user", NEW k, Consistent(k), EndHandler(k)
  PROVE  KernelInv'
<1>1. phase \notin LoopPhases
  BY DEF LoopPhases
<1>2. ks' = k /\ phase' = "schedule" /\ loop' = NoLoop
  BY <1>1, EnterKernel DEF EndHandler
<1>3. phase' \notin LoopPhases /\ phase' # "user"
  BY <1>2 DEF LoopPhases
<1> QED BY <1>2, <1>3, LeaveKernel

\* A system call is made by the running thread.
LEMMA SyscallEntered ==
  ASSUME IInv, KernelInv, NEW name, Syscall(name)
  PROVE  /\ phase = "user" /\ name \in Syscalls /\ Entered(ks) /\ Runs(ks) /\ KernelOK(ks)
         /\ cur \in Threads /\ cur = ks.ksCurThread
<1>1. phase = "user" /\ name \in Syscalls /\ cur \in Threads
  BY SyscallFacts DEF Syscall
<1>2. KernelOK(ks)
  BY <1>1, EnterKernel DEF LoopPhases
<1>3. Entered(ks)
  BY <1>1, <1>2 DEF KernelInv, Entered, cur
<1>4. Runs(ks)
  BY <1>2, <1>3, EnterRuns DEF Entered, KernelOK, Consistent
<1> QED BY <1>1, <1>2, <1>3, <1>4 DEF cur

\* An invocation begins: only the state of the invoking thread has changed.
LEMMA InvocationEntered ==
  ASSUME IInv, KernelInv, NEW name, Syscall(name)
  PROVE  LET k == beginInvocation(ks)
         IN  /\ phase = "user" /\ name \in Syscalls /\ Entered(k) /\ Runs(k) /\ KernelOK(k) /\ OK(k)
             /\ cur \in Threads /\ k.ksCurThread = cur
             /\ SameObjects(ks, k) /\ k.tcbPriority = ks.tcbPriority
<1> DEFINE k == beginInvocation(ks)
<1>1. phase = "user" /\ name \in Syscalls /\ Entered(ks) /\ cur \in Threads /\ cur = ks.ksCurThread
  BY SyscallEntered
<1>2. Entered(k) /\ Runs(k) /\ Restated(ks, k, ks.ksCurThread, "Restart", NotBlocking)
  BY <1>1, BeginInvocationInv
<1>3. k.ksCurThread = cur /\ SameObjects(ks, k) /\ k.tcbPriority = ks.tcbPriority
  BY <1>1, <1>2 DEF Restated, Framed, SameFrame, SameSwitch
<1> QED BY <1>1, <1>2, <1>3 DEF Entered, KernelOK

\* An invocation whose function leaves a consistent state.
LEMMA InvocationInv ==
  ASSUME IInv, KernelInv, IInv', NEW name, Syscall(name), NEW k, Kept(beginInvocation(ks), k),
         Consistent(k), EndHandler(finishInvocation(k))
  PROVE  KernelInv'
<1>1. phase = "user" /\ beginInvocation(ks).ksCurThread \in Threads
  BY InvocationEntered
<1>2. k \in KState /\ k.ksCurThread \in Threads
  BY <1>1 DEF Kept, OK
<1>3. Consistent(finishInvocation(k))
  BY <1>2, FinishInvocationInv
<1> QED BY <1>1, <1>3, HandlerInv

\* The IPC system calls keep the invariant.
LEMMA IPCSyscallInv ==
  ASSUME IInv, KernelInv, IInv', IPCSyscall
  PROVE  KernelInv'
<1> DEFINE k == beginInvocation(ks)
<1>0. /\ \A ep \in EPs : ep \in Endpoints /\ ep \in ks.live
      /\ \A n \in Ntfns : n \in Notifications /\ n \in ks.live
      /\ \A obj \in RecvObjects : obj \in ks.live \cup {Null}
      /\ \A handler \in FaultHandlers :
           handler # Null => /\ handler.ep \in Endpoints /\ handler.ep \in ks.live
                             /\ handler.badge \in Badges
  BY DEF EPs, Ntfns, RecvObjects, FaultHandlers
<1>1. ASSUME NEW ep \in EPs, NEW badge \in Badges, NEW canReply \in BOOLEAN,
             NEW blocking \in BOOLEAN, Send(ep, badge, canReply, blocking)
      PROVE  KernelInv'
  <2> DEFINE k1 == sendIPC(k, blocking, FALSE, badge, canReply, cur, ep)
  <2>1. Syscall("Send") /\ EndHandler(finishInvocation(k1))
    BY <1>1 DEF Send
  <2>2. OK(k) /\ KernelOK(k) /\ Runs(k) /\ k.ksCurThread = cur /\ SameObjects(ks, k) /\ cur \in Threads
    BY <2>1, InvocationEntered
  <2>3. ep \in k.live
    BY <1>0, <2>2 DEF SameObjects
  <2> HIDE DEF k
  <2>4. Consistent(k1) /\ Kept(k, k1)
    BY <1>0, <2>2, <2>3, SendIPCInv, KeptSendIPC
  <2> HIDE DEF k1
  <2> QED BY <2>1, <2>4, InvocationInv DEF k
<1>2. ASSUME NEW ep \in EPs, NEW badge \in Badges, NEW canReply \in BOOLEAN,
             Call(ep, badge, canReply)
      PROVE  KernelInv'
  <2> DEFINE k1 == sendIPC(k, TRUE, TRUE, badge, canReply, cur, ep)
  <2>1. Syscall("Call") /\ EndHandler(finishInvocation(k1))
    BY <1>2 DEF Call
  <2>2. OK(k) /\ KernelOK(k) /\ Runs(k) /\ k.ksCurThread = cur /\ SameObjects(ks, k) /\ cur \in Threads
    BY <2>1, InvocationEntered
  <2>3. ep \in k.live
    BY <1>0, <2>2 DEF SameObjects
  <2> HIDE DEF k
  <2>4. Consistent(k1) /\ Kept(k, k1)
    BY <1>0, <2>2, <2>3, SendIPCInv, KeptSendIPC
  <2> HIDE DEF k1
  <2> QED BY <2>1, <2>4, InvocationInv DEF k
<1>3. ASSUME NEW obj \in RecvObjects, NEW blocking \in BOOLEAN, NEW handler \in FaultHandlers,
             Recv(obj, blocking, handler)
      PROVE  KernelInv'
  <2>1. Syscall("Recv") /\ EndHandler(handleRecv(ks, obj, blocking, handler))
    BY <1>3 DEF Recv
  <2>2. phase = "user" /\ KernelOK(ks) /\ Runs(ks)
    BY <2>1, SyscallEntered
  <2>3. Consistent(handleRecv(ks, obj, blocking, handler))
    BY <1>0, <2>2, HandleRecvInv
  <2> QED BY <2>1, <2>2, <2>3, HandlerInv
<1>4. ASSUME NEW restartThread \in BOOLEAN, Reply(restartThread)
      PROVE  KernelInv'
  <2>1. Syscall("Reply") /\ EndHandler(handleReply(ks, restartThread))
    BY <1>4 DEF Reply
  <2>2. phase = "user" /\ KernelOK(ks) /\ Runs(ks)
    BY <2>1, SyscallEntered
  <2>3. Consistent(handleReply(ks, restartThread))
    BY <2>2, HandleReplyInv DEF KernelOK
  <2> QED BY <2>1, <2>2, <2>3, HandlerInv
<1>5. ASSUME NEW restartThread \in BOOLEAN, NEW obj \in RecvObjects, NEW handler \in FaultHandlers,
             ReplyRecv(restartThread, obj, handler)
      PROVE  KernelInv'
  <2> DEFINE k1 == handleReply(ks, restartThread)
  <2>1. Syscall("ReplyRecv") /\ EndHandler(handleRecv(k1, obj, TRUE, handler))
    BY <1>5 DEF ReplyRecv
  <2>2. phase = "user" /\ KernelOK(ks) /\ Runs(ks)
    BY <2>1, SyscallEntered
  <2>3. KernelOK(k1) /\ Runs(k1) /\ k1.live = ks.live
    BY <2>2, HandleReplyInv
  <2> HIDE DEF k1
  <2>4. Consistent(handleRecv(k1, obj, TRUE, handler))
    BY <1>0, <2>3, HandleRecvInv
  <2> QED BY <2>1, <2>2, <2>4, HandlerInv
<1>6. ASSUME NEW slot \in SaveSlots, NEW restartThread \in BOOLEAN, InvokeReply(slot, restartThread)
      PROVE  KernelInv'
  <2> DEFINE k1 == doReplyTransfer(k, cur, ks.replyCap[slot], slot, restartThread)
  <2>1. Syscall("InvokeReply") /\ EndHandler(finishInvocation(k1)) /\ ks.replyCap[slot] # Null
    BY <1>6 DEF InvokeReply
  <2>2. OK(k) /\ KernelOK(k) /\ Runs(k) /\ SameObjects(ks, k) /\ cur \in Threads
    BY <2>1, InvocationEntered
  <2>3. ks.replyCap[slot] \in Threads /\ slot \in ReplySlots
    BY <2>1 DEF IInv, TypeOK, KState, ReplySlots
  <2>4. k.replyCap[slot] = ks.replyCap[slot]
    BY <2>2 DEF SameObjects
  <2> HIDE DEF k
  <2>5. Consistent(k1)
    BY <2>2, <2>3, <2>4, ReplyTransferInv DEF KernelOK
  <2>6. Kept(k, k1)
    BY <2>2, <2>3, KeptReplyTransfer
  <2> HIDE DEF k1
  <2> QED BY <2>1, <2>5, <2>6, InvocationInv DEF k
<1>7. ASSUME NEW n \in Ntfns, NEW badge \in SUBSET SignalBits, Signal(n, badge)
      PROVE  KernelInv'
  <2> DEFINE k1 == sendSignal(k, n, badge)
  <2>1. Syscall("Signal") /\ EndHandler(finishInvocation(k1))
    BY <1>7 DEF Signal
  <2>2. OK(k) /\ KernelOK(k)
    BY <2>1, InvocationEntered
  <2> HIDE DEF k
  <2>3. Consistent(k1) /\ Kept(k, k1)
    BY <1>0, <2>2, SendSignalInv, KeptSendSignal
  <2> HIDE DEF k1
  <2> QED BY <2>1, <2>3, InvocationInv DEF k
<1>8. ASSUME NEW handler \in FaultHandlers, Fault(handler)
      PROVE  KernelInv'
  <2>1. Syscall("Fault") /\ EndHandler(handleFault(ks, cur, handler))
    BY <1>8 DEF Fault
  <2>2. phase = "user" /\ KernelOK(ks) /\ Runs(ks) /\ cur = ks.ksCurThread
    BY <2>1, SyscallEntered
  <2>3. Consistent(handleFault(ks, cur, handler))
    BY <1>0, <2>2, HandleFaultInv
  <2> QED BY <2>1, <2>2, <2>3, HandlerInv
<1>9. ASSUME Yield PROVE KernelInv'
  <2>1. Syscall("Yield") /\ EndHandler(handleYield(ks))
    BY <1>9 DEF Yield
  <2>2. phase = "user" /\ Entered(ks) /\ Runs(ks)
    BY <2>1, SyscallEntered
  <2>3. Consistent(handleYield(ks))
    BY <2>2, SchedulingInv
  <2> QED BY <2>1, <2>2, <2>3, HandlerInv
<1> QED BY <1>1, <1>2, <1>3, <1>4, <1>5, <1>6, <1>7, <1>8, <1>9 DEF IPCSyscall

\* Retype and the CNode invocations on reply caps keep the invariant.
LEMMA SlotInv ==
  ASSUME IInv, KernelInv, IInv',
         \/ \E t \in Threads : RetypeThread(t)
         \/ \E ep \in Endpoints : RetypeEndpoint(ep)
         \/ \E ntfn \in Notifications : RetypeNotification(ntfn)
         \/ \E slot \in SaveSlots : SaveCaller(slot) \/ DeleteReplyCap(slot)
  PROVE  KernelInv'
<1> DEFINE k == beginInvocation(ks)
<1>1. ASSUME NEW t \in Threads, RetypeThread(t) PROVE KernelInv'
  <2>1. Syscall("Retype") /\ EndHandler(finishInvocation(createTCB(k, t))) /\ t \notin ks.live
    BY <1>1 DEF RetypeThread
  <2>2. OK(k) /\ KernelOK(k) /\ Runs(k) /\ SameObjects(ks, k)
    BY <2>1, InvocationEntered
  <2> HIDE DEF k
  <2>3. Consistent(createTCB(k, t)) /\ Kept(k, createTCB(k, t))
    BY <2>1, <2>2, CreateTCBInv, KeptCreateTCB DEF SameObjects
  <2> QED BY <2>1, <2>3, InvocationInv DEF k
<1>2. ASSUME NEW ep \in Endpoints, RetypeEndpoint(ep) PROVE KernelInv'
  <2> DEFINE k1 == [k EXCEPT !.live = @ \cup {ep}, !.epQueue[ep] = <<>>, !.epState[ep] = "Idle"]
  <2>1. Syscall("Retype") /\ EndHandler(finishInvocation(k1)) /\ ep \notin ks.live
    BY <1>2 DEF RetypeEndpoint
  <2>2. OK(k) /\ KernelOK(k) /\ SameObjects(ks, k)
    BY <2>1, InvocationEntered
  <2>3. ep \notin k.live
    BY <2>1, <2>2 DEF SameObjects
  <2> HIDE DEF k
  <2>4. Consistent(k1) /\ Kept(k, k1)
    BY <2>2, <2>3, CreateEndpointInv, KeptCreateEndpoint
  <2> HIDE DEF k1
  <2> QED BY <2>1, <2>4, InvocationInv DEF k
<1>3. ASSUME NEW n \in Notifications, RetypeNotification(n) PROVE KernelInv'
  <2> DEFINE k1 == [k EXCEPT !.live = @ \cup {n}, !.ntfnQueue[n] = <<>>,
                             !.ntfnState[n] = "Idle", !.ntfnMsgIdentifier[n] = {}]
  <2>1. Syscall("Retype") /\ EndHandler(finishInvocation(k1)) /\ n \notin ks.live
    BY <1>3 DEF RetypeNotification
  <2>2. OK(k) /\ KernelOK(k) /\ SameObjects(ks, k)
    BY <2>1, InvocationEntered
  <2>3. n \notin k.live
    BY <2>1, <2>2 DEF SameObjects
  <2> HIDE DEF k
  <2>4. Consistent(k1) /\ Kept(k, k1)
    BY <2>2, <2>3, CreateNotificationInv, KeptCreateNotification
  <2> HIDE DEF k1
  <2> QED BY <2>1, <2>4, InvocationInv DEF k
<1>4. ASSUME NEW slot \in SaveSlots, SaveCaller(slot) PROVE KernelInv'
  <2> DEFINE k1 == [k EXCEPT !.replyCap[slot] = k.replyCap[cur], !.replyCap[cur] = Null]
  <2>1. Syscall("SaveCaller") /\ EndHandler(finishInvocation(k1)) /\ ks.replyCap[slot] = Null
    BY <1>4 DEF SaveCaller
  <2>2. OK(k) /\ KernelOK(k) /\ SameObjects(ks, k) /\ cur \in Threads
    BY <2>1, InvocationEntered
  <2>3. k.replyCap[slot] = Null
    BY <2>1, <2>2 DEF SameObjects
  <2> HIDE DEF k
  <2>4. Consistent(k1) /\ Kept(k, k1)
    BY <2>2, <2>3, SaveCallerInv, KeptSaveCaller
  <2> HIDE DEF k1
  <2> QED BY <2>1, <2>4, InvocationInv DEF k
<1>5. ASSUME NEW slot \in SaveSlots, DeleteReplyCap(slot) PROVE KernelInv'
  <2> DEFINE k1 == cteDeleteOne(k, slot)
  <2>1. Syscall("DeleteReplyCap") /\ EndHandler(finishInvocation(k1))
    BY <1>5 DEF DeleteReplyCap
  <2>2. OK(k) /\ k \in KState /\ Consistent(k) /\ slot \in ReplySlots
    BY <2>1, InvocationEntered DEF KernelOK, OK, ReplySlots
  <2> HIDE DEF k
  <2>3. Consistent(k1) /\ Kept(k, k1)
    BY <2>2, DeleteOneInv, KeptDeleteOne
  <2> HIDE DEF k1
  <2> QED BY <2>1, <2>3, InvocationInv DEF k
<1> QED BY <1>1, <1>2, <1>3, <1>4, <1>5

\* The TCB and domain invocations keep the invariant.
LEMMA TCBInv ==
  ASSUME IInv, KernelInv, IInv',
         \/ \E t \in TCBs : TCBSuspend(t) \/ TCBResume(t) \/ TCBSetContext(t) \/ DeleteThread(t)
         \/ \E t \in TCBs, prio \in Prios : TCBSetPriority(t, prio)
         \/ \E dest, src \in TCBs, suspendSource, resumeTarget \in BOOLEAN :
               TCBCopyRegisters(dest, src, suspendSource, resumeTarget)
         \/ \E t \in TCBs, flag \in BOOLEAN : TCBReadRegisters(t, flag) \/ TCBWriteRegisters(t, flag)
         \/ \E t \in TCBs, ntfn \in Ntfns : TCBBindNotification(t, ntfn)
         \/ \E t \in TCBs : TCBUnbindNotification(t)
         \/ \E t \in TCBs, dom \in Domains : DomainSet(t, dom)
  PROVE  KernelInv'
<1> DEFINE k == beginInvocation(ks)
<1>0. /\ \A t \in TCBs : t \in Threads /\ t \in ks.live
      /\ \A n \in Ntfns : n \in Notifications /\ n \in ks.live
  BY DEF TCBs, Ntfns
<1>e. ASSUME NEW name, Syscall(name)
      PROVE  /\ phase = "user" /\ OK(k) /\ KernelOK(k) /\ k \in KState /\ Consistent(k)
             /\ Entered(k) /\ Runs(k) /\ name \in Syscalls
             /\ \A t \in Threads : k.ksSchedulerAction # t
             /\ k.live = ks.live /\ k.ksCurThread = cur /\ cur \in Threads /\ SameObjects(ks, k)
             /\ k.tcbPriority = ks.tcbPriority
  BY <1>e, InvocationEntered DEF Entered, KernelOK, OK, SameObjects
<1>1. ASSUME NEW t \in TCBs, TCBSuspend(t) PROVE KernelInv'
  <2>1. Syscall("Suspend") /\ EndHandler(finishInvocation(suspend(k, t)))
    BY <1>1 DEF TCBSuspend
  <2>2. OK(k) /\ KernelOK(k) /\ k.ksSchedulerAction # t
    BY <1>0, <1>e, <2>1
  <2> HIDE DEF k
  <2>3. Consistent(suspend(k, t)) /\ Kept(k, suspend(k, t))
    BY <1>0, <2>2, SuspendInv, KeptSuspend DEF KernelOK
  <2> QED BY <2>1, <2>3, InvocationInv DEF k
<1>2. ASSUME NEW t \in TCBs, TCBResume(t) PROVE KernelInv'
  <2>1. Syscall("Resume") /\ EndHandler(finishInvocation(restart(k, t)))
    BY <1>2 DEF TCBResume
  <2>2. OK(k) /\ KernelOK(k) /\ t \in k.live
    BY <1>0, <1>e, <2>1
  <2> HIDE DEF k
  <2>3. Consistent(restart(k, t)) /\ Kept(k, restart(k, t))
    BY <1>0, <2>2, RestartThreadInv, KeptRestart DEF KernelOK
  <2> QED BY <2>1, <2>3, InvocationInv DEF k
<1>3. ASSUME NEW t \in TCBs, TCBSetContext(t) PROVE KernelInv'
  <2> DEFINE k1 == IF t = cur THEN rescheduleRequired(k) ELSE k
  <2>1. Syscall("SetContext") /\ EndHandler(finishInvocation(k1))
    BY <1>3 DEF TCBSetContext
  <2>2. OK(k) /\ k \in KState /\ Consistent(k)
    BY <1>e, <2>1
  <2> HIDE DEF k
  <2>3. Consistent(k1) /\ Kept(k, k1)
    BY <1>0, <2>2, RescheduleInv, KeptScheduling, KeptSelf
  <2> HIDE DEF k1
  <2> QED BY <2>1, <2>3, InvocationInv DEF k
<1>4. ASSUME NEW t \in TCBs, DeleteThread(t) PROVE KernelInv'
  <2> DEFINE k1 == [cteDeleteOne(suspend(unbindNotification(k, t), t), t)
                      EXCEPT !.replyMaster[t] = FALSE, !.live = @ \ {t}]
  <2>1. Syscall("DeleteThread") /\ EndHandler(finishInvocation(k1))
    BY <1>4 DEF DeleteThread
  <2>2. OK(k) /\ Entered(k)
    BY <1>e, <2>1
  <2> HIDE DEF k
  <2>3. Consistent(k1) /\ Kept(k, k1)
    BY <1>0, <2>2, DeleteThreadInv, KeptDeleteThread
  <2> HIDE DEF k1
  <2> QED BY <2>1, <2>3, InvocationInv DEF k
<1>5. ASSUME NEW t \in TCBs, NEW prio \in Prios, TCBSetPriority(t, prio) PROVE KernelInv'
  <2>1. Syscall("SetPriority") /\ EndHandler(finishInvocation(setPriority(k, t, prio)))
    BY <1>5 DEF TCBSetPriority
  <2>2. OK(k) /\ Entered(k) /\ Runs(k)
    BY <1>e, <2>1
  <2> HIDE DEF k
  <2>3. Consistent(setPriority(k, t, prio)) /\ Kept(k, setPriority(k, t, prio))
    BY <1>0, <2>2, SchedulingInv, KeptScheduling
  <2> QED BY <2>1, <2>3, InvocationInv DEF k
<1>6. ASSUME NEW dest \in TCBs, NEW src \in TCBs, NEW suspendSource \in BOOLEAN,
             NEW resumeTarget \in BOOLEAN, TCBCopyRegisters(dest, src, suspendSource, resumeTarget)
      PROVE  KernelInv'
  <2> DEFINE k1 == IF suspendSource THEN suspend(k, src) ELSE k
             k2 == IF resumeTarget THEN restart(k1, dest) ELSE k1
             k3 == IF dest = cur THEN rescheduleRequired(k2) ELSE k2
  <2>1. Syscall("CopyRegisters") /\ EndHandler(finishInvocation(k3))
    BY <1>6 DEF TCBCopyRegisters
  <2>2. OK(k) /\ KernelOK(k) /\ k.ksSchedulerAction # src /\ dest \in k.live
    BY <1>0, <1>e, <2>1
  <2>3. Kept(k, k2)
    BY <1>0, <2>2, KeptRegisters
  <2>4. KernelOK(k1) /\ k1.live = k.live
    BY <1>0, <2>2, SuspendInv
  <2> HIDE DEF k1
  <2>5. Consistent(k2) /\ OK(k2) /\ k2 \in KState
    BY <1>0, <2>2, <2>4, RestartThreadInv DEF KernelOK, OK
  <2> HIDE DEF k2
  <2>6. Consistent(k3) /\ Kept(k, k3)
    BY <1>0, <2>3, <2>5, RescheduleInv, KeptScheduling, KeptTrans
  <2> HIDE DEF k3
  <2> QED BY <2>1, <2>6, InvocationInv
<1>7. ASSUME NEW t \in TCBs, NEW flag \in BOOLEAN, TCBReadRegisters(t, flag) PROVE KernelInv'
  <2> DEFINE k1 == IF flag THEN suspend(k, t) ELSE k
             k2 == setThreadState(k1, cur, "Running")
  <2>1. Syscall("ReadRegisters") /\ EndHandler(finishInvocation(k2)) /\ t # cur
    BY <1>7 DEF TCBReadRegisters
  <2>2. /\ OK(k) /\ KernelOK(k) /\ k.ksSchedulerAction # t
        /\ k.ksCurThread = cur /\ cur \in Threads
    BY <1>0, <1>e, <2>1
  <2>3. Kept(k, k1) /\ OK(k1)
    BY <1>0, <2>2, KeptRegisters DEF Kept
  <2>4. k.tsType[cur] = "Restart"
    <3>1. Entered(ks) /\ ks \in KState
      BY <2>1, SyscallEntered DEF Entered, KernelOK, OK
    <3>2. Restated(ks, k, ks.ksCurThread, "Restart", NotBlocking)
      BY <3>1, BeginInvocationInv
    <3> QED BY <3>1, <3>2 DEF Restated, Entered, KState, cur
  <2> HIDE DEF k
  <2>5. KernelOK(k1) /\ k1.tsType[cur] = "Restart" /\ k1.ksCurThread = cur
    BY <1>0, <2>1, <2>2, <2>4, SuspendInv
  <2> HIDE DEF k1
  <2>6. k2 = finishInvocation(k1)
    BY <2>5 DEF finishInvocation
  <2>7. Consistent(k2)
    BY <2>2, <2>5, <2>6, FinishInvocationInv DEF KernelOK, OK
  <2>8. Kept(k, k2)
    BY <2>3, KeptSetThreadState, KeptTrans DEF ThreadStates, RunnableStates
  <2> HIDE DEF k2
  <2> QED BY <2>1, <2>7, <2>8, InvocationInv DEF k
<1>8. ASSUME NEW t \in TCBs, NEW flag \in BOOLEAN, TCBWriteRegisters(t, flag) PROVE KernelInv'
  <2> DEFINE k1 == IF flag THEN restart(k, t) ELSE k
  <2>1. Syscall("WriteRegisters") /\ EndHandler(finishInvocation(k1))
    BY <1>8 DEF TCBWriteRegisters
  <2>2. OK(k) /\ KernelOK(k) /\ t \in k.live
    BY <1>0, <1>e, <2>1
  <2> HIDE DEF k
  <2>3. Consistent(k1) /\ Kept(k, k1)
    BY <1>0, <2>2, RestartThreadInv, KeptRestart, KeptSelf DEF KernelOK
  <2> HIDE DEF k1
  <2> QED BY <2>1, <2>3, InvocationInv DEF k
<1>9. ASSUME NEW t \in TCBs, NEW n \in Ntfns, TCBBindNotification(t, n) PROVE KernelInv'
  <2> DEFINE k1 == bindNotification(k, t, n)
  <2>1. /\ Syscall("BindNotification") /\ EndHandler(finishInvocation(k1))
        /\ ks.tcbBoundNotification[t] = Null /\ ks.ntfnQueue[n] = <<>> /\ ks.ntfnBoundTCB[n] = Null
    BY <1>9 DEF TCBBindNotification
  <2>2. /\ OK(k) /\ k \in KState /\ Consistent(k) /\ t \in k.live /\ n \in k.live
        /\ SameObjects(ks, k)
    BY <1>0, <1>e, <2>1
  <2>3. k.tcbBoundNotification[t] = Null /\ k.ntfnBoundTCB[n] = Null /\ k.ntfnQueue[n] = <<>>
    BY <2>1, <2>2 DEF SameObjects
  <2> HIDE DEF k
  <2>4. Kept(k, k1)
    BY <1>0, <2>2, <2>3, KeptBind
  <2>5. Rebound(k, k1, t, n, t, n)
    BY DEF bindNotification, Rebound
  <2> HIDE DEF k1
  <2>6. Consistent(k1)
    BY <1>0, <2>2, <2>5, BindingInv
  <2> QED BY <2>1, <2>4, <2>6, InvocationInv DEF k
<1>10. ASSUME NEW t \in TCBs, TCBUnbindNotification(t) PROVE KernelInv'
  <2>1. Syscall("UnbindNotification") /\ EndHandler(finishInvocation(unbindNotification(k, t)))
    BY <1>10 DEF TCBUnbindNotification
  <2>2. OK(k) /\ KernelOK(k)
    BY <1>e, <2>1
  <2> HIDE DEF k
  <2>3. Consistent(unbindNotification(k, t)) /\ Kept(k, unbindNotification(k, t))
    BY <1>0, <2>2, UnbindInv, KeptUnbind DEF KernelOK
  <2> QED BY <2>1, <2>3, InvocationInv DEF k
<1>11. ASSUME NEW t \in TCBs, NEW dom \in Domains, DomainSet(t, dom) PROVE KernelInv'
  <2>1. /\ Syscall("DomainSet") /\ ks.tcbPriority[cur] >= DomainPrio
        /\ EndHandler(finishInvocation(setDomain(k, t, dom)))
    BY <1>11 DEF DomainSet
  <2>2. OK(k) /\ Entered(k) /\ Runs(k) /\ HasDomainCap(k)
    BY <1>e, <2>1 DEF HasDomainCap
  <2> HIDE DEF k
  <2>3. Consistent(setDomain(k, t, dom)) /\ Kept(k, setDomain(k, t, dom))
    BY <1>0, <2>2, SchedulingInv, KeptScheduling
  <2> QED BY <2>1, <2>3, InvocationInv DEF k
<1> QED BY <1>1, <1>2, <1>3, <1>4, <1>5, <1>6, <1>7, <1>8, <1>9, <1>10, <1>11

-----------------------------------------------------------------------------
(* The loops over a detached queue *)

\* A loop begins on an endpoint: its queue has moved to the loop.
LEMMA EPLoopBegins ==
  ASSUME IInv', NEW k, Entered(k), NEW ep \in Endpoints, ep \in k.live,
         NEW name \in {"cancelAllIPC", "cancelBadgedSends"}, NEW badge,
         name = "cancelBadgedSends" => k.epState[ep] = "Send",
         BeginLoop(epMakeIdle(k, ep), name, ep, badge, k.epQueue[ep])
  PROVE  KernelInv'
<1> DEFINE k1 == epMakeIdle(k, ep)
<1>1. k \in KState /\ Consistent(k) /\ ObjectsInv(k) /\ ThreadsInv(k) /\ SchedInv(k, {})
  BY DEF Entered, KernelOK, OK, Consistent, ObjectsInv
<1>2. /\ SameBase(k, k1) /\ SameNtfns(k, k1) /\ SameReplies(k, k1)
      /\ k1.epState = [k.epState EXCEPT ![ep] = "Idle"]
      /\ k1.epQueue = [k.epQueue EXCEPT ![ep] = <<>>]
  BY <1>1 DEF epMakeIdle, KState, SameBase, SameScheduling, SameNtfns, SameReplies
<1>3. /\ ks' = k1 /\ phase' = name /\ loop'.obj = ep
      /\ loop'.todo = k.epQueue[ep] /\ loop'.queue = k.epQueue[ep]
  BY DEF BeginLoop
<1> HIDE DEF k1
<1>4. /\ k.epQueue \in [Endpoints -> Seq(Threads)] /\ k.epState \in [Endpoints -> EPStates]
      /\ k.ntfnQueue \in [Notifications -> Seq(Threads)]
  BY <1>1 DEF KState
<1>5. /\ k1.epState[ep] = "Idle" /\ k1.epQueue[ep] = <<>>
      /\ \A e \in Endpoints \ {ep} : k1.epState[e] = k.epState[e] /\ k1.epQueue[e] = k.epQueue[e]
  BY <1>2, <1>4
<1>6. EPQueues' = k.epQueue
  <2>1. \A e \in Endpoints : EPWaiters(e)' = k.epQueue[e]
    BY <1>3, <1>5 DEF EPWaiters
  <2> QED BY <1>4, <2>1 DEF EPQueues
<1>7. NtfnQueues' = k.ntfnQueue
  <2>1. \A n \in Notifications : NtfnWaiters(n)' = k.ntfnQueue[n]
    BY <1>2, <1>3 DEF NtfnWaiters, SameNtfns
  <2> QED BY <1>4, <2>1 DEF NtfnQueues
<1>8. k1.tsType = k.tsType /\ k1.blocking = k.blocking /\ k1.live = k.live /\ k1.asserts = k.asserts
      /\ k1.ksCurThread = k.ksCurThread
  BY <1>2 DEF SameBase, SameScheduling
<1>9. ToSet(<<>>) = {}
  BY DEF ToSet
<1>10. EPKinds(k1.tsType, k1.epQueue, k1.epState)
  BY <1>1, <1>5, <1>8, <1>9 DEF ObjectsInv, EPKinds
<1>11. ThreadsInv(k1)
  BY <1>1, <1>2, <1>5, <1>8 DEF ThreadsInv, LiveOK, SameBase, SameNtfns, SameReplies
<1>12. QueuesInv(k1, {})
  BY <1>1, <1>2, SchedInvSame DEF SchedInv, SameBase
<1>13. LoopInv'
  <2>1. phase' \in LoopPhases /\ phase' # "cancelAllSignals"
    BY <1>3 DEF LoopPhases
  <2>2. loop'.obj \in ks'.live /\ cur' # IdleThread
    BY <1>3, <1>8 DEF cur, Entered
  <2>3. NoDuplicates(loop'.todo)
    BY <1>1, <1>3 DEF ObjectsInv, EPLinked, Linked
  <2>4. phase' = "cancelBadgedSends" => \A t \in ToSet(loop'.queue) : ks'.tsType[t] = "BlockedOnSend"
    BY <1>1, <1>3, <1>8 DEF ObjectsInv, EPKinds
  <2> QED BY <1>3, <1>5, <2>1, <2>2, <2>3, <2>4 DEF LoopInv
<1>14. phase' \in LoopPhases /\ phase' # "user"
  BY <1>3 DEF LoopPhases
<1>15. EPLinked(ks'.tsType, ks'.blocking, EPQueues') /\ NtfnLinked(ks'.tsType, ks'.blocking, NtfnQueues')
  BY <1>1, <1>3, <1>6, <1>7, <1>8 DEF ObjectsInv
<1>16. k1.asserts
  BY <1>1, <1>8 DEF Consistent
<1> QED BY <1>3, <1>10, <1>11, <1>12, <1>13, <1>14, <1>15, <1>16 DEF KernelInv

\* The same for an unbound notification.
LEMMA NtfnLoopBegins ==
  ASSUME IInv', NEW k, KernelOK(k), k.ksCurThread \in Threads, NEW n \in Notifications, n \in k.live,
         k.ntfnBoundTCB[n] = Null, NEW badge, NEW k1,
         k1 = [k EXCEPT !.ntfnState[n] = "Idle", !.ntfnQueue[n] = <<>>],
         BeginLoop(k1, "cancelAllSignals", n, badge, k.ntfnQueue[n])
  PROVE  KernelInv'
<1>1. k \in KState /\ Consistent(k) /\ ObjectsInv(k) /\ ThreadsInv(k) /\ SchedInv(k, {})
  BY DEF KernelOK, OK, Consistent, ObjectsInv
<1>2. /\ SameBase(k, k1) /\ SameEPs(k, k1) /\ SameReplies(k, k1)
      /\ k1.ntfnState = [k.ntfnState EXCEPT ![n] = "Idle"]
      /\ k1.ntfnQueue = [k.ntfnQueue EXCEPT ![n] = <<>>]
  BY <1>1 DEF KState, SameBase, SameScheduling, SameEPs, SameReplies
<1>3. /\ ks' = k1 /\ phase' = "cancelAllSignals" /\ loop'.obj = n
      /\ loop'.todo = k.ntfnQueue[n] /\ loop'.queue = k.ntfnQueue[n]
  BY DEF BeginLoop
<1>4. /\ k.ntfnQueue \in [Notifications -> Seq(Threads)] /\ k.ntfnState \in [Notifications -> NtfnStates]
      /\ k.epQueue \in [Endpoints -> Seq(Threads)]
  BY <1>1 DEF KState
<1>5. /\ k1.ntfnState[n] = "Idle" /\ k1.ntfnQueue[n] = <<>>
      /\ \A m \in Notifications \ {n} :
           k1.ntfnState[m] = k.ntfnState[m] /\ k1.ntfnQueue[m] = k.ntfnQueue[m]
  BY <1>2, <1>4
<1>6. NtfnQueues' = k.ntfnQueue
  <2>1. \A m \in Notifications : NtfnWaiters(m)' = k.ntfnQueue[m]
    BY <1>3, <1>5 DEF NtfnWaiters
  <2> QED BY <1>4, <2>1 DEF NtfnQueues
<1>7. EPQueues' = k.epQueue
  <2>1. \A e \in Endpoints : EPWaiters(e)' = k.epQueue[e]
    BY <1>2, <1>3 DEF EPWaiters, SameEPs
  <2> QED BY <1>4, <2>1 DEF EPQueues
<1>8. k1.tsType = k.tsType /\ k1.blocking = k.blocking /\ k1.live = k.live /\ k1.asserts = k.asserts
      /\ k1.ksCurThread = k.ksCurThread /\ k1.ntfnBoundTCB = k.ntfnBoundTCB
  BY <1>2 DEF SameBase, SameScheduling
<1>9. EPKinds(k1.tsType, k1.epQueue, k1.epState)
  BY <1>1, <1>2, <1>8 DEF ObjectsInv, SameEPs
<1>10. ThreadsInv(k1)
  BY <1>1, <1>2, <1>5, <1>8 DEF ThreadsInv, LiveOK, SameBase, SameEPs, SameReplies
<1>11. QueuesInv(k1, {})
  BY <1>1, <1>2, SchedInvSame DEF SchedInv, SameBase
<1>12. LoopInv'
  <2>1. phase' \in LoopPhases /\ phase' \notin {"cancelAllIPC", "cancelBadgedSends"}
    BY <1>3 DEF LoopPhases
  <2>2. loop'.obj \in ks'.live /\ cur' # IdleThread
    BY <1>3, <1>8 DEF cur
  <2> QED BY <1>3, <1>5, <1>8, <2>1, <2>2 DEF LoopInv
<1>13. phase' \in LoopPhases /\ phase' # "user"
  BY <1>3 DEF LoopPhases
<1>14. EPLinked(ks'.tsType, ks'.blocking, EPQueues') /\ NtfnLinked(ks'.tsType, ks'.blocking, NtfnQueues')
  BY <1>1, <1>3, <1>6, <1>7, <1>8 DEF ObjectsInv
<1>15. k1.asserts
  BY <1>1, <1>8 DEF Consistent
<1> QED BY <1>3, <1>9, <1>10, <1>11, <1>12, <1>13, <1>14, <1>15 DEF KernelInv

\* Deleting an endpoint or a notification, and cancelBadgedSends.
LEMMA LoopInvocationInv ==
  ASSUME IInv, KernelInv, IInv',
         \/ \E ep \in EPs : DeleteEndpoint(ep)
         \/ \E ep \in EPs, badge \in Badges : CancelBadgedSends(ep, badge)
         \/ \E ntfn \in Ntfns : DeleteNotification(ntfn)
  PROVE  KernelInv'
<1> DEFINE k == beginInvocation(ks)
<1>0. /\ \A ep \in EPs : ep \in Endpoints /\ ep \in ks.live
      /\ \A n \in Ntfns : n \in Notifications /\ n \in ks.live
  BY DEF EPs, Ntfns
<1>e. ASSUME NEW name, Syscall(name)
      PROVE  OK(k) /\ k \in KState /\ Entered(k) /\ KernelOK(k) /\ Consistent(k) /\ k.live = ks.live
  BY <1>e, InvocationEntered DEF KernelOK, OK, SameObjects
<1>1. ASSUME NEW ep \in EPs, DeleteEndpoint(ep) PROVE KernelInv'
  <2>1. /\ Syscall("DeleteEndpoint")
        /\ \/ k.epState[ep] = "Idle" /\ EndHandler(finishInvocation([k EXCEPT !.live = @ \ {ep}]))
           \/ BeginLoop(epMakeIdle(k, ep), "cancelAllIPC", ep, Null, k.epQueue[ep])
    BY <1>1 DEF DeleteEndpoint
  <2>2. OK(k) /\ k \in KState /\ Entered(k) /\ KernelOK(k) /\ ep \in k.live /\ ep \in Endpoints
    BY <1>0, <1>e, <2>1
  <2> HIDE DEF k
  <2>3. CASE k.epState[ep] = "Idle" /\ EndHandler(finishInvocation([k EXCEPT !.live = @ \ {ep}]))
    <3> DEFINE k1 == [k EXCEPT !.live = @ \ {ep}]
    <3>1. k1 = [k EXCEPT !.live = k.live \ {ep}] /\ k.live \ {ep} \in SUBSET Objects
      BY <2>2 DEF KState
    <3>2. Consistent(k1)
      BY <2>2, <2>3, DeleteEndpointInv
    <3>3. Kept(k, k1)
      BY <2>2, <3>1, KeptLive
    <3> HIDE DEF k1
    <3> QED BY <2>1, <2>3, <3>2, <3>3, InvocationInv DEF k, k1
  <2>4. CASE BeginLoop(epMakeIdle(k, ep), "cancelAllIPC", ep, Null, k.epQueue[ep])
    BY <2>2, <2>4, EPLoopBegins
  <2> QED BY <2>1, <2>3, <2>4
<1>2. ASSUME NEW ep \in EPs, NEW badge \in Badges, CancelBadgedSends(ep, badge) PROVE KernelInv'
  <2>1. /\ Syscall("CancelBadgedSends")
        /\ \/ EndHandler(finishInvocation(k))
           \/ /\ k.epState[ep] = "Send"
              /\ BeginLoop(epMakeIdle(k, ep), "cancelBadgedSends", ep, badge, k.epQueue[ep])
    BY <1>2 DEF CancelBadgedSends
  <2>2. OK(k) /\ Consistent(k) /\ Entered(k) /\ ep \in k.live /\ ep \in Endpoints
    BY <1>0, <1>e, <2>1
  <2> HIDE DEF k
  <2>3. CASE EndHandler(finishInvocation(k))
    BY <2>1, <2>2, <2>3, KeptSelf, InvocationInv DEF k
  <2>4. CASE /\ k.epState[ep] = "Send"
             /\ BeginLoop(epMakeIdle(k, ep), "cancelBadgedSends", ep, badge, k.epQueue[ep])
    BY <2>2, <2>4, EPLoopBegins
  <2> QED BY <2>1, <2>3, <2>4
<1>3. ASSUME NEW n \in Ntfns, DeleteNotification(n) PROVE KernelInv'
  <2> DEFINE k1 == unbindMaybeNotification(k, n)
             k2 == [k1 EXCEPT !.ntfnState[n] = "Idle", !.ntfnQueue[n] = <<>>]
  <2>1. /\ Syscall("DeleteNotification")
        /\ \/ k1.ntfnState[n] # "Waiting" /\ EndHandler(finishInvocation([k1 EXCEPT !.live = @ \ {n}]))
           \/ BeginLoop(k2, "cancelAllSignals", n, Null, k1.ntfnQueue[n])
    BY <1>3 DEF DeleteNotification
  <2>2. OK(k) /\ KernelOK(k) /\ n \in k.live /\ n \in Notifications /\ k.ksCurThread \in Threads
    BY <1>0, <1>e, <2>1 DEF Entered
  <2> HIDE DEF k
  <2>3. /\ KernelOK(k1) /\ k1.live = k.live /\ k1.ntfnBoundTCB[n] = Null
        /\ k1.ksCurThread = k.ksCurThread
    BY <2>2, UnbindInv DEF SameScheduling
  <2>4. Kept(k, k1)
    BY <2>2, KeptUnbind
  <2> HIDE DEF k1
  <2>5. CASE k1.ntfnState[n] # "Waiting" /\ EndHandler(finishInvocation([k1 EXCEPT !.live = @ \ {n}]))
    <3> DEFINE k3 == [k1 EXCEPT !.live = @ \ {n}]
    <3>1. k3 = [k1 EXCEPT !.live = k1.live \ {n}] /\ k1.live \ {n} \in SUBSET Objects
      BY <2>3 DEF KernelOK, OK, KState
    <3>2. Consistent(k3)
      BY <2>2, <2>3, <2>5, DeleteNotificationInv
    <3>3. Kept(k, k3)
      BY <2>3, <2>4, <3>1, KeptLive, KeptTrans DEF KernelOK
    <3> HIDE DEF k3
    <3> QED BY <2>1, <2>5, <3>2, <3>3, InvocationInv DEF k, k3
  <2>6. CASE BeginLoop(k2, "cancelAllSignals", n, Null, k1.ntfnQueue[n])
    <3>1. n \in k1.live /\ k1.ksCurThread \in Threads
      BY <2>2, <2>3
    <3> QED BY <2>2, <2>3, <2>6, <3>1, NtfnLoopBegins
  <2> QED BY <2>1, <2>5, <2>6
<1> QED BY <1>1, <1>2, <1>3

\* A thread leaves the queue of o, whatever the way the queue is walked.
LEMMA LinkedReleased ==
  ASSUME NEW objs, NEW kinds, NEW ts \in [Threads -> ThreadStates],
         NEW bl \in [Threads -> Blocking], NEW q, Linked(objs, kinds, ts, bl, q),
         NEW o \in objs, NEW t \in Threads, bl[t].obj = o, NEW s, s \notin kinds, NEW b,
         NEW q1, NoDuplicates(q1[o]), ToSet(q1[o]) = ToSet(q[o]) \ {t},
         \A e \in objs \ {o} : q1[e] = q[e]
  PROVE  Linked(objs, kinds, [ts EXCEPT ![t] = s], [bl EXCEPT ![t] = b], q1)
<1> SUFFICES ASSUME NEW e \in objs
             PROVE  /\ NoDuplicates(q1[e])
                    /\ \A u \in Threads : u \in ToSet(q1[e]) <=>
                         /\ [ts EXCEPT ![t] = s][u] \in kinds
                         /\ [bl EXCEPT ![t] = b][u].obj = e
  BY DEF Linked
<1>1. /\ NoDuplicates(q[e])
      /\ \A u \in Threads : u \in ToSet(q[e]) <=> ts[u] \in kinds /\ bl[u].obj = e
  BY DEF Linked
<1>2. NoDuplicates(q1[e])
  BY <1>1
<1>3. ToSet(q1[e]) = ToSet(q[e]) \ {t}
  BY <1>1
<1> QED BY <1>1, <1>2, <1>3

\* A thread in the detached queue waits for the object of the loop, is in no other
\* queue, and is not the thread that runs.
LEMMA LoopThread ==
  ASSUME IInv, KernelInv, phase \in LoopPhases, NEW t \in Threads, t \in ToSet(loop.queue)
  PROVE  /\ \/ /\ loop.obj \in Endpoints /\ ks.tsType[t] \in EPBlocked
            \/ /\ loop.obj \in Notifications /\ ks.tsType[t] = "BlockedOnNotification"
         /\ ks.blocking[t].obj = loop.obj
         /\ ks.tsType[t] \in WaitStates
         /\ \A e \in Endpoints : t \notin ToSet(ks.epQueue[e])
         /\ ks.ksSchedulerAction = ResumeCurrentThread => ks.ksCurThread # t
<1>0. /\ LoopInv /\ EPLinked(ks.tsType, ks.blocking, EPQueues)
      /\ NtfnLinked(ks.tsType, ks.blocking, NtfnQueues)
      /\ SchedulerInv(ks, {})
  BY DEF KernelInv, QueuesInv
<1>1. loop.obj \in Endpoints \/ loop.obj \in Notifications
  BY <1>0 DEF LoopInv, LoopPhases
<1>2. /\ \A e \in Endpoints : EPQueues[e] = IF loop.obj = e THEN loop.queue ELSE ks.epQueue[e]
      /\ \A n \in Notifications : NtfnQueues[n] = IF loop.obj = n THEN loop.queue ELSE ks.ntfnQueue[n]
  BY DEF EPQueues, NtfnQueues, EPWaiters, NtfnWaiters
<1>3. /\ loop.obj \in Endpoints => ks.tsType[t] \in EPBlocked /\ ks.blocking[t].obj = loop.obj
      /\ loop.obj \in Notifications =>
           ks.tsType[t] = "BlockedOnNotification" /\ ks.blocking[t].obj = loop.obj
  BY <1>0, <1>2 DEF EPLinked, NtfnLinked, Linked
<1>4. ks.tsType[t] \in WaitStates /\ ~isRunnable(ks, t)
  BY <1>1, <1>3 DEF WaitStates, EPBlocked, isRunnable, RunnableStates
<1>5. ASSUME NEW e \in Endpoints, t \in ToSet(ks.epQueue[e]) PROVE FALSE
  <2>1. loop.obj # e
    <3>1. ASSUME loop.obj = e PROVE FALSE
      <4>1. ks.epState[e] = "Idle"
        BY <1>0, <3>1 DEF LoopInv, LoopPhases
      <4>2. ks.epQueue[e] = <<>>
        BY <4>1 DEF IInv, ObjectsOK, EPStatesOK
      <4> QED BY <1>5, <4>2 DEF ToSet
    <3> QED BY <3>1
  <2>2. ks.tsType[t] \in EPBlocked /\ ks.blocking[t].obj = e
    BY <1>0, <1>2, <1>5, <2>1 DEF EPLinked, Linked
  <2> QED BY <1>1, <1>3, <2>1, <2>2 DEF EPBlocked
<1>6. ks.ksSchedulerAction = ResumeCurrentThread => ks.ksCurThread # t
  BY <1>0, <1>4 DEF SchedulerInv
<1> QED BY <1>1, <1>3, <1>4, <1>5, <1>6

\* What one iteration that wakes a thread changes.
Woken(t) ==
  /\ Restated(ks, ks', t, "Restart", NotBlocking) /\ QueuesInv(ks', {})
  /\ phase' = phase /\ loop'.obj = loop.obj
  /\ NoDuplicates(loop'.queue) /\ ToSet(loop'.queue) = ToSet(loop.queue) \ {t}

\* An iteration that wakes a thread keeps the invariant.
LEMMA LoopWake ==
  ASSUME IInv, KernelInv, phase \in LoopPhases, NEW t \in Threads, t \in ToSet(loop.queue),
         Woken(t), LoopInv'
  PROVE  KernelInv'
<1>0. /\ \/ /\ loop.obj \in Endpoints /\ ks.tsType[t] \in EPBlocked
         \/ /\ loop.obj \in Notifications /\ ks.tsType[t] = "BlockedOnNotification"
      /\ ks.blocking[t].obj = loop.obj /\ ks.tsType[t] \in WaitStates
      /\ \A e \in Endpoints : t \notin ToSet(ks.epQueue[e])
  BY LoopThread
<1>1. /\ ks'.tsType = [ks.tsType EXCEPT ![t] = "Restart"]
      /\ ks'.blocking = [ks.blocking EXCEPT ![t] = NotBlocking]
      /\ ks'.asserts = ks.asserts
      /\ ks'.epQueue = ks.epQueue /\ ks'.epState = ks.epState /\ ks'.ntfnQueue = ks.ntfnQueue
  BY DEF Woken, Restated, Framed, SameFrame, SameSwitch, SameObjects
<1>2. ks \in KState /\ ks.tsType \in [Threads -> ThreadStates] /\ ks.blocking \in [Threads -> Blocking]
  BY DEF IInv, TypeOK, KState
<1>3. /\ \A e \in Endpoints : EPQueues[e] = IF loop.obj = e THEN loop.queue ELSE ks.epQueue[e]
      /\ \A n \in Notifications : NtfnQueues[n] = IF loop.obj = n THEN loop.queue ELSE ks.ntfnQueue[n]
  BY DEF EPQueues, NtfnQueues, EPWaiters, NtfnWaiters
<1>4. /\ \A e \in Endpoints : EPQueues'[e] = IF loop.obj = e THEN loop'.queue ELSE ks.epQueue[e]
      /\ \A n \in Notifications : NtfnQueues'[n] = IF loop.obj = n THEN loop'.queue ELSE ks.ntfnQueue[n]
  BY <1>1 DEF EPQueues, NtfnQueues, EPWaiters, NtfnWaiters, Woken
<1>5. /\ "Restart" \notin WaitStates /\ "Restart" \notin EPBlocked
      /\ "Restart" \notin {"BlockedOnNotification"}
  BY DEF WaitStates, EPBlocked
<1>6. /\ Linked(Endpoints, EPBlocked, ks.tsType, ks.blocking, EPQueues)
      /\ Linked(Notifications, {"BlockedOnNotification"}, ks.tsType, ks.blocking, NtfnQueues)
  BY DEF KernelInv, EPLinked, NtfnLinked
<1>7. EPLinked(ks'.tsType, ks'.blocking, EPQueues') /\ NtfnLinked(ks'.tsType, ks'.blocking, NtfnQueues')
  <2>1. CASE loop.obj \in Endpoints /\ ks.tsType[t] \in EPBlocked
    <3>0. loop.obj \notin Notifications /\ ks.tsType[t] \notin {"BlockedOnNotification"}
      BY <2>1 DEF EPBlocked
    <3>1. /\ NoDuplicates(EPQueues'[loop.obj])
          /\ ToSet(EPQueues'[loop.obj]) = ToSet(EPQueues[loop.obj]) \ {t}
          /\ \A e \in Endpoints \ {loop.obj} : EPQueues'[e] = EPQueues[e]
      BY <1>3, <1>4, <2>1 DEF Woken
    <3>2. \A n \in Notifications : NtfnQueues'[n] = NtfnQueues[n]
      BY <1>3, <1>4, <3>0
    <3>3. Linked(Endpoints, EPBlocked, [ks.tsType EXCEPT ![t] = "Restart"],
                 [ks.blocking EXCEPT ![t] = NotBlocking], EPQueues')
      BY <1>0, <1>2, <1>5, <1>6, <2>1, <3>1, LinkedReleased
    <3>4. Linked(Notifications, {"BlockedOnNotification"}, [ks.tsType EXCEPT ![t] = "Restart"],
                 [ks.blocking EXCEPT ![t] = NotBlocking], NtfnQueues)
      BY <1>2, <1>5, <1>6, <3>0, LinkedOther
    <3>5. Linked(Notifications, {"BlockedOnNotification"}, [ks.tsType EXCEPT ![t] = "Restart"],
                 [ks.blocking EXCEPT ![t] = NotBlocking], NtfnQueues')
      BY <3>2, <3>4 DEF Linked
    <3> QED BY <1>1, <3>3, <3>5 DEF EPLinked, NtfnLinked
  <2>2. CASE loop.obj \in Notifications /\ ks.tsType[t] = "BlockedOnNotification"
    <3>0. loop.obj \notin Endpoints /\ ks.tsType[t] \notin EPBlocked
      BY <2>2 DEF EPBlocked
    <3>1. /\ NoDuplicates(NtfnQueues'[loop.obj])
          /\ ToSet(NtfnQueues'[loop.obj]) = ToSet(NtfnQueues[loop.obj]) \ {t}
          /\ \A n \in Notifications \ {loop.obj} : NtfnQueues'[n] = NtfnQueues[n]
      BY <1>3, <1>4, <2>2 DEF Woken
    <3>2. \A e \in Endpoints : EPQueues'[e] = EPQueues[e]
      BY <1>3, <1>4, <3>0
    <3>3. Linked(Notifications, {"BlockedOnNotification"}, [ks.tsType EXCEPT ![t] = "Restart"],
                 [ks.blocking EXCEPT ![t] = NotBlocking], NtfnQueues')
      BY <1>0, <1>2, <1>5, <1>6, <2>2, <3>1, LinkedReleased
    <3>4. Linked(Endpoints, EPBlocked, [ks.tsType EXCEPT ![t] = "Restart"],
                 [ks.blocking EXCEPT ![t] = NotBlocking], EPQueues)
      BY <1>2, <1>5, <1>6, <3>0, LinkedOther
    <3>5. Linked(Endpoints, EPBlocked, [ks.tsType EXCEPT ![t] = "Restart"],
                 [ks.blocking EXCEPT ![t] = NotBlocking], EPQueues')
      BY <3>2, <3>4 DEF Linked
    <3> QED BY <1>1, <3>3, <3>5 DEF EPLinked, NtfnLinked
  <2> QED BY <1>0, <2>1, <2>2
<1>8. EPKinds(ks'.tsType, ks'.epQueue, ks'.epState)
  <2>1. EPKinds(ks.tsType, ks.epQueue, ks.epState)
    BY DEF KernelInv
  <2> QED BY <1>0, <1>1, <1>2, <2>1 DEF EPKinds
<1>9. ThreadsInv(ks')
  BY <1>0, <1>2, <1>5, ThreadsInvReleased DEF KernelInv, Woken
<1>10. ks'.asserts
  BY <1>1 DEF KernelInv
<1>11. phase' \in LoopPhases /\ phase' # "user"
  BY DEF Woken, LoopPhases
<1> QED BY <1>7, <1>8, <1>9, <1>10, <1>11 DEF KernelInv, Woken

\* The iterations of the loops keep the invariant.
LEMMA IterationInv ==
  ASSUME IInv, KernelInv, CancelAllStep \/ CancelBadgedStep
  PROVE  KernelInv'
<1>0. ks \in KState /\ loop \in LoopType /\ LoopInv /\ QueuesInv(ks, {})
  BY DEF IInv, TypeOK, KernelInv
<1>1. loop.todo \in Seq(Threads) /\ loop.queue \in Seq(Threads)
  BY <1>0 DEF LoopType
<1>2. phase \in LoopPhases => NoDuplicates(loop.queue)
  <2>1. \A e \in Endpoints : loop.obj = e => EPQueues[e] = loop.queue
    BY DEF EPQueues, EPWaiters
  <2>2. \A n \in Notifications : loop.obj = n => NtfnQueues[n] = loop.queue
    BY DEF NtfnQueues, NtfnWaiters
  <2>3. phase \in LoopPhases => loop.obj \in Endpoints \/ loop.obj \in Notifications
    BY <1>0 DEF LoopInv, LoopPhases
  <2> QED BY <2>1, <2>2, <2>3 DEF KernelInv, EPLinked, NtfnLinked, Linked
<1>3. ASSUME NEW t \in Threads, ks' = wakeToRestart(ks, t), phase \in LoopPhases,
             t \in ToSet(loop.queue)
      PROVE  /\ Restated(ks, ks', t, "Restart", NotBlocking) /\ QueuesInv(ks', {})
             /\ ks'.live = ks.live /\ ks'.epState = ks.epState /\ ks'.ntfnState = ks.ntfnState
             /\ ks'.ntfnBoundTCB = ks.ntfnBoundTCB /\ ks'.ksCurThread = ks.ksCurThread
             /\ \A u \in Threads \ {t} : ks'.tsType[u] = ks.tsType[u]
  <2>1. ks.ksSchedulerAction = ResumeCurrentThread => ks.ksCurThread # t
    BY <1>3, LoopThread
  <2>2. Restated(ks, ks', t, "Restart", NotBlocking) /\ QueuesInv(ks', {})
    BY <1>0, <1>3, <2>1, WakeToRestartInv
  <2>3. ks.tsType \in [Threads -> ThreadStates]
    BY <1>0 DEF KState
  <2> QED BY <2>2, <2>3 DEF Restated, Framed, SameFrame, SameSwitch, SameObjects
<1>4. CASE CancelAllStep
  <2> DEFINE t == Head(loop.todo)
  <2>1. /\ phase \in {"cancelAllIPC", "cancelAllSignals"} /\ phase \in LoopPhases
        /\ loop.todo # <<>> /\ phase' = phase /\ loop.queue = loop.todo
        /\ ks' = wakeToRestart(ks, t)
        /\ loop' = [loop EXCEPT !.todo = Tail(@), !.queue = Tail(loop.todo)]
    BY <1>0, <1>4 DEF CancelAllStep, LoopPhases, LoopInv
  <2>2. loop'.obj = loop.obj /\ loop'.todo = Tail(loop.todo) /\ loop'.queue = Tail(loop.todo)
    BY <1>0, <2>1 DEF LoopType
  <2>3. /\ t \in Threads /\ t \in ToSet(loop.queue)
        /\ ToSet(Tail(loop.todo)) = ToSet(loop.queue) \ {t} /\ NoDuplicates(Tail(loop.todo))
    BY <1>1, <1>2, <2>1, HeadTailQueue
  <2> HIDE DEF t
  <2>4. Woken(t)
    BY <1>3, <2>1, <2>2, <2>3 DEF Woken
  <2>5. LoopInv'
    <3>1. /\ ks'.live = ks.live /\ ks'.epState = ks.epState /\ ks'.ntfnState = ks.ntfnState
          /\ ks'.ntfnBoundTCB = ks.ntfnBoundTCB /\ ks'.ksCurThread = ks.ksCurThread
      BY <1>3, <2>1, <2>3
    <3> QED BY <1>0, <2>1, <2>2, <3>1 DEF LoopInv, cur
  <2> QED BY <2>1, <2>3, <2>4, <2>5, LoopWake
<1>5. CASE CancelBadgedStep
  <2> DEFINE t     == Head(loop.todo)
             match == ks.blocking[t].badge = loop.badge
  <2>1. /\ phase = "cancelBadgedSends" /\ phase \in LoopPhases
        /\ loop.todo # <<>> /\ phase' = phase
        /\ ks' = IF match THEN wakeToRestart(ks, t) ELSE ks
        /\ loop' = [loop EXCEPT !.todo = Tail(@),
                                !.queue = IF match THEN tcbEPDequeue(t, @) ELSE @]
    BY <1>5 DEF CancelBadgedStep, LoopPhases
  <2>2. /\ loop.obj \in ks.live /\ cur # IdleThread
        /\ loop.obj \in Endpoints /\ ks.epState[loop.obj] = "Idle"
        /\ NoDuplicates(loop.todo) /\ ToSet(loop.todo) \subseteq ToSet(loop.queue)
        /\ \A u \in ToSet(loop.queue) : ks.tsType[u] = "BlockedOnSend"
    BY <1>0, <2>1 DEF LoopInv
  <2>3. /\ t \in Threads /\ t \in ToSet(loop.queue)
        /\ ToSet(Tail(loop.todo)) = ToSet(loop.todo) \ {t} /\ NoDuplicates(Tail(loop.todo))
    BY <1>1, <2>1, <2>2, HeadTailQueue
  <2>4. /\ loop'.obj = loop.obj /\ loop'.todo = Tail(loop.todo)
        /\ loop'.queue = IF match THEN tcbEPDequeue(t, loop.queue) ELSE loop.queue
    BY <1>0, <2>1 DEF LoopType
  <2> HIDE DEF t
  <2>5. CASE match
    <3>1. /\ ToSet(loop'.queue) = ToSet(loop.queue) \ {t} /\ NoDuplicates(loop'.queue)
      BY <1>1, <1>2, <2>1, <2>3, <2>4, <2>5, DequeueQueue
    <3>2. ks' = wakeToRestart(ks, t)
      BY <2>1, <2>5
    <3> HIDE DEF match
    <3>3. Woken(t)
      BY <1>3, <2>1, <2>3, <2>4, <3>1, <3>2 DEF Woken
    <3>4. LoopInv'
      <4>1. /\ ks'.live = ks.live /\ ks'.epState = ks.epState /\ ks'.ksCurThread = ks.ksCurThread
            /\ \A u \in Threads \ {t} : ks'.tsType[u] = ks.tsType[u]
        BY <1>3, <2>1, <2>3, <3>2
      <4>2. ToSet(loop'.todo) \subseteq ToSet(loop'.queue) /\ NoDuplicates(loop'.todo)
        BY <2>2, <2>3, <2>4, <3>1
      <4>3. ToSet(loop.queue) \subseteq Threads
        BY <1>1 DEF ToSet
      <4>4. \A u \in ToSet(loop'.queue) : ks'.tsType[u] = "BlockedOnSend"
        BY <2>2, <3>1, <4>1, <4>3
      <4> QED BY <2>1, <2>2, <2>4, <4>1, <4>2, <4>4 DEF LoopInv, cur
    <3> QED BY <2>1, <2>3, <3>3, <3>4, LoopWake
  <2>6. CASE ~match
    <3>1. ks' = ks /\ loop'.queue = loop.queue
      BY <2>1, <2>4, <2>6
    <3>2. EPQueues' = EPQueues /\ NtfnQueues' = NtfnQueues
      BY <2>4, <3>1 DEF EPQueues, NtfnQueues, EPWaiters, NtfnWaiters
    <3>3. LoopInv'
      BY <2>1, <2>2, <2>3, <2>4, <3>1 DEF LoopInv, cur
    <3> QED BY <2>1, <3>1, <3>2, <3>3 DEF KernelInv, cur
  <2> QED BY <2>5, <2>6
<1> QED BY <1>4, <1>5

\* The end of a loop, once its object is in order again.
LEMMA EndLoopInv ==
  ASSUME IInv', NEW k \in KState, ObjectsInv(k), QueuesInv(k, {}), k.asserts,
         k.ksCurThread \in Threads, EndLoop(k)
  PROVE  KernelInv'
<1> DEFINE k1 == rescheduleRequired(k)
<1>1. SchedInv(k1, {}) /\ Requeued(k, k1)
  BY SchedInvReschedule, RescheduleEffect DEF QueuesInv
<1> HIDE DEF k1
<1>2. /\ k1 \in KState /\ SameObjects(k, k1) /\ k1.ksCurThread = k.ksCurThread
      /\ k1.tsType = k.tsType /\ k1.blocking = k.blocking /\ k1.asserts = k.asserts
  BY <1>1 DEF Requeued, Framed, SameFrame, SameSwitch
<1>3. Consistent(k1)
  BY <1>1, <1>2, ObjectsInvSame DEF Consistent
<1>4. Consistent(finishInvocation(k1))
  BY <1>2, <1>3, FinishInvocationInv
<1>5. ks' = finishInvocation(k1) /\ phase' = "schedule" /\ loop' = NoLoop
  BY DEF EndLoop, k1
<1>6. phase' \notin LoopPhases /\ phase' # "user"
  BY <1>5 DEF LoopPhases
<1> QED BY <1>4, <1>5, <1>6, LeaveKernel

\* The object of a finished deletion goes, and with it nothing that is waited for.
LEMMA CancelAllDoneInv ==
  ASSUME IInv, KernelInv, IInv', CancelAllDone
  PROVE  KernelInv'
<1> DEFINE o  == loop.obj
           k1 == [ks EXCEPT !.live = @ \ {o}]
<1>1. phase \in {"cancelAllIPC", "cancelAllSignals"} /\ loop.todo = <<>> /\ EndLoop(k1)
  BY DEF CancelAllDone
<1>2. /\ ks \in KState /\ ObjectsOK(ks)
      /\ LoopInv /\ ThreadsInv(ks) /\ QueuesInv(ks, {}) /\ ks.asserts
      /\ EPLinked(ks.tsType, ks.blocking, EPQueues) /\ NtfnLinked(ks.tsType, ks.blocking, NtfnQueues)
      /\ EPKinds(ks.tsType, ks.epQueue, ks.epState)
  BY DEF IInv, TypeOK, KernelInv
<1>3. /\ loop.queue = <<>> /\ o \in Endpoints \cup Notifications /\ cur # IdleThread
      /\ o \in Endpoints => ks.epState[o] = "Idle"
      /\ o \in Notifications => ks.ntfnState[o] = "Idle" /\ ks.ntfnBoundTCB[o] = Null
  BY <1>1, <1>2 DEF LoopInv, LoopPhases
<1> HIDE DEF o
<1>4. /\ o \in Endpoints => ks.epQueue[o] = <<>>
      /\ o \in Notifications => ks.ntfnQueue[o] = <<>>
  BY <1>2, <1>3 DEF ObjectsOK, EPStatesOK, NtfnStatesOK
<1>5. \A e \in Endpoints : EPQueues[e] = ks.epQueue[e]
  BY <1>3, <1>4 DEF EPQueues, EPWaiters, o
<1>6. \A n \in Notifications : NtfnQueues[n] = ks.ntfnQueue[n]
  BY <1>3, <1>4 DEF NtfnQueues, NtfnWaiters, o
<1>7. EPLinked(ks.tsType, ks.blocking, ks.epQueue) /\ NtfnLinked(ks.tsType, ks.blocking, ks.ntfnQueue)
  BY <1>2, <1>5, <1>6 DEF EPLinked, NtfnLinked, Linked
<1>8. \A t \in Threads : ks.blocking[t].obj # o
  <2>1. ToSet(<<>>) = {}
    BY DEF ToSet
  <2>2. \A t \in Threads : ks.tsType[t] \in EPBlocked => ks.blocking[t].obj # o
    BY <1>2, <1>4, <1>7, <2>1 DEF EPLinked, Linked, ThreadsInv, BlockingOK
  <2>3. \A t \in Threads : ks.tsType[t] = "BlockedOnNotification" => ks.blocking[t].obj # o
    BY <1>2, <1>4, <1>7, <2>1 DEF NtfnLinked, Linked, ThreadsInv, BlockingOK
  <2>4. \A t \in Threads : ks.tsType[t] \notin WaitStates => ks.blocking[t].obj # o
    BY <1>2, <1>3 DEF ThreadsInv, BlockingOK, NotBlocking
  <2> QED BY <2>2, <2>3, <2>4 DEF WaitStates
<1>9. SameButLive(ks, k1) /\ k1.live = ks.live \ {o} /\ k1 \in KState
  BY <1>2 DEF KState, SameButLive, SameScheduling, SameEPs, SameNtfns, SameReplies
<1> HIDE DEF k1
<1>10. LiveOK(k1)
  BY <1>2, <1>3, <1>8, <1>9, LiveRemoved DEF ThreadsInv
<1>11. ObjectsInv(k1)
  BY <1>2, <1>7, <1>9, <1>10 DEF ObjectsInv, ThreadsInv, SameButLive, SameScheduling, SameEPs,
     SameNtfns, SameReplies
<1>12. QueuesInv(k1, {})
  BY <1>2, <1>9 DEF QueuesInv, ReadyQueuesOK, SchedulerInv, readyQueueOf, isRunnable, SameButLive,
     SameScheduling
<1>13. k1.asserts /\ k1.ksCurThread \in Threads
  BY <1>2, <1>3, <1>9 DEF SameButLive, SameScheduling, cur, KState
<1> QED BY <1>1, <1>9, <1>11, <1>12, <1>13, EndLoopInv

\* cancelBadgedSends puts back the threads whose badge did not match.
LEMMA CancelBadgedDoneInv ==
  ASSUME IInv, KernelInv, IInv', CancelBadgedDone
  PROVE  KernelInv'
<1> DEFINE o  == loop.obj
           st == IF loop.queue # <<>> THEN "Send" ELSE ks.epState[o]
           k1 == [ks EXCEPT !.epQueue[o] = loop.queue,
                            !.epState[o] = IF loop.queue # <<>> THEN "Send" ELSE @]
<1>1. phase = "cancelBadgedSends" /\ EndLoop(k1)
  BY DEF CancelBadgedDone
<1>2. /\ ks \in KState /\ loop \in LoopType
      /\ LoopInv /\ ThreadsInv(ks) /\ QueuesInv(ks, {}) /\ ks.asserts
      /\ EPLinked(ks.tsType, ks.blocking, EPQueues) /\ NtfnLinked(ks.tsType, ks.blocking, NtfnQueues)
      /\ EPKinds(ks.tsType, ks.epQueue, ks.epState)
  BY DEF IInv, TypeOK, KernelInv
<1>3. /\ o \in Endpoints /\ o \in ks.live /\ cur # IdleThread /\ ks.epState[o] = "Idle"
      /\ \A t \in ToSet(loop.queue) : ks.tsType[t] = "BlockedOnSend"
      /\ loop.queue \in Seq(Threads)
  BY <1>1, <1>2 DEF LoopInv, LoopPhases, LoopType
<1>4. st \in EPStates
  BY <1>3 DEF EPStates
<1>5. /\ SameBase(ks, k1) /\ SameNtfns(ks, k1) /\ SameReplies(ks, k1)
      /\ k1.epQueue = [ks.epQueue EXCEPT ![o] = loop.queue]
      /\ k1.epState = [ks.epState EXCEPT ![o] = st]
  BY <1>2 DEF KState, SameBase, SameScheduling, SameNtfns, SameReplies
<1>6. k1 = [ks EXCEPT !.epQueue[o] = loop.queue, !.epState[o] = st]
  BY <1>2 DEF KState
<1>7. k1 \in KState
  <2> HIDE DEF st, o, k1
  <2> QED BY <1>2, <1>3, <1>4, <1>6, ZenonT(40) DEF KState
<1> HIDE DEF k1, o
<1>8. ks.epQueue \in [Endpoints -> Seq(Threads)] /\ ks.epState \in [Endpoints -> EPStates]
  BY <1>2 DEF KState
<1>9. /\ k1.epQueue[o] = loop.queue /\ k1.epState[o] = st
      /\ \A e \in Endpoints \ {o} : k1.epQueue[e] = ks.epQueue[e] /\ k1.epState[e] = ks.epState[e]
  BY <1>3, <1>5, <1>8
<1>10. /\ \A e \in Endpoints : EPQueues[e] = k1.epQueue[e]
       /\ \A n \in Notifications : NtfnQueues[n] = ks.ntfnQueue[n]
  BY <1>3, <1>9 DEF EPQueues, EPWaiters, NtfnQueues, NtfnWaiters, o
<1>11. k1.tsType = ks.tsType /\ k1.blocking = ks.blocking /\ k1.ntfnQueue = ks.ntfnQueue
  BY <1>5 DEF SameBase, SameScheduling, SameNtfns
<1>12. EPLinked(k1.tsType, k1.blocking, k1.epQueue) /\ NtfnLinked(k1.tsType, k1.blocking, k1.ntfnQueue)
  BY <1>2, <1>10, <1>11 DEF EPLinked, NtfnLinked, Linked
<1>13. EPKinds(k1.tsType, k1.epQueue, k1.epState)
  <2>1. ToSet(<<>>) = {}
    BY DEF ToSet
  <2>2. \A t \in ToSet(k1.epQueue[o]) : k1.tsType[t] = "BlockedOnSend" /\ k1.epState[o] = "Send"
    BY <1>3, <1>9, <1>11, <2>1
  <2> QED BY <1>2, <1>9, <1>11, <2>2 DEF EPKinds
<1>14. ThreadsInv(k1)
  BY <1>2, <1>3, <1>5, <1>9 DEF ThreadsInv, LiveOK, SameBase, SameScheduling, SameNtfns, SameReplies
<1>15. QueuesInv(k1, {})
  BY <1>2, <1>5 DEF QueuesInv, ReadyQueuesOK, SchedulerInv, readyQueueOf, isRunnable, SameBase,
     SameScheduling
<1>16. k1.asserts /\ k1.ksCurThread \in Threads
  BY <1>2, <1>3, <1>5 DEF SameBase, SameScheduling, cur, KState
<1>17. ObjectsInv(k1)
  BY <1>12, <1>13, <1>14 DEF ObjectsInv
<1> QED BY <1>1, <1>7, <1>15, <1>16, <1>17, EndLoopInv

-----------------------------------------------------------------------------
(* Interrupts and the return to the user *)

\* Interrupts keep the invariant, whether a thread or the idle thread runs.
LEMMA InterruptInv ==
  ASSUME IInv, KernelInv, IInv', Interrupt
  PROVE  KernelInv'
<1>0. phase = "user"
  BY DEF Interrupt, TimerInterrupt, SignalInterrupt
<1>1. KernelOK(ks)
  BY <1>0, EnterKernel DEF LoopPhases
<1>2. CASE TimerInterrupt
  <2>1. ks.ksDomainTime > 0
    BY <1>0 DEF IInv, DomainTimePositive
  <2>2. Consistent(timerTick(ks))
    BY <1>1, <2>1, TimerInv DEF KernelOK, OK
  <2> QED BY <1>0, <1>2, <2>2, HandlerInv DEF TimerInterrupt
<1>3. ASSUME NEW n \in Ntfns, NEW badge \in SUBSET SignalBits, SignalInterrupt(n, badge)
      PROVE  KernelInv'
  <2>1. Consistent(sendSignal(ks, n, badge))
    BY <1>1, SendSignalInv DEF Ntfns
  <2> QED BY <1>0, <1>3, <2>1, HandlerInv DEF SignalInterrupt
<1> QED BY <1>2, <1>3 DEF Interrupt

\* schedule() and activateThread() return to a thread that may run.
LEMMA ScheduleAndActivateInv ==
  ASSUME IInv, KernelInv, IInv', ScheduleAndActivate
  PROVE  KernelInv'
<1> DEFINE k1 == schedule(ks)
           k2 == activateThread(k1)
           k3 == [k2 EXCEPT !.transfer = NoTransfer]
<1>1. phase = "schedule" /\ ks' = k3 /\ phase' = "user" /\ loop' = loop
  BY DEF ScheduleAndActivate
<1>2. loop = NoLoop /\ KernelOK(ks)
  BY <1>1, EnterKernel DEF LoopPhases
<1>3. ks \in KState /\ Consistent(ks) /\ SchedInv(ks, {}) /\ ks.asserts
  BY <1>2 DEF KernelOK, OK, Consistent
<1>4. /\ SameThreads(ks, k1) /\ SchedInv(k1, {}) /\ k1.ksSchedulerAction = ResumeCurrentThread
  BY <1>3, ScheduleInv
<1>5. ScheduledOK(ks, k1)
  BY ScheduleScheduled DEF IInv, TypeOK, DomainTimePositive
<1> HIDE DEF k1
<1>6. /\ k1 \in KState /\ k1.tsType = ks.tsType /\ k1.blocking = ks.blocking /\ k1.asserts = ks.asserts
      /\ SameObjects(ks, k1)
  BY <1>4, <1>5 DEF SameThreads, ScheduledOK
<1>7. Consistent(k1)
  BY <1>3, <1>4, <1>6, ConsistentScheduled
<1>8. /\ SchedInv(k2, {}) /\ k2.ksSchedulerAction = ResumeCurrentThread
      /\ k2.ksCurThread = k1.ksCurThread
      /\ k1.ksCurThread # IdleThread => k2.tsType[k1.ksCurThread] = "Running"
      /\ \/ k2 = k1
         \/ /\ k1.ksCurThread \in Threads /\ k1.tsType[k1.ksCurThread] = "Restart"
            /\ Restated(k1, k2, k1.ksCurThread, "Running", NotBlocking)
  BY <1>3, <1>4, <1>6, ActivateInv
<1>9. k2 \in KState
  BY <1>6, FramedActivate DEF Framed
<1> HIDE DEF k2
<1>10. Consistent(k2)
  <2>1. CASE k2 = k1
    BY <1>7, <2>1
  <2>2. CASE /\ k1.ksCurThread \in Threads /\ k1.tsType[k1.ksCurThread] = "Restart"
             /\ Restated(k1, k2, k1.ksCurThread, "Running", NotBlocking)
    <3>1. isRunnable(k1, k1.ksCurThread)
      BY <2>2 DEF isRunnable, RunnableStates
    <3>2. /\ k1.ksCurThread \in k1.live /\ k1.replyMaster[k1.ksCurThread]
          /\ k1.tsType[k1.ksCurThread] \notin WaitStates /\ callerSlots(k1, k1.ksCurThread) = {}
      BY <1>7, <2>2, <3>1, RunningFacts
    <3>3. "Running" \notin WaitStates
      BY DEF WaitStates, EPBlocked
    <3> QED BY <1>6, <1>7, <1>8, <2>2, <3>2, <3>3, ConsistentRestated
  <2> QED BY <1>8, <2>1, <2>2
<1>11. SameCore(k2, k3)
  BY <1>9 DEF KState, SameCore, SameBase, SameScheduling, SameEPs, SameNtfns, SameReplies
<1> HIDE DEF k3
<1>12. Consistent(k3)
  BY <1>10, <1>11, ConsistentSame
<1>13. /\ ks'.ksSchedulerAction = ResumeCurrentThread
       /\ cur' # IdleThread => ks'.tsType[cur'] = "Running"
  BY <1>1, <1>8, <1>11 DEF SameCore, SameBase, SameScheduling, cur
<1>14. phase' \notin LoopPhases
  BY <1>1 DEF LoopPhases
<1> QED BY <1>1, <1>2, <1>12, <1>13, <1>14, LeaveKernel

-----------------------------------------------------------------------------
(* The invariant *)

\* Boot: the initial thread is the candidate, and nobody waits for anything.
LEMMA InitKernelInv == Init => KernelInv
<1> SUFFICES ASSUME Init PROVE KernelInv
  OBVIOUS
<1>1. PICK t0 \in Threads : ks = InitKS(t0)
  BY DEF Init
<1>2. phase = "schedule" /\ loop = NoLoop
  BY DEF Init
<1>3. IInv /\ ks \in KState
  BY InitIInv DEF IInv, TypeOK
<1>4. /\ ks.tsType = [t \in Threads |-> IF t = t0 THEN "Running" ELSE "Inactive"]
      /\ ks.blocking = [t \in Threads |-> NotBlocking]
      /\ ks.tcbQueued = [t \in Threads |-> FALSE]
      /\ ks.tcbDomain = [t \in Threads |-> DomSchedule[1].domain]
      /\ ks.tcbBoundNotification = [t \in Threads |-> Null]
      /\ ks.replyMaster = [t \in Threads |-> t = t0]
      /\ ks.replyCap = [s \in ReplySlots |-> Null]
      /\ ks.epState = [e \in Endpoints |-> "Idle"]
      /\ ks.epQueue = [e \in Endpoints |-> <<>>]
      /\ ks.ntfnState = [n \in Notifications |-> "Idle"]
      /\ ks.ntfnQueue = [n \in Notifications |-> <<>>]
      /\ ks.ntfnBoundTCB = [n \in Notifications |-> Null]
      /\ ks.ksReadyQueues = [i \in ReadyQueueIdx |-> <<>>]
      /\ ks.ksSchedulerAction = t0 /\ ks.ksCurThread = IdleThread
      /\ ks.ksCurDomain = DomSchedule[1].domain
      /\ ks.live = {t0} /\ ks.asserts
  BY <1>1 DEF InitKS
<1>5. ToSet(<<>>) = {} /\ NoDuplicates(<<>>)
  BY DEF ToSet, NoDuplicates
<1>6. \A t \in Threads :
        /\ ks.tsType[t] = IF t = t0 THEN "Running" ELSE "Inactive"
        /\ ks.tsType[t] \notin WaitStates /\ ks.tsType[t] \notin EPBlocked
        /\ ks.tsType[t] \notin {"BlockedOnNotification"} /\ ks.tsType[t] # "BlockedOnReceive"
        /\ ks.blocking[t] = NotBlocking
        /\ isRunnable(ks, t) <=> t = t0
  BY <1>4 DEF WaitStates, EPBlocked, isRunnable, RunnableStates
<1>7. LoopInv
  BY <1>2 DEF LoopInv, LoopPhases
<1>8. \A e \in Endpoints : EPQueues[e] = <<>> /\ ks.epQueue[e] = <<>>
  BY <1>2, <1>4 DEF EPQueues, EPWaiters, NoLoop
<1>9. \A n \in Notifications : NtfnQueues[n] = <<>>
  BY <1>2, <1>4 DEF NtfnQueues, NtfnWaiters, NoLoop
<1>10. EPLinked(ks.tsType, ks.blocking, EPQueues) /\ NtfnLinked(ks.tsType, ks.blocking, NtfnQueues)
  BY <1>5, <1>6, <1>8, <1>9 DEF EPLinked, NtfnLinked, Linked
<1>11. EPKinds(ks.tsType, ks.epQueue, ks.epState)
  BY <1>5, <1>8 DEF EPKinds
<1>12. BlockingOK(ks.tsType, ks.blocking)
  BY <1>6 DEF BlockingOK
<1>13. RepliesOK(ks.tsType, ks.replyCap, ks.replyMaster) /\ LiveOK(ks)
  <2>1. \A s \in ReplySlots : ks.replyCap[s] = Null
    BY <1>4
  <2>2. \A t \in Threads : ks.replyMaster[t] <=> t = t0
    <3> SUFFICES ASSUME NEW t \in Threads PROVE ks.replyMaster[t] <=> t = t0
      OBVIOUS
    <3>1. ks.replyMaster = [u \in Threads |-> u = t0]
      BY <1>4
    <3>2. [u \in Threads |-> u = t0][t] = (t = t0)
      BY Zenon
    <3> QED BY <3>1, <3>2
  <2>3. \A t \in Threads : t \in ReplySlots /\ ks.blocking[t].obj = Null
    BY <1>6 DEF ReplySlots, NotBlocking
  <2>4. RepliesOK(ks.tsType, ks.replyCap, ks.replyMaster)
    BY <1>6, <2>1, <2>2 DEF RepliesOK
  <2>5. \A t \in Threads : t \notin ks.live =>
          /\ ks.tsType[t] = "Inactive" /\ ~ks.replyMaster[t]
          /\ ks.replyCap[t] = Null /\ ks.tcbBoundNotification[t] = Null
    BY <1>4, <1>6, <2>1, <2>2, <2>3
  <2>6. /\ \A e \in Endpoints : ks.epState[e] = "Idle"
        /\ \A n \in Notifications : ks.ntfnState[n] = "Idle" /\ ks.ntfnBoundTCB[n] = Null
    BY <1>4
  <2> QED BY <2>3, <2>4, <2>5, <2>6 DEF LiveOK
<1>15. ReadyQueuesOK(ks)
  BY <1>4, <1>5 DEF ReadyQueuesOK
<1>16. SchedulerInv(ks, {})
  BY <1>4, <1>6 DEF SchedulerInv
<1>17. PriorityInv(ks, {})
  BY <1>4, <1>6 DEF PriorityInv
<1> QED BY <1>2, <1>4, <1>7, <1>10, <1>11, <1>12, <1>13, <1>15, <1>16, <1>17
        DEF KernelInv, ThreadsInv, QueuesInv

\* Every step of the kernel keeps the invariant.
LEMMA NextKernelInv == IInv /\ KernelInv /\ [Next]_vars => IInv' /\ KernelInv'
<1> SUFFICES ASSUME IInv, KernelInv, [Next]_vars PROVE IInv' /\ KernelInv'
  OBVIOUS
<1>0. IInv'
  BY NextIInv
<1>1. CASE ObjectInvocation
  BY <1>0, <1>1, SlotInv, TCBInv, LoopInvocationInv, Zenon DEF ObjectInvocation
<1>2. CASE KernelStep
  BY <1>0, <1>2, IterationInv, CancelAllDoneInv, CancelBadgedDoneInv, ScheduleAndActivateInv
     DEF KernelStep
<1>3. CASE UNCHANGED vars
  <2>1. ks' = ks /\ phase' = phase /\ loop' = loop
    BY <1>3 DEF vars
  <2>2. EPQueues' = EPQueues /\ NtfnQueues' = NtfnQueues /\ cur' = cur
    BY <2>1 DEF EPQueues, NtfnQueues, EPWaiters, NtfnWaiters, cur
  <2>3. LoopInv'
    BY <2>1, <2>2 DEF KernelInv, LoopInv
  <2> QED BY <1>0, <2>1, <2>2, <2>3 DEF KernelInv
<1> QED BY <1>0, <1>1, <1>2, <1>3, IPCSyscallInv, InterruptInv DEF Next

\* The invariant holds in every state the kernel reaches.
LEMMA SpecKernelInv == Spec => [](IInv /\ KernelInv)
<1> QED BY InitIInv, InitKernelInv, NextKernelInv, PTL DEF Spec

-----------------------------------------------------------------------------
(* What is proved *)

\* Thread states, wait queues, reply caps, ready queues and the scheduler action agree
\* in every state of the kernel, inside the loops over a queue too.
THEOREM KernelConsistent == Spec => []KernelInv
<1>1. IInv /\ KernelInv => KernelInv
  OBVIOUS
<1> QED BY <1>1, SpecKernelInv, PTL

\* A thread is linked in the queue of an endpoint exactly when its state says that it
\* is blocked there, once, and the endpoint's state agrees with its queue, between the
\* iterations of cancelAllIPC and cancelBadgedSends too (endpoint.c, thread.c).
THEOREM EndpointQueuesConsistent == Spec => []EndpointQueues
<1>1. IInv /\ KernelInv => EndpointQueues
  <2> SUFFICES ASSUME IInv, KernelInv PROVE EndpointQueues
    OBVIOUS
  <2>1. EPStatesOK(ks)
    BY DEF IInv, ObjectsOK
  <2>2. \A e \in Endpoints : EPQueues[e] = EPWaiters(e)
    BY DEF EPQueues
  <2> QED BY <2>1, <2>2 DEF KernelInv, EPLinked, Linked, EPKinds, EPBlocked, EndpointQueues, BlockedOnEP
<1> QED BY <1>1, SpecKernelInv, PTL

\* The same for notifications: no thread sleeps on a notification that holds a
\* signal, and no signal is lost to a queue that is empty (notification.c).
THEOREM NotificationQueuesConsistent == Spec => []NotificationQueues
<1>1. IInv /\ KernelInv => NotificationQueues
  <2> SUFFICES ASSUME IInv, KernelInv PROVE NotificationQueues
    OBVIOUS
  <2>1. NtfnStatesOK(ks)
    BY DEF IInv, ObjectsOK
  <2>2. \A n \in Notifications : NtfnQueues[n] = NtfnWaiters(n)
    BY DEF NtfnQueues
  <2> QED BY <2>1, <2>2 DEF KernelInv, NtfnLinked, Linked, NotificationQueues, BlockedOnNtfn
<1> QED BY <1>1, SpecKernelInv, PTL

\* A reply cap names a thread that waits for the reply, no thread has two of them,
\* and setupCallerCap never overwrites one (setupCallerCap, doReplyTransfer,
\* replyIPCCancel, cteDeleteOne).
THEOREM ReplyCapsUsedOnce == Spec => []ReplyCaps
<1>1. IInv /\ KernelInv => ReplyCaps
  BY DEF KernelInv, ThreadsInv, RepliesOK, ReplyCaps
<1> QED BY <1>1, SpecKernelInv, PTL

\* tcbQueued agrees with the ready queues for any number of domains and priorities.
THEOREM ReadyQueuesConsistent == Spec => []ReadyQueues
<1>1. IInv /\ KernelInv => ReadyQueues
  BY DEF KernelInv, QueuesInv, ReadyQueues
<1> QED BY <1>1, SpecKernelInv, PTL

\* A runnable thread runs, is queued or is the scheduler's candidate, whatever IPC,
\* deletion and scheduling the threads do.
THEOREM RunnableThreadsKnown == Spec => []NoThreadLost
<1>1. IInv /\ KernelInv => NoThreadLost
  BY DEF KernelInv, QueuesInv, SchedulerInv, NoThreadLost, cur
<1> QED BY <1>1, SpecKernelInv, PTL

\* The kernel returns to a thread that is running, not queued and of the active domain.
THEOREM CurrentThreadMayRun == Spec => []CurrentThread
<1>1. IInv /\ KernelInv => CurrentThread
  <2> SUFFICES ASSUME IInv, KernelInv, phase = "user" PROVE CurrentThread
    BY DEF CurrentThread
  <2>1. ks.ksSchedulerAction = ResumeCurrentThread /\ (cur # IdleThread => ks.tsType[cur] = "Running")
    BY DEF KernelInv
  <2>2. cur # IdleThread => ~ks.tcbQueued[cur] /\ ks.tcbDomain[cur] = ks.ksCurDomain
    BY <2>1 DEF KernelInv, QueuesInv, SchedulerInv, cur
  <2> QED BY <2>1, <2>2 DEF CurrentThread
<1> QED BY <1>1, SpecKernelInv, PTL

\* No queue, cap, binding, blocking object, candidate or user context refers to an object
\* whose last cap is gone, and the object itself is clear of them (finaliseCap).
THEOREM NothingDangles == Spec => []NoDanglingReferences
<1>1. IInv /\ KernelInv => NoDanglingReferences
  <2> SUFFICES ASSUME IInv, KernelInv PROVE NoDanglingReferences
    OBVIOUS
  <2>0. /\ ks \in KState /\ BoundOK(ks) /\ EPStatesOK(ks) /\ NtfnStatesOK(ks) /\ LoopInv
        /\ EPLinked(ks.tsType, ks.blocking, EPQueues) /\ NtfnLinked(ks.tsType, ks.blocking, NtfnQueues)
        /\ RepliesOK(ks.tsType, ks.replyCap, ks.replyMaster) /\ LiveOK(ks) /\ SchedulerInv(ks, {})
    BY DEF IInv, TypeOK, ObjectsOK, KernelInv, ThreadsInv, QueuesInv
  <2>1. ASSUME NEW t \in Threads \ ks.live
        PROVE  /\ ks.tcbBoundNotification[t] = Null /\ ks.replyCap[t] = Null /\ ~ks.replyMaster[t]
               /\ ~ks.tcbQueued[t]
               /\ ks.ksSchedulerAction # t
               /\ phase = "user" => cur # t
               /\ \A s \in ReplySlots : ks.replyCap[s] # t
               /\ \A e \in Endpoints : t \notin ToSet(ks.epQueue[e])
               /\ \A n \in Notifications : t \notin ToSet(ks.ntfnQueue[n]) /\ ks.ntfnBoundTCB[n] # t
    <3>1. /\ ks.tsType[t] = "Inactive" /\ ks.tcbBoundNotification[t] = Null
          /\ ks.replyCap[t] = Null /\ ~ks.replyMaster[t]
      BY <2>0 DEF LiveOK
    <3>2. ~isRunnable(ks, t)
      BY <3>1 DEF isRunnable, RunnableStates
    <3>3. ~ks.tcbQueued[t] /\ ks.ksSchedulerAction # t
      BY <2>0, <3>2 DEF SchedulerInv
    <3>4. phase = "user" => cur # t
      BY <3>1 DEF KernelInv
    <3>5. \A s \in ReplySlots : ks.replyCap[s] # t
      BY <2>0, <3>1 DEF RepliesOK
    <3>6. \A n \in Notifications : ks.ntfnBoundTCB[n] # t
      BY <2>0, <3>1 DEF BoundOK
    <3>7. ToSet(<<>>) = {}
      BY DEF ToSet
    <3>8. ASSUME NEW e \in Endpoints PROVE t \notin ToSet(ks.epQueue[e])
      <4>1. CASE loop.obj = e
        <5>1. ks.epState[e] = "Idle"
          BY <2>0, <4>1 DEF LoopInv, LoopPhases, NoLoop
        <5> QED BY <2>0, <3>7, <5>1 DEF EPStatesOK
      <4>2. CASE loop.obj # e
        <5>1. EPQueues[e] = ks.epQueue[e]
          BY <4>2 DEF EPQueues, EPWaiters
        <5> QED BY <2>0, <3>1, <5>1 DEF EPLinked, Linked, EPBlocked
      <4> QED BY <4>1, <4>2
    <3>9. ASSUME NEW n \in Notifications PROVE t \notin ToSet(ks.ntfnQueue[n])
      <4>1. CASE loop.obj = n
        <5>1. ks.ntfnState[n] = "Idle"
          BY <2>0, <4>1 DEF LoopInv, LoopPhases, NoLoop
        <5> QED BY <2>0, <3>7, <5>1 DEF NtfnStatesOK
      <4>2. CASE loop.obj # n
        <5>1. NtfnQueues[n] = ks.ntfnQueue[n]
          BY <4>2 DEF NtfnQueues, NtfnWaiters
        <5> QED BY <2>0, <3>1, <5>1 DEF NtfnLinked, Linked
      <4> QED BY <4>1, <4>2
    <3> QED BY <3>1, <3>3, <3>4, <3>5, <3>6, <3>8, <3>9
  <2>2. ASSUME NEW o \in (Endpoints \cup Notifications) \ ks.live, NEW t \in Threads
        PROVE  ks.blocking[t].obj # o /\ ks.tcbBoundNotification[t] # o
    <3>1. ks.blocking[t].obj # o
      BY <2>0 DEF LiveOK
    <3>2. ks.tcbBoundNotification[t] \in Notifications \cup {Null}
      BY <2>0 DEF KState
    <3>3. ks.tcbBoundNotification[t] # o
      BY <2>0, <3>2 DEF LiveOK, BoundOK
    <3> QED BY <3>1, <3>3
  <2>3. /\ \A e \in Endpoints \ ks.live : ks.epState[e] = "Idle"
        /\ \A n \in Notifications \ ks.live : ks.ntfnState[n] # "Waiting" /\ ks.ntfnBoundTCB[n] = Null
    BY <2>0 DEF LiveOK
  <2> QED BY <2>1, <2>2, <2>3 DEF NoDanglingReferences
<1> QED BY <1>1, SpecKernelInv, PTL

\* No assert() or fail() on a modelled path fails, whatever the users do.
THEOREM AssertionsHold == Spec => []NoAssertionFails
<1>1. IInv /\ KernelInv => NoAssertionFails
  BY DEF KernelInv, NoAssertionFails
<1> QED BY <1>1, SpecKernelInv, PTL

\* The thread that runs has the highest priority of the runnable threads of its domain,
\* in a system with one domain, or in which nobody holds the domain cap, or only threads
\* of the highest priority do.  (setDomain does not preempt, so the restriction is needed.)
THEOREM PriorityScheduling ==
  ASSUME DomainsGuarded
  PROVE  Spec => []HighestPriorityRuns
<1>1. IInv /\ KernelInv => HighestPriorityRuns
  <2> SUFFICES ASSUME IInv, KernelInv, phase = "user" PROVE HighestPriorityRuns
    BY DEF HighestPriorityRuns
  <2>1. ks.ksSchedulerAction = ResumeCurrentThread /\ PriorityInv(ks, {})
    BY DEF KernelInv, LoopPhases
  <2>2. \A t \in Threads : t # ResumeCurrentThread
    OBVIOUS
  <2>3. ks.ksSchedulerAction # ChooseNewThread
    BY <2>1 DEF ResumeCurrentThread, ChooseNewThread
  <2> QED BY <2>1, <2>2, <2>3 DEF PriorityInv, HighestPriorityRuns, cur
<1> QED BY <1>1, SpecKernelInv, PTL

\* A message is in transit only while a system call is handled.
TransferDone == phase = "user" => ks.transfer = NoTransfer

\* Only ScheduleAndActivate returns to the user.
LEMMA BackToUser ==
  ASSUME Next, phase' = "user"
  PROVE  ScheduleAndActivate
<1>1. ASSUME NEW k, EndHandler(k) PROVE FALSE
  BY <1>1, Zenon DEF EndHandler
<1>2. ASSUME NEW k, EndLoop(k) PROVE FALSE
  BY <1>2, Zenon DEF EndLoop
<1>3. ASSUME NEW k, NEW obj, NEW badge, NEW queue, NEW name, name # "user", BeginLoop(k, name, obj, badge, queue)
      PROVE  FALSE
  BY <1>3, Zenon DEF BeginLoop
<1>4. CASE IPCSyscall
  BY <1>1, <1>4, Zenon DEF IPCSyscall, Send, Call, Recv, Reply, ReplyRecv, InvokeReply, Signal, Fault, Yield
<1>5. CASE ObjectInvocation
  <2>1. ASSUME NEW ep, DeleteEndpoint(ep) \/ (\E badge : CancelBadgedSends(ep, badge)) \/ DeleteNotification(ep)
        PROVE  FALSE
    <3>1. "cancelAllIPC" # "user" /\ "cancelBadgedSends" # "user" /\ "cancelAllSignals" # "user"
      OBVIOUS
    <3> QED BY <1>1, <1>3, <2>1, <3>1, Zenon DEF DeleteEndpoint, CancelBadgedSends, DeleteNotification
  <2>2. ASSUME NEW t, NEW x, NEW y, NEW z,
               \/ RetypeThread(t) \/ RetypeEndpoint(t) \/ RetypeNotification(t)
               \/ SaveCaller(t) \/ DeleteReplyCap(t)
               \/ TCBSuspend(t) \/ TCBResume(t) \/ TCBSetContext(t) \/ DeleteThread(t)
               \/ TCBSetPriority(t, x) \/ TCBReadRegisters(t, x) \/ TCBWriteRegisters(t, x)
               \/ TCBBindNotification(t, x) \/ TCBUnbindNotification(t) \/ DomainSet(t, x)
               \/ TCBCopyRegisters(t, x, y, z)
        PROVE  FALSE
    BY <1>1, <2>2, Zenon DEF RetypeThread, RetypeEndpoint, RetypeNotification, SaveCaller, DeleteReplyCap,
       TCBSuspend, TCBResume, TCBSetContext, DeleteThread, TCBSetPriority, TCBReadRegisters,
       TCBWriteRegisters, TCBBindNotification, TCBUnbindNotification, DomainSet, TCBCopyRegisters
  <2> QED BY <1>5, <2>1, <2>2, Zenon DEF ObjectInvocation
<1>6. CASE Interrupt
  BY <1>1, <1>6, Zenon DEF Interrupt, TimerInterrupt, SignalInterrupt
<1>7. CASE KernelStep
  BY <1>2, <1>7 DEF KernelStep, CancelAllStep, CancelAllDone, CancelBadgedStep, CancelBadgedDone
<1> QED BY <1>4, <1>5, <1>6, <1>7, Zenon DEF Next

\* The fast paths of Call and ReplyRecv (fastpath.c) do what the slow paths do, for every
\* configuration: whenever their conditions hold, they leave the state that the handler,
\* schedule() and activateThread() would have left.
THEOREM FastpathsAgree == Spec => []FastpathAgrees
<1>1. Init => TransferDone
  BY DEF Init, TransferDone
<1>2. TransferDone /\ IInv /\ [Next]_vars => TransferDone'
  <2> SUFFICES ASSUME TransferDone, IInv, [Next]_vars, phase' = "user" PROVE ks'.transfer = NoTransfer
    BY DEF TransferDone
  <2>1. CASE UNCHANGED vars
    BY <2>1 DEF vars, TransferDone
  <2>2. CASE Next
    <3>1. ScheduleAndActivate
      BY <2>2, BackToUser
    <3>2. IInv'
      BY <2>2, NextIInv
    <3> QED BY <3>1, <3>2 DEF ScheduleAndActivate, IInv, TypeOK, KState
  <2> QED BY <2>1, <2>2
<1>3. Spec => []TransferDone
  BY <1>1, <1>2, SpecKernelInv, PTL DEF Spec
<1>4. IInv /\ KernelInv /\ TransferDone => FastpathAgrees
  <2> SUFFICES ASSUME IInv, KernelInv, TransferDone, phase = "user", cur # IdleThread PROVE FastpathAgrees
    BY DEF FastpathAgrees
  <2>1. KernelOK(ks)
    BY EnterKernel DEF LoopPhases
  <2>2. UserState(ks)
    <3>1. ks \in KState /\ ks.ksCurThread \in Threads /\ ks.transfer = NoTransfer
      BY <2>1 DEF KernelOK, OK, KState, cur, TransferDone
    <3>2. ks.asserts = TRUE
      BY <2>1, <3>1 DEF KernelOK, Consistent, KState
    <3>3. ks.ksSchedulerAction = ResumeCurrentThread /\ ks.tsType[ks.ksCurThread] = "Running"
      BY DEF KernelInv, cur
    <3>4. ObjectsInv(ks) /\ SchedulerInv(ks, {}) /\ EPStatesOK(ks)
      BY <2>1 DEF KernelOK, Consistent, SchedInv, QueuesInv, IInv, ObjectsOK
    <3> QED BY <3>1, <3>2, <3>3, <3>4 DEF UserState
  <2>3. \A ep \in EPs : ep \in Endpoints
    BY DEF EPs
  <2>4. ASSUME NEW ep \in EPs, NEW canReply \in BOOLEAN, NEW badge \in Badges, fastpath_call_ok(ks, ep, canReply)
        PROVE  fastpath_call(ks, ep) = slowpath(finishInvocation(
                 sendIPC(beginInvocation(ks), TRUE, TRUE, badge, canReply, cur, ep)))
    BY <2>2, <2>3, <2>4, FastpathCallAgrees DEF cur
  <2>5. ASSUME NEW ep \in EPs, fastpath_reply_recv_ok(ks, ep)
        PROVE  fastpath_reply_recv(ks, ep) = slowpath(handleRecv(handleReply(ks, TRUE), ep, TRUE, Null))
    BY <2>2, <2>3, <2>5, FastpathReplyRecvAgrees
  <2> QED BY <2>4, <2>5 DEF FastpathAgrees
<1> QED BY <1>3, <1>4, SpecKernelInv, PTL

=============================================================================
