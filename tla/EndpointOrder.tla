---------------------------- MODULE EndpointOrder ----------------------------
(***************************************************************************)
(* Endpoint queues are first-come first-served: what each kernel function  *)
(* does to the order of the endpoint queues, put together for every action *)
(* of Kernel, the loops over a detached queue included.                    *)
(***************************************************************************)
EXTENDS KernelInvariance

USE DistinctObjects, ConfigurationBounds, ActionsAreNotThreads

-----------------------------------------------------------------------------
(* Queues *)

\* The threads of q1 are threads of q, in the order they have there.
Thinned(q, q1) ==
  /\ ToSet(q1) \subseteq ToSet(q)
  /\ \A a, b \in Threads : Before(q1, b, a) => Before(q, b, a)

\* Nobody gets in front of a thread of q, and only the first of them has left.
Served(q, q1) ==
  /\ \A a \in ToSet(q), b \in Threads : Before(q1, b, a) => Before(q, b, a)
  /\ \A a \in ToSet(q) \ ToSet(q1) : a = Head(q)

\* tcbEPDequeue keeps the order, and the other threads.
LEMMA DequeueOrder ==
  ASSUME NEW q \in Seq(Threads), NEW t \in Threads
  PROVE  /\ Thinned(q, tcbEPDequeue(t, q))
         /\ ToSet(q) \ ToSet(tcbEPDequeue(t, q)) \subseteq {t}
<1>1. CASE t \in ToSet(q)
  <2> DEFINE n == CHOOSE i \in DOMAIN q : q[i] = t
             r == RemoveAt(q, n)
  <2>1. n \in 1 .. Len(q) /\ q[n] = t /\ DOMAIN q = 1 .. Len(q)
    BY <1>1 DEF ToSet
  <2>2. tcbEPDequeue(t, q) = r
    BY <1>1 DEF tcbEPDequeue
  <2> HIDE DEF n
  <2>3. /\ r \in Seq(Threads) /\ Len(r) = Len(q) - 1 /\ DOMAIN r = 1 .. Len(q) - 1
        /\ \A i \in 1 .. Len(q) - 1 : r[i] = IF i < n THEN q[i] ELSE q[i + 1]
    BY <2>1, RemoveAtElements DEF Without
  <2> HIDE DEF r
  <2> DEFINE at(i) == IF i < n THEN i ELSE i + 1
  <2>4. ASSUME NEW i \in DOMAIN r PROVE at(i) \in DOMAIN q /\ r[i] = q[at(i)]
    BY <2>1, <2>3
  <2>5. ASSUME NEW i \in DOMAIN r, NEW j \in DOMAIN r, i < j PROVE at(i) < at(j)
    BY <2>1, <2>3, <2>5
  <2> HIDE DEF at
  <2>6. ASSUME NEW a, NEW b, Before(r, b, a) PROVE Before(q, b, a)
    BY <2>4, <2>5, <2>6 DEF Before
  <2>7. ASSUME NEW i \in DOMAIN q, q[i] # t PROVE q[i] \in ToSet(r)
    <3>1. CASE i < n
      BY <2>1, <2>3, <3>1 DEF ToSet
    <3>2. CASE i > n
      <4>1. i - 1 \in 1 .. Len(q) - 1 /\ r[i - 1] = q[(i - 1) + 1]
        BY <2>1, <2>3, <3>2
      <4>2. (i - 1) + 1 = i
        OBVIOUS
      <4> QED BY <2>3, <4>1, <4>2 DEF ToSet
    <3> QED BY <2>1, <2>7, <3>1, <3>2
  <2>8. ToSet(r) \subseteq ToSet(q)
    BY <2>4 DEF ToSet
  <2>9. ToSet(q) \ ToSet(r) \subseteq {t}
    BY <2>7 DEF ToSet
  <2> QED BY <2>2, <2>6, <2>8, <2>9 DEF Thinned
<1>2. CASE t \notin ToSet(q)
  BY <1>2 DEF tcbEPDequeue, Thinned
<1> QED BY <1>1, <1>2

\* Taking the first thread off a queue serves it.
LEMMA DequeueServes ==
  ASSUME NEW q \in Seq(Threads), q # <<>>
  PROVE  Served(q, tcbEPDequeue(Head(q), q))
<1>1. Head(q) \in Threads
  OBVIOUS
<1>2. \A a \in ToSet(q) : a \in Threads
  BY DEF ToSet
<1> QED BY <1>1, <1>2, DequeueOrder DEF Thinned, Served

\* A thread that joins at the end is behind everybody.
LEMMA AppendServes ==
  ASSUME NEW q \in Seq(Threads), NEW t \in Threads, t \notin ToSet(q)
  PROVE  Served(q, tcbEPAppend(t, q))
<1> DEFINE r == Append(q, t)
<1>1. /\ r \in Seq(Threads) /\ Len(r) = Len(q) + 1 /\ Len(q) \in Nat
      /\ DOMAIN r = 1 .. Len(q) + 1 /\ DOMAIN q = 1 .. Len(q)
      /\ r[Len(q) + 1] = t /\ \A i \in 1 .. Len(q) : r[i] = q[i]
  OBVIOUS
<1> HIDE DEF r
<1>2. ASSUME NEW a \in ToSet(q), NEW b \in Threads, Before(r, b, a) PROVE Before(q, b, a)
  <2>1. PICK i \in DOMAIN r, j \in DOMAIN r : i < j /\ r[i] = b /\ r[j] = a
    BY <1>2 DEF Before
  <2>2. j # Len(q) + 1
    BY <1>1, <2>1
  <2>3. i \in DOMAIN q /\ j \in DOMAIN q
    BY <1>1, <2>1, <2>2
  <2> QED BY <1>1, <2>1, <2>3 DEF Before
<1>3. ToSet(q) \subseteq ToSet(r)
  BY <1>1 DEF ToSet
<1> QED BY <1>2, <1>3 DEF Served, tcbEPAppend, r

\* A queue that stays as it is.
LEMMA SameOrder ==
  ASSUME NEW q
  PROVE  Thinned(q, q) /\ Served(q, q)
BY DEF Thinned, Served

\* Thinning twice.
LEMMA ThinnedTrans ==
  ASSUME NEW q, NEW q1, NEW q2, Thinned(q, q1), Thinned(q1, q2)
  PROVE  Thinned(q, q2)
BY DEF Thinned

-----------------------------------------------------------------------------
(* Kernel functions *)

\* The endpoint queues and the record of the transfer stay as they are.
Unmoved(k, k1) == OK(k1) /\ k1.epQueue = k.epQueue /\ k1.transfer = k.transfer

\* The endpoint queues lose threads and nothing is transferred.
Thins(k, k1) ==
  /\ OK(k1) /\ k1.transfer = k.transfer
  /\ \A e \in Endpoints : Thinned(k.epQueue[e], k1.epQueue[e])

\* Each endpoint queue is served in turn.
Serves(k, k1) == OK(k1) /\ \A e \in Endpoints : Served(k.epQueue[e], k1.epQueue[e])

\* A state that stays as it is.
LEMMA UnmovedSelf == ASSUME NEW k, OK(k) PROVE Unmoved(k, k)
BY DEF Unmoved

\* Two functions that leave the queues alone.
LEMMA UnmovedTrans ==
  ASSUME NEW k, NEW k1, NEW k2, Unmoved(k, k1), Unmoved(k1, k2)
  PROVE  Unmoved(k, k2)
BY DEF Unmoved

\* An endpoint queue that stays as it is counts as thinned and as served.
LEMMA UnmovedThins ==
  ASSUME NEW k, NEW k1, Unmoved(k, k1)
  PROVE  Thins(k, k1) /\ Serves(k, k1)
BY SameOrder DEF Unmoved, Thins, Serves

\* Two functions that thin the queues.
LEMMA ThinsTrans ==
  ASSUME NEW k, NEW k1, NEW k2, Thins(k, k1), Thins(k1, k2)
  PROVE  Thins(k, k2)
BY ThinnedTrans DEF Thins

\* The functions of the scheduler.
LEMMA UnmovedFramed ==
  ASSUME NEW k, NEW k1, OK(k), Framed(k, k1)
  PROVE  Unmoved(k, k1)
BY KeptFramed DEF Framed, SameFrame, SameSwitch, SameObjects, Unmoved, Kept

\* setThreadState.
LEMMA UnmovedState ==
  ASSUME NEW k, OK(k), NEW t, NEW ts \in ThreadStates
  PROVE  Unmoved(k, setThreadState(k, t, ts))
BY FramedSetThreadState, UnmovedFramed DEF OK

\* Waking a thread up.
LEMMA UnmovedWake ==
  ASSUME NEW k, OK(k), NEW t \in Threads, NEW ts \in ThreadStates
  PROVE  Unmoved(k, possibleSwitchTo(setThreadState(k, t, ts), t))
<1>1. Unmoved(k, setThreadState(k, t, ts))
  BY UnmovedState
<1>2. Unmoved(setThreadState(k, t, ts), possibleSwitchTo(setThreadState(k, t, ts), t))
  BY <1>1, FramedSwitch, UnmovedFramed DEF Unmoved, OK
<1> QED BY <1>1, <1>2, UnmovedTrans

\* assert() and fail().
LEMMA UnmovedAssert ==
  ASSUME NEW k, OK(k), NEW c
  PROVE  Unmoved(k, Assert_(k, c))
BY FramedAssert, UnmovedFramed DEF OK

\* Slots and faults.
LEMMA UnmovedSlots ==
  ASSUME NEW k, OK(k), NEW t, NEW b \in BOOLEAN
  PROVE  Unmoved(k, cteDeleteOne(k, t)) /\ Unmoved(k, [k EXCEPT !.tcbFault[t] = b])
<1>1. OK(cteDeleteOne(k, t)) /\ OK([k EXCEPT !.tcbFault[t] = b])
  BY KeptDeleteOne, KeptFault DEF Kept
<1> QED BY <1>1 DEF Unmoved, OK, KState, cteDeleteOne

\* setupReplyMaster.
LEMMA UnmovedReplyMaster ==
  ASSUME NEW k, OK(k), NEW t
  PROVE  Unmoved(k, setupReplyMaster(k, t))
<1>1. OK(setupReplyMaster(k, t))
  BY KeptReplyMaster DEF Kept
<1> QED BY <1>1 DEF Unmoved, OK, KState, setupReplyMaster, Assert_

\* setupCallerCap stores the reply cap and blocks the caller.
LEMMA UnmovedCallerCap ==
  ASSUME NEW k, OK(k), NEW sender \in Threads, NEW receiver
  PROVE  Unmoved(k, setupCallerCap(k, sender, receiver))
<1> DEFINE k1 == setThreadState(k, sender, "BlockedOnReply")
           k2 == Assert_(k1, k1.replyMaster[sender] /\ k1.replyCap[receiver] = Null)
           k3 == [k2 EXCEPT !.replyCap[receiver] = sender]
<1>1. Unmoved(k, k1)
  BY UnmovedState DEF ThreadStates, StoppedStates
<1> HIDE DEF k1
<1>2. Unmoved(k1, k2)
  BY <1>1, UnmovedAssert DEF Unmoved
<1> HIDE DEF k2
<1>3. k3 = setupCallerCap(k, sender, receiver)
  BY DEF setupCallerCap, k1, k2
<1>4. OK(k3)
  BY <1>3, KeptCallerCap DEF Kept
<1>5. Unmoved(k2, k3)
  BY <1>2, <1>4 DEF Unmoved, OK, KState
<1> QED BY <1>1, <1>2, <1>3, <1>5, UnmovedTrans

-----------------------------------------------------------------------------
(* Endpoints *)

\* epDequeue unlinks one thread.
LEMMA EPDequeueOrder ==
  ASSUME NEW k, OK(k), NEW ep, NEW t \in Threads
  PROVE  /\ Thins(k, epDequeue(k, ep, t))
         /\ epDequeue(k, ep, t).epQueue = [k.epQueue EXCEPT ![ep] = tcbEPDequeue(t, k.epQueue[ep])]
<1> DEFINE k1 == epDequeue(k, ep, t)
<1>1. OK(k1)
  BY KeptEPDequeue DEF Kept
<1>2. k1.transfer = k.transfer /\ k1.epQueue = [k.epQueue EXCEPT ![ep] = tcbEPDequeue(t, k.epQueue[ep])]
  BY DEF OK, KState, epDequeue
<1> HIDE DEF k1
<1>3. k.epQueue \in [Endpoints -> Seq(Threads)]
  BY DEF OK, KState
<1>4. ASSUME NEW e \in Endpoints PROVE Thinned(k.epQueue[e], k1.epQueue[e])
  <2>1. k.epQueue[e] \in Seq(Threads)
    BY <1>3
  <2>2. CASE e = ep
    BY <1>2, <1>3, <2>1, <2>2, DequeueOrder
  <2>3. CASE e # ep
    BY <1>2, <1>3, <2>3, SameOrder
  <2> QED BY <2>2, <2>3
<1> QED BY <1>1, <1>2, <1>4 DEF Thins, k1

\* One queue is served, the others stay.
LEMMA ServesOne ==
  ASSUME NEW k, OK(k), NEW k1, OK(k1), NEW ep \in Endpoints, NEW q, Served(k.epQueue[ep], q),
         k1.epQueue = [k.epQueue EXCEPT ![ep] = q]
  PROVE  Serves(k, k1)
<1>1. k.epQueue \in [Endpoints -> Seq(Threads)]
  BY DEF OK, KState
<1>2. ASSUME NEW e \in Endpoints PROVE Served(k.epQueue[e], k1.epQueue[e])
  BY <1>1, SameOrder
<1> QED BY <1>2 DEF Serves

\* The first thread is taken off the queue and the transfer recorded.
LEMMA RendezvousServes ==
  ASSUME NEW k, OK(k), NEW ep \in Endpoints, k.epState[ep] # "Idle",
         NEW t, t = Head(k.epQueue[ep]), NEW c, NEW sender, NEW isCall \in BOOLEAN, NEW k1,
         k1 = doIPCTransfer(epDequeue(Assert_(k, c), ep, t), sender, isCall)
  PROVE  Serves(k, k1) /\ t \in Threads
<1> DEFINE k0 == Assert_(k, c)
           ka == epDequeue(k0, ep, t)
<1>1. t \in Threads /\ k.epQueue[ep] \in Seq(Threads) /\ k.epQueue[ep] # <<>>
  BY EPHead DEF OK, KState, ObjectsOK, EPStatesOK
<1>2. Unmoved(k, k0)
  BY UnmovedAssert
<1> HIDE DEF k0
<1>3. OK(ka) /\ ka.epQueue = [k.epQueue EXCEPT ![ep] = tcbEPDequeue(t, k.epQueue[ep])]
  <2>1. OK(k0) /\ k0.epQueue = k.epQueue
    BY <1>2 DEF Unmoved
  <2>2. Thins(k0, ka) /\ ka.epQueue = [k0.epQueue EXCEPT ![ep] = tcbEPDequeue(t, k0.epQueue[ep])]
    BY <1>1, <2>1, EPDequeueOrder
  <2> QED BY <2>1, <2>2 DEF Thins
<1> HIDE DEF ka
<1>4. k1 = doIPCTransfer(ka, sender, isCall)
  BY DEF ka, k0
<1>5. OK(k1) /\ k1.epQueue = ka.epQueue
  <2>1. OK(k1)
    BY <1>3, <1>4, KeptTransfer DEF Kept
  <2> QED BY <1>3, <1>4, <2>1 DEF doIPCTransfer, OK, KState
<1>6. Served(k.epQueue[ep], tcbEPDequeue(t, k.epQueue[ep]))
  BY <1>1, DequeueServes
<1> QED BY <1>1, <1>3, <1>5, <1>6, ServesOne

\* What follows a rendezvous leaves the queues alone.
LEMMA ServesUnmoved ==
  ASSUME NEW k, NEW k1, NEW k2, Serves(k, k1), Unmoved(k1, k2)
  PROVE  Serves(k, k2)
BY DEF Serves, Unmoved

\* What comes before it does too.
LEMMA UnmovedServes ==
  ASSUME NEW k, NEW k1, NEW k2, Unmoved(k, k1), Serves(k1, k2)
  PROVE  Serves(k, k2)
BY DEF Serves, Unmoved

\* epBlock: the thread joins at the end.
LEMMA BlockServes ==
  ASSUME NEW k, OK(k), NEW ep \in Endpoints, NEW t \in Threads, NEW ts \in ThreadStates,
         NEW epst \in EPStates, epst # "Idle", NEW info \in Blocking, t \notin ToSet(k.epQueue[ep])
  PROVE  Serves(k, epBlock(k, ep, t, ts, epst, info))
<1> DEFINE k1 == scheduleTCB([k EXCEPT !.tsType[t] = ts, !.blocking[t] = info], t)
           k2 == [k1 EXCEPT !.epQueue[ep] = tcbEPAppend(t, @), !.epState[ep] = epst]
<1>1. Unmoved(k, k1)
  BY FramedState, UnmovedFramed DEF OK
<1> HIDE DEF k1
<1>2. k2 = epBlock(k, ep, t, ts, epst, info)
  BY DEF epBlock, k1
<1>3. OK(k2)
  BY <1>2, KeptEPBlock DEF Kept
<1>4. k2.epQueue = [k1.epQueue EXCEPT ![ep] = tcbEPAppend(t, k1.epQueue[ep])]
  BY <1>1 DEF Unmoved, OK, KState
<1>5. k.epQueue[ep] \in Seq(Threads)
  BY DEF OK, KState
<1>6. Served(k.epQueue[ep], tcbEPAppend(t, k.epQueue[ep]))
  BY <1>5, AppendServes
<1> HIDE DEF k2
<1> QED BY <1>1, <1>2, <1>3, <1>4, <1>6, ServesOne DEF Unmoved

\* sendIPC takes the first receiver or joins the queue.
LEMMA SendIPCServes ==
  ASSUME NEW k, OK(k), NEW blocking, NEW do_call \in BOOLEAN, NEW badge \in Badges,
         NEW canReply \in BOOLEAN, NEW thread \in Threads, NEW ep \in Endpoints,
         thread \notin ToSet(k.epQueue[ep])
  PROVE  Serves(k, sendIPC(k, blocking, do_call, badge, canReply, thread, ep))
<1> DEFINE dest == Head(k.epQueue[ep])
           k2   == doIPCTransfer(epDequeue(Assert_(k, k.epQueue[ep] # <<>>), ep, dest), thread, do_call)
           k3   == possibleSwitchTo(setThreadState(k2, dest, "Running"), dest)
           info == [obj |-> ep, badge |-> badge, canReply |-> canReply, isCall |-> do_call]
<1> HIDE DEF info
<1>1. CASE k.epState[ep] = "Recv"
  <2>1. Serves(k, k2) /\ dest \in Threads
    BY <1>1, RendezvousServes
  <2> HIDE DEF dest, k2
  <2>2. Unmoved(k2, k3)
    BY <2>1, UnmovedWake DEF Serves, ThreadStates, RunnableStates
  <2>3. Serves(k, k3) /\ OK(k3)
    BY <2>1, <2>2, ServesUnmoved DEF Unmoved
  <2> HIDE DEF k3
  <2>4. Unmoved(k3, setupCallerCap(k3, thread, dest)) /\ Unmoved(k3, setThreadState(k3, thread, "Inactive"))
    BY <2>3, UnmovedCallerCap, UnmovedState DEF ThreadStates, StoppedStates
  <2>5. Serves(k, setupCallerCap(k3, thread, dest)) /\ Serves(k, setThreadState(k3, thread, "Inactive"))
    BY <2>3, <2>4, ServesUnmoved
  <2> QED BY <1>1, <2>3, <2>5 DEF sendIPC, k3, k2, dest
<1>2. CASE k.epState[ep] # "Recv"
  <2>1. info \in Blocking
    BY DEF Blocking, info
  <2>2. Serves(k, epBlock(k, ep, thread, "BlockedOnSend", "Send", info))
    BY <2>1, BlockServes DEF ThreadStates, StoppedStates, EPStates
  <2>3. Serves(k, k)
    BY UnmovedSelf, UnmovedThins
  <2> QED BY <1>2, <2>2, <2>3 DEF sendIPC, info
<1> QED BY <1>1, <1>2

\* A pending signal is consumed.
LEMMA UnmovedCompleteSignal ==
  ASSUME NEW k, OK(k), NEW n \in Notifications, k.ntfnState[n] = "Active"
  PROVE  Unmoved(k, completeSignal(k, n))
<1>1. OK(completeSignal(k, n))
  BY KeptCompleteSignal DEF Kept
<1> QED BY <1>1 DEF Unmoved, OK, KState, completeSignal, Assert_

\* receiveIPC takes the first sender or joins the queue.
LEMMA ReceiveIPCServes ==
  ASSUME NEW k, OK(k), NEW thread \in Threads, NEW ep \in Endpoints, NEW isBlocking,
         thread \notin ToSet(k.epQueue[ep])
  PROVE  Serves(k, receiveIPC(k, thread, ep, isBlocking))
<1> DEFINE ntfn   == k.tcbBoundNotification[thread]
           sender == Head(k.epQueue[ep])
           info   == k.blocking[sender]
           k2     == doIPCTransfer(epDequeue(Assert_(k, k.epQueue[ep] # <<>>), ep, sender), sender, info.isCall)
           wait   == [NotBlocking EXCEPT !.obj = ep]
<1> HIDE DEF wait
<1>1. CASE ntfn # Null /\ k.ntfnState[ntfn] = "Active"
  <2>1. ntfn \in Notifications
    BY <1>1 DEF OK, KState
  <2>2. Serves(k, completeSignal(k, ntfn))
    BY <1>1, <2>1, UnmovedCompleteSignal, UnmovedThins
  <2> QED BY <1>1, <2>2 DEF receiveIPC
<1>2. CASE ~(ntfn # Null /\ k.ntfnState[ntfn] = "Active") /\ k.epState[ep] = "Send"
  <2>1. sender \in Threads
    BY <1>2, EPHead
  <2>2. info.isCall \in BOOLEAN
    BY <2>1 DEF OK, KState, Blocking
  <2> HIDE DEF info
  <2>3. Serves(k, k2) /\ OK(k2)
    BY <1>2, <2>2, RendezvousServes DEF Serves
  <2> HIDE DEF sender, k2
  <2>4. /\ Unmoved(k2, possibleSwitchTo(setThreadState(k2, sender, "Running"), sender))
        /\ Unmoved(k2, setThreadState(k2, sender, "Inactive"))
    BY <2>1, <2>3, UnmovedWake, UnmovedState DEF ThreadStates, RunnableStates, StoppedStates
  <2>5. Unmoved(k2, setupCallerCap(k2, sender, thread))
    BY <2>1, <2>3, UnmovedCallerCap
  <2>6. /\ Serves(k, possibleSwitchTo(setThreadState(k2, sender, "Running"), sender))
        /\ Serves(k, setThreadState(k2, sender, "Inactive"))
        /\ Serves(k, setupCallerCap(k2, sender, thread))
    BY <2>3, <2>4, <2>5, ServesUnmoved
  <2> QED BY <1>2, <2>6 DEF receiveIPC, k2, sender, info
<1>3. CASE ~(ntfn # Null /\ k.ntfnState[ntfn] = "Active") /\ k.epState[ep] # "Send"
  <2>1. wait \in Blocking
    BY DEF wait, NotBlocking, Blocking
  <2>2. Serves(k, epBlock(k, ep, thread, "BlockedOnReceive", "Recv", wait))
    BY <2>1, BlockServes DEF ThreadStates, StoppedStates, EPStates
  <2>3. Serves(k, k)
    BY UnmovedSelf, UnmovedThins
  <2> QED BY <1>3, <2>2, <2>3 DEF receiveIPC, wait
<1> QED BY <1>1, <1>2, <1>3

-----------------------------------------------------------------------------
(* Cancelling and signals *)

\* cancelSignal does not touch endpoints.
LEMMA UnmovedCancelSignal ==
  ASSUME NEW k, OK(k), NEW t \in Threads, NEW n
  PROVE  Unmoved(k, cancelSignal(k, t, n))
<1> DEFINE k1 == Assert_(k, k.ntfnState[n] = "Waiting")
           q  == tcbEPDequeue(t, k1.ntfnQueue[n])
           k2 == [k1 EXCEPT !.ntfnQueue[n] = q,
                            !.ntfnState[n] = IF q = <<>> THEN "Idle" ELSE @]
<1>1. Unmoved(k, k1) /\ OK(k1)
  BY UnmovedAssert DEF Unmoved
<1> HIDE DEF k1
<1>2. OK(k2)
  BY <1>1, KeptNtfnDequeue DEF Kept
<1>3. Unmoved(k1, k2)
  BY <1>1, <1>2 DEF Unmoved, OK, KState
<1> HIDE DEF k2
<1>4. Unmoved(k2, setThreadState(k2, t, "Inactive"))
  BY <1>2, UnmovedState DEF ThreadStates, StoppedStates
<1>5. Unmoved(k, setThreadState(k2, t, "Inactive"))
  BY <1>1, <1>3, <1>4, UnmovedTrans
<1> QED BY <1>5 DEF cancelSignal, k2, k1

\* cancelIPC takes the thread out of the queue it waits in.
LEMMA CancelIPCThins ==
  ASSUME NEW k, OK(k), NEW t \in Threads
  PROVE  Thins(k, cancelIPC(k, t))
<1>1. ASSUME NEW ep PROVE Thins(k, blockedIPCCancel(k, t, ep))
  <2> DEFINE k1 == Assert_(k, k.epState[ep] # "Idle")
             k2 == epDequeue(k1, ep, t)
  <2>1. Unmoved(k, k1) /\ OK(k1)
    BY UnmovedAssert DEF Unmoved
  <2> HIDE DEF k1
  <2>2. Thins(k1, k2) /\ OK(k2)
    BY <2>1, EPDequeueOrder DEF Thins
  <2> HIDE DEF k2
  <2>3. Unmoved(k2, setThreadState(k2, t, "Inactive"))
    BY <2>2, UnmovedState DEF ThreadStates, StoppedStates
  <2>4. Thins(k, setThreadState(k2, t, "Inactive"))
    BY <2>1, <2>2, <2>3, UnmovedThins, ThinsTrans
  <2> QED BY <2>4 DEF blockedIPCCancel, k2, k1
<1>2. Thins(k, replyIPCCancel(k, t))
  <2> DEFINE k1 == [k EXCEPT !.tcbFault[t] = FALSE]
  <2>1. Unmoved(k, k1) /\ OK(k1)
    BY UnmovedSlots DEF Unmoved
  <2> HIDE DEF k1
  <2>2. ASSUME NEW slot PROVE Unmoved(k, cteDeleteOne(k1, slot))
    BY <2>1, UnmovedSlots, UnmovedTrans
  <2>3. Unmoved(k, replyIPCCancel(k, t))
    BY <2>1, <2>2 DEF replyIPCCancel, k1
  <2> QED BY <2>3, UnmovedThins
<1>3. ASSUME NEW n PROVE Thins(k, cancelSignal(k, t, n))
  BY UnmovedCancelSignal, UnmovedThins
<1>4. Thins(k, k)
  BY UnmovedSelf, UnmovedThins
<1> QED BY <1>1, <1>2, <1>3, <1>4 DEF cancelIPC

\* suspend.
LEMMA SuspendThins ==
  ASSUME NEW k, OK(k), NEW t \in Threads
  PROVE  Thins(k, suspend(k, t))
<1> DEFINE k1 == cancelIPC(k, t)
           k2 == setThreadState(k1, t, "Inactive")
<1>1. Thins(k, k1) /\ OK(k1)
  BY CancelIPCThins DEF Thins
<1> HIDE DEF k1
<1>2. Unmoved(k1, k2) /\ OK(k2)
  BY <1>1, UnmovedState DEF Unmoved, ThreadStates, StoppedStates
<1> HIDE DEF k2
<1>3. Unmoved(k2, tcbSchedDequeue(k2, t))
  BY <1>2, FramedDequeue, UnmovedFramed DEF OK
<1> QED BY <1>1, <1>2, <1>3, UnmovedThins, ThinsTrans DEF suspend, k1, k2

\* restart.
LEMMA RestartThins ==
  ASSUME NEW k, OK(k), NEW t \in Threads
  PROVE  Thins(k, restart(k, t))
<1> DEFINE k0 == cancelIPC(k, t)
           ka == setupReplyMaster(k0, t)
           k1 == setThreadState(ka, t, "Restart")
           k2 == tcbSchedEnqueue(k1, t)
<1>1. Thins(k, k0) /\ OK(k0)
  BY CancelIPCThins DEF Thins
<1> HIDE DEF k0
<1>2. Unmoved(k0, ka) /\ OK(ka)
  BY <1>1, UnmovedReplyMaster DEF Unmoved
<1> HIDE DEF ka
<1>3. Unmoved(ka, k1) /\ OK(k1)
  BY <1>2, UnmovedState DEF Unmoved, ThreadStates, RunnableStates
<1> HIDE DEF k1
<1>4. Unmoved(k1, k2) /\ OK(k2)
  BY <1>3, FramedEnqueue, UnmovedFramed DEF OK, Unmoved
<1> HIDE DEF k2
<1>5. Unmoved(k2, possibleSwitchTo(k2, t))
  BY <1>4, FramedSwitch, UnmovedFramed DEF OK
<1>6. Unmoved(k0, possibleSwitchTo(k2, t))
  BY <1>2, <1>3, <1>4, <1>5, UnmovedTrans
<1>7. Thins(k, possibleSwitchTo(k2, t)) /\ Thins(k, k)
  BY <1>1, <1>6, UnmovedSelf, UnmovedThins, ThinsTrans
<1> QED BY <1>7 DEF restart, k2, k1, ka, k0

\* sendSignal takes at most a bound receiver out of an endpoint queue.
LEMMA SendSignalThins ==
  ASSUME NEW k, OK(k), NEW n \in Notifications, NEW badge \in SUBSET SignalBits
  PROVE  Thins(k, sendSignal(k, n, badge))
<1> DEFINE bound == k.ntfnBoundTCB[n]
           dest  == Head(k.ntfnQueue[n])
           k1    == Assert_(k, k.ntfnQueue[n] # <<>>)
           q     == tcbEPDequeue(dest, k1.ntfnQueue[n])
           k2    == [k1 EXCEPT !.ntfnQueue[n] = q,
                               !.ntfnState[n] = IF q = <<>> THEN "Idle" ELSE @]
<1>1. CASE k.ntfnState[n] = "Idle"
  <2>1. bound # Null => bound \in Threads
    BY DEF OK, KState
  <2> HIDE DEF bound
  <2>2. ASSUME bound \in Threads
        PROVE  Thins(k, possibleSwitchTo(setThreadState(cancelIPC(k, bound), bound, "Running"), bound))
    <3>1. Thins(k, cancelIPC(k, bound)) /\ OK(cancelIPC(k, bound))
      BY <2>2, CancelIPCThins DEF Thins
    <3> QED BY <2>2, <3>1, UnmovedWake, UnmovedThins, ThinsTrans DEF ThreadStates, RunnableStates
  <2>3. Thins(k, ntfn_set_active(k, n, badge))
    <3>1. OK(ntfn_set_active(k, n, badge))
      BY <1>1, KeptSetActive DEF Kept
    <3>2. Unmoved(k, ntfn_set_active(k, n, badge))
      BY <3>1 DEF Unmoved, OK, KState, ntfn_set_active
    <3> QED BY <3>2, UnmovedThins
  <2> QED BY <1>1, <2>1, <2>2, <2>3 DEF sendSignal, bound
<1>2. CASE k.ntfnState[n] = "Waiting"
  <2>1. k.ntfnQueue[n] \in Seq(Threads) /\ k.ntfnQueue[n] # <<>>
    BY <1>2 DEF OK, KState, ObjectsOK, NtfnStatesOK
  <2>2. dest \in Threads
    BY <2>1
  <2> HIDE DEF dest
  <2>3. Unmoved(k, k1) /\ OK(k1)
    BY UnmovedAssert DEF Unmoved
  <2> HIDE DEF k1
  <2>4. OK(k2)
    BY <2>2, <2>3, KeptNtfnDequeue DEF Kept
  <2>5. Unmoved(k1, k2)
    BY <2>3, <2>4 DEF Unmoved, OK, KState
  <2> HIDE DEF k2
  <2>6. Unmoved(k2, possibleSwitchTo(setThreadState(k2, dest, "Running"), dest))
    BY <2>2, <2>4, UnmovedWake DEF ThreadStates, RunnableStates
  <2>7. Thins(k, possibleSwitchTo(setThreadState(k2, dest, "Running"), dest))
    BY <2>3, <2>5, <2>6, UnmovedTrans, UnmovedThins
  <2> QED BY <1>2, <2>7 DEF sendSignal, k2, k1, dest
<1>3. CASE k.ntfnState[n] = "Active"
  <2> DEFINE w == k.ntfnMsgIdentifier[n] \cup badge
             ka == [k EXCEPT !.ntfnMsgIdentifier[n] = w]
  <2>1. w \in SUBSET SignalBits
    BY DEF OK, KState
  <2> HIDE DEF w
  <2>2. OK(ka)
    BY <2>1, KeptNtfnWord DEF Kept
  <2>3. Unmoved(k, ka)
    BY <2>2 DEF Unmoved, OK, KState
  <2>4. sendSignal(k, n, badge) = ka
    BY <1>3 DEF sendSignal, w
  <2> QED BY <2>3, <2>4, UnmovedThins
<1> QED BY <1>1, <1>2, <1>3 DEF OK, KState, NtfnStates

\* receiveSignal does not touch endpoints.
LEMMA UnmovedReceiveSignal ==
  ASSUME NEW k, OK(k), NEW t \in Threads, NEW n \in Notifications, NEW isBlocking,
         k.ntfnBoundTCB[n] \in {Null, t}
  PROVE  Unmoved(k, receiveSignal(k, t, n, isBlocking))
<1> DEFINE info == [NotBlocking EXCEPT !.obj = n]
           k1   == scheduleTCB([k EXCEPT !.tsType[t] = "BlockedOnNotification",
                                         !.blocking[t] = info], t)
<1>1. info \in Blocking
  BY DEF NotBlocking, Blocking
<1> HIDE DEF info
<1>2. Unmoved(k, k1)
  BY <1>1, FramedState, UnmovedFramed DEF OK, ThreadStates, StoppedStates
<1> HIDE DEF k1
<1>3. OK(receiveSignal(k, t, n, isBlocking))
  BY KeptReceiveSignal DEF Kept
<1>4. /\ receiveSignal(k, t, n, isBlocking).epQueue = k.epQueue
      /\ receiveSignal(k, t, n, isBlocking).transfer = k.transfer
  <2>1. /\ [k EXCEPT !.ntfnState[n] = "Idle"].epQueue = k.epQueue
        /\ [k EXCEPT !.ntfnState[n] = "Idle"].transfer = k.transfer
    BY DEF OK, KState
  <2>2. /\ [k1 EXCEPT !.ntfnState[n] = "Waiting", !.ntfnQueue[n] = tcbEPAppend(t, @)].epQueue = k.epQueue
        /\ [k1 EXCEPT !.ntfnState[n] = "Waiting", !.ntfnQueue[n] = tcbEPAppend(t, @)].transfer = k.transfer
    BY <1>2 DEF Unmoved, OK, KState
  <2> QED BY <2>1, <2>2 DEF receiveSignal, k1, info
<1> QED BY <1>3, <1>4 DEF Unmoved

\* Binding and unbinding.
LEMMA UnmovedBinding ==
  ASSUME NEW k, OK(k)
  PROVE  /\ \A t \in Threads : Unmoved(k, unbindNotification(k, t))
         /\ \A n \in Notifications : Unmoved(k, unbindMaybeNotification(k, n))
         /\ \A t, n : /\ bindNotification(k, t, n).epQueue = k.epQueue
                      /\ bindNotification(k, t, n).transfer = k.transfer
<1>1. ASSUME NEW t, NEW n
      PROVE  /\ doUnbindNotification(k, n, t).epQueue = k.epQueue
             /\ doUnbindNotification(k, n, t).transfer = k.transfer
             /\ bindNotification(k, t, n).epQueue = k.epQueue
             /\ bindNotification(k, t, n).transfer = k.transfer
  BY DEF OK, KState, doUnbindNotification, bindNotification
<1>2. ASSUME NEW t \in Threads PROVE Unmoved(k, unbindNotification(k, t))
  <2>1. OK(unbindNotification(k, t))
    BY KeptUnbind DEF Kept
  <2> QED BY <1>1, <2>1 DEF Unmoved, unbindNotification
<1>3. ASSUME NEW n \in Notifications PROVE Unmoved(k, unbindMaybeNotification(k, n))
  <2>1. OK(unbindMaybeNotification(k, n))
    BY KeptUnbind DEF Kept
  <2> QED BY <1>1, <2>1 DEF Unmoved, unbindMaybeNotification
<1> QED BY <1>1, <1>2, <1>3

-----------------------------------------------------------------------------
(* Replies, faults and Recv *)

\* doReplyTransfer: the receiver waits in no endpoint queue.
LEMMA ReplyTransferQueues ==
  ASSUME NEW k, OK(k), NEW sender, NEW receiver \in Threads, NEW slot, NEW restartThread
  PROVE  doReplyTransfer(k, sender, receiver, slot, restartThread).epQueue = k.epQueue
<1> DEFINE k1 == Assert_(k, k.tsType[receiver] = "BlockedOnReply")
           ka == doIPCTransfer(k1, sender, FALSE)
           k2 == cteDeleteOne(ka, slot)
           kb == cteDeleteOne(k1, slot)
           k3 == [kb EXCEPT !.tcbFault[receiver] = FALSE]
<1>1. Unmoved(k, k1) /\ OK(k1)
  BY UnmovedAssert DEF Unmoved
<1> HIDE DEF k1
<1>2. OK(ka)
  BY <1>1, KeptTransfer DEF Kept
<1>3. ka.epQueue = k.epQueue
  BY <1>1, <1>2 DEF Unmoved, OK, KState, doIPCTransfer
<1> HIDE DEF ka
<1>4. Unmoved(ka, k2) /\ Unmoved(k1, kb) /\ OK(k2) /\ OK(kb)
  BY <1>1, <1>2, UnmovedSlots DEF Unmoved
<1> HIDE DEF k2, kb
<1>5. Unmoved(kb, k3) /\ OK(k3)
  BY <1>4, UnmovedSlots DEF Unmoved
<1> HIDE DEF k3
<1>6. /\ Unmoved(k2, possibleSwitchTo(setThreadState(k2, receiver, "Running"), receiver))
      /\ Unmoved(k3, possibleSwitchTo(setThreadState(k3, receiver, "Restart"), receiver))
      /\ Unmoved(k3, setThreadState(k3, receiver, "Inactive"))
  BY <1>4, <1>5, UnmovedWake, UnmovedState DEF ThreadStates, RunnableStates, StoppedStates
<1>7. k2.epQueue = k.epQueue /\ k3.epQueue = k.epQueue
  BY <1>1, <1>3, <1>4, <1>5 DEF Unmoved
<1>8. /\ possibleSwitchTo(setThreadState(k2, receiver, "Running"), receiver).epQueue = k.epQueue
      /\ possibleSwitchTo(setThreadState(k3, receiver, "Restart"), receiver).epQueue = k.epQueue
      /\ setThreadState(k3, receiver, "Inactive").epQueue = k.epQueue
  BY <1>6, <1>7 DEF Unmoved
<1> QED BY <1>8 DEF doReplyTransfer, k3, kb, k2, ka, k1

\* handleReply.
LEMMA HandleReplyQueues ==
  ASSUME NEW k, OK(k), k.ksCurThread \in Threads, NEW restartThread
  PROVE  handleReply(k, restartThread).epQueue = k.epQueue
<1> DEFINE c      == k.ksCurThread
           caller == k.replyCap[c]
           k1     == Assert_(k, caller # c)
<1>1. caller \in Threads \cup {Null}
  BY DEF OK, KState, ReplySlots
<1>2. Unmoved(k, k1) /\ OK(k1) /\ k1.epQueue = k.epQueue
  BY UnmovedAssert DEF Unmoved
<1> HIDE DEF k1
<1>3. caller # Null => doReplyTransfer(k1, c, caller, c, restartThread).epQueue = k.epQueue
  BY <1>1, <1>2, ReplyTransferQueues
<1> QED BY <1>3 DEF handleReply, k1

\* handleFault, for a thread that waits in no queue.
LEMMA HandleFaultServes ==
  ASSUME NEW k, OK(k), NEW t \in Threads, NEW handler,
         handler # Null => handler.ep \in Endpoints /\ handler.badge \in Badges,
         \A e \in Endpoints : t \notin ToSet(k.epQueue[e])
  PROVE  Serves(k, handleFault(k, t, handler))
<1> DEFINE k1 == [k EXCEPT !.tcbFault[t] = TRUE]
<1>1. Unmoved(k, k1) /\ OK(k1) /\ k1.epQueue = k.epQueue
  BY UnmovedSlots DEF Unmoved
<1> HIDE DEF k1
<1>2. ASSUME handler # Null
      PROVE  Serves(k, sendIPC(k1, TRUE, TRUE, handler.badge, TRUE, t, handler.ep))
  <2>1. handler.ep \in Endpoints /\ handler.badge \in Badges /\ t \notin ToSet(k1.epQueue[handler.ep])
    BY <1>1, <1>2
  <2>2. Serves(k1, sendIPC(k1, TRUE, TRUE, handler.badge, TRUE, t, handler.ep))
    BY <1>1, <2>1, SendIPCServes
  <2> QED BY <1>1, <2>2, UnmovedServes
<1>3. Serves(k, setThreadState(k, t, "Inactive"))
  BY UnmovedState, UnmovedThins DEF ThreadStates, StoppedStates
<1> QED BY <1>2, <1>3 DEF handleFault, k1

\* handleRecv, for a thread that waits in no queue.
LEMMA HandleRecvServes ==
  ASSUME NEW k, OK(k), k.ksCurThread \in Threads, NEW obj, NEW isBlocking, NEW handler,
         handler # Null => handler.ep \in Endpoints /\ handler.badge \in Badges,
         \A e \in Endpoints : k.ksCurThread \notin ToSet(k.epQueue[e])
  PROVE  Serves(k, handleRecv(k, obj, isBlocking, handler))
<1> DEFINE c  == k.ksCurThread
           k1 == deleteCallerCap(k, c)
<1>1. Unmoved(k, k1) /\ OK(k1) /\ k1.epQueue = k.epQueue
  BY UnmovedSlots DEF Unmoved, deleteCallerCap
<1> HIDE DEF k1
<1>2. obj \in Endpoints => Serves(k, receiveIPC(k1, c, obj, isBlocking))
  <2>1. obj \in Endpoints => Serves(k1, receiveIPC(k1, c, obj, isBlocking))
    BY <1>1, ReceiveIPCServes
  <2> QED BY <1>1, <2>1, UnmovedServes
<1>3. obj \in Notifications /\ k.ntfnBoundTCB[obj] \in {Null, c} =>
        Serves(k, receiveSignal(k, c, obj, isBlocking))
  BY UnmovedReceiveSignal, UnmovedThins
<1>4. Serves(k, handleFault(k, c, handler))
  BY HandleFaultServes
<1>5. CASE obj \in Endpoints
  <2>1. obj \notin Notifications
    BY <1>5
  <2> QED BY <1>2, <1>5, <2>1 DEF handleRecv, k1
<1>6. CASE obj \notin Endpoints
  BY <1>3, <1>4, <1>6 DEF handleRecv
<1> QED BY <1>5, <1>6

-----------------------------------------------------------------------------
(* The actions *)

\* A message moves in a handler, and schedule() ends the kernel entry.
NothingMoved == phase # "schedule" => ks.transfer = NoTransfer

OrderKept ==
  /\ \A e \in Endpoints : InTurn(EPWaiters(e), EPWaiters(e)', ks'.transfer # NoTransfer)
  /\ NothingMoved'

\* What the two relations say of the queues that threads wait in.
LEMMA OrderIntro ==
  ASSUME NEW k, Thins(ks, k) \/ Serves(ks, k), ks.transfer = NoTransfer, ks' = k,
         OK(ks), loop = NoLoop, loop' = NoLoop, phase' = "schedule"
  PROVE  OrderKept
<1>1. \A e \in Endpoints : EPWaiters(e) = ks.epQueue[e] /\ EPWaiters(e)' = k.epQueue[e]
  BY DEF EPWaiters, NoLoop
<1>2. ASSUME NEW e \in Endpoints PROVE InTurn(ks.epQueue[e], k.epQueue[e], k.transfer # NoTransfer)
  <2>1. \A a \in ToSet(ks.epQueue[e]) : a \in Threads
    BY DEF OK, KState, ToSet
  <2>2. CASE Thins(ks, k)
    BY <2>1, <2>2 DEF Thins, Thinned, InTurn
  <2>3. CASE Serves(ks, k)
    BY <2>3 DEF Serves, Served, InTurn
  <2> QED BY <2>2, <2>3
<1> QED BY <1>1, <1>2 DEF OrderKept, NothingMoved

\* A handler.
LEMMA HandlerOrder ==
  ASSUME IInv, KernelInv, NothingMoved, phase = "user",
         NEW k, EndHandler(k), Thins(ks, k) \/ Serves(ks, k)
  PROVE  OrderKept
<1>1. loop = NoLoop /\ OK(ks)
  BY EnterKernel DEF LoopPhases, KernelOK
<1> QED BY <1>1, OrderIntro DEF EndHandler, NothingMoved

\* An invocation.
LEMMA InvocationOrder ==
  ASSUME IInv, KernelInv, NothingMoved, NEW name, Syscall(name), NEW k,
         EndHandler(finishInvocation(k)),
         Thins(beginInvocation(ks), k) \/ Serves(beginInvocation(ks), k)
  PROVE  OrderKept
<1> DEFINE k0 == beginInvocation(ks)
           k1 == finishInvocation(k)
<1>1. phase = "user" /\ OK(ks) /\ OK(k) /\ OK(k0)
  BY SyscallFacts DEF Thins, Serves
<1>2. Unmoved(ks, k0)
  BY <1>1, UnmovedState DEF beginInvocation, ThreadStates, RunnableStates
<1>3. Unmoved(k, k1)
  BY <1>1, UnmovedState, UnmovedSelf DEF finishInvocation, ThreadStates, RunnableStates
<1> HIDE DEF k0, k1
<1>4. CASE Thins(k0, k)
  <2>1. Thins(ks, k1)
    BY <1>2, <1>3, <1>4, UnmovedThins, ThinsTrans
  <2> QED BY <1>1, <2>1, HandlerOrder DEF k1
<1>5. CASE Serves(k0, k)
  <2>1. Serves(ks, k1)
    BY <1>2, <1>3, <1>5, UnmovedServes, ServesUnmoved
  <2> QED BY <1>1, <2>1, HandlerOrder DEF k1
<1> QED BY <1>4, <1>5 DEF k0

\* The running thread waits in no queue.
LEMMA CurrentNotQueued ==
  ASSUME IInv, KernelInv, NEW name, Syscall(name)
  PROVE  /\ \A e \in Endpoints : cur \notin ToSet(ks.epQueue[e])
         /\ \A e \in Endpoints : cur \notin ToSet(beginInvocation(ks).epQueue[e])
<1>1. KernelOK(ks) /\ Entered(ks) /\ cur \in Threads /\ phase = "user" /\ OK(ks)
  BY SyscallEntered DEF KernelOK
<1>2. ks.tsType[cur] = "Running"
  BY <1>1 DEF KernelInv, Syscall
<1>3. EPLinked(ks.tsType, ks.blocking, ks.epQueue)
  BY <1>1 DEF KernelOK, Consistent, ObjectsInv
<1>4. \A e \in Endpoints : cur \notin ToSet(ks.epQueue[e])
  BY <1>1, <1>2, <1>3 DEF EPLinked, Linked, EPBlocked
<1>5. beginInvocation(ks).epQueue = ks.epQueue
  BY <1>1, UnmovedState DEF beginInvocation, ThreadStates, RunnableStates, Unmoved
<1> QED BY <1>4, <1>5

\* The IPC system calls.
LEMMA IPCSyscallOrder ==
  ASSUME IInv, KernelInv, NothingMoved, IPCSyscall
  PROVE  OrderKept
<1> DEFINE k == beginInvocation(ks)
<1>0. ASSUME NEW handler \in FaultHandlers
      PROVE  handler # Null => handler.ep \in Endpoints /\ handler.badge \in Badges
  BY DEF FaultHandlers, EPs
<1>e. ASSUME NEW name, Syscall(name)
      PROVE  /\ phase = "user" /\ OK(ks) /\ OK(k) /\ cur \in Threads
             /\ ks.ksCurThread = cur /\ k.ksCurThread = cur
             /\ \A e \in Endpoints : cur \notin ToSet(ks.epQueue[e]) /\ cur \notin ToSet(k.epQueue[e])
  BY <1>e, SyscallFacts, CurrentNotQueued DEF cur
<1> HIDE DEF k
<1>1. ASSUME NEW ep \in EPs, NEW badge \in Badges, NEW canReply \in BOOLEAN,
             NEW blocking \in BOOLEAN, Send(ep, badge, canReply, blocking)
      PROVE  OrderKept
  <2>1. /\ Syscall("Send") /\ ep \in Endpoints
        /\ EndHandler(finishInvocation(sendIPC(k, blocking, FALSE, badge, canReply, cur, ep)))
    BY <1>1 DEF Send, EPs, k
  <2>2. Serves(k, sendIPC(k, blocking, FALSE, badge, canReply, cur, ep))
    BY <1>e, <2>1, SendIPCServes
  <2> QED BY <2>1, <2>2, InvocationOrder DEF k
<1>2. ASSUME NEW ep \in EPs, NEW badge \in Badges, NEW canReply \in BOOLEAN, Call(ep, badge, canReply)
      PROVE  OrderKept
  <2>1. /\ Syscall("Call") /\ ep \in Endpoints
        /\ EndHandler(finishInvocation(sendIPC(k, TRUE, TRUE, badge, canReply, cur, ep)))
    BY <1>2 DEF Call, EPs, k
  <2>2. Serves(k, sendIPC(k, TRUE, TRUE, badge, canReply, cur, ep))
    BY <1>e, <2>1, SendIPCServes
  <2> QED BY <2>1, <2>2, InvocationOrder DEF k
<1>3. ASSUME NEW obj \in RecvObjects, NEW blocking \in BOOLEAN, NEW handler \in FaultHandlers,
             Recv(obj, blocking, handler)
      PROVE  OrderKept
  <2>1. Syscall("Recv") /\ EndHandler(handleRecv(ks, obj, blocking, handler))
    BY <1>3 DEF Recv
  <2>2. Serves(ks, handleRecv(ks, obj, blocking, handler))
    BY <1>0, <1>e, <2>1, HandleRecvServes
  <2> QED BY <1>e, <2>1, <2>2, HandlerOrder
<1>4. ASSUME NEW restartThread \in BOOLEAN, Reply(restartThread) PROVE OrderKept
  <2>1. Syscall("Reply") /\ EndHandler(handleReply(ks, restartThread))
    BY <1>4 DEF Reply
  <2>2. OK(ks) /\ ks.ksCurThread \in Threads
    BY <1>e, <2>1
  <2>3. OK(handleReply(ks, restartThread)) /\ handleReply(ks, restartThread).epQueue = ks.epQueue
    BY <2>2, KeptHandleReply, HandleReplyQueues DEF Kept
  <2>4. Serves(ks, handleReply(ks, restartThread))
    BY <2>3, SameOrder DEF Serves
  <2> QED BY <1>e, <2>1, <2>4, HandlerOrder
<1>5. ASSUME NEW restartThread \in BOOLEAN, NEW obj \in RecvObjects, NEW handler \in FaultHandlers,
             ReplyRecv(restartThread, obj, handler)
      PROVE  OrderKept
  <2> DEFINE k1 == handleReply(ks, restartThread)
  <2>1. Syscall("ReplyRecv") /\ EndHandler(handleRecv(k1, obj, TRUE, handler))
    BY <1>5 DEF ReplyRecv
  <2>2. OK(ks) /\ ks.ksCurThread \in Threads /\ \A e \in Endpoints : ks.ksCurThread \notin ToSet(ks.epQueue[e])
    BY <1>e, <2>1
  <2>3. OK(k1) /\ k1.epQueue = ks.epQueue /\ k1.ksCurThread = ks.ksCurThread
    BY <2>2, KeptHandleReply, HandleReplyQueues DEF Kept
  <2> HIDE DEF k1
  <2>4. Serves(k1, handleRecv(k1, obj, TRUE, handler))
    BY <1>0, <2>2, <2>3, HandleRecvServes
  <2>5. Serves(ks, handleRecv(k1, obj, TRUE, handler))
    BY <2>3, <2>4 DEF Serves
  <2> QED BY <1>e, <2>1, <2>5, HandlerOrder
<1>6. ASSUME NEW slot \in SaveSlots, NEW restartThread \in BOOLEAN, InvokeReply(slot, restartThread)
      PROVE  OrderKept
  <2> DEFINE k1 == doReplyTransfer(k, cur, ks.replyCap[slot], slot, restartThread)
  <2>1. Syscall("InvokeReply") /\ EndHandler(finishInvocation(k1)) /\ ks.replyCap[slot] # Null
    BY <1>6 DEF InvokeReply, k
  <2>2. ks.replyCap[slot] \in Threads
    BY <1>e, <2>1 DEF OK, KState, ReplySlots
  <2>3. OK(k1) /\ k1.epQueue = k.epQueue
    BY <1>e, <2>1, <2>2, KeptReplyTransfer, ReplyTransferQueues DEF Kept
  <2>4. Serves(k, k1)
    BY <2>3, SameOrder DEF Serves
  <2> HIDE DEF k1
  <2> QED BY <2>1, <2>4, InvocationOrder DEF k
<1>7. ASSUME NEW ntfn \in Ntfns, NEW badge \in SUBSET SignalBits, Signal(ntfn, badge) PROVE OrderKept
  <2>1. Syscall("Signal") /\ ntfn \in Notifications /\ EndHandler(finishInvocation(sendSignal(k, ntfn, badge)))
    BY <1>7 DEF Signal, Ntfns, k
  <2>2. Thins(k, sendSignal(k, ntfn, badge))
    BY <1>e, <2>1, SendSignalThins
  <2> QED BY <2>1, <2>2, InvocationOrder DEF k
<1>8. ASSUME NEW handler \in FaultHandlers, Fault(handler) PROVE OrderKept
  <2>1. Syscall("Fault") /\ EndHandler(handleFault(ks, cur, handler))
    BY <1>8 DEF Fault
  <2>2. Serves(ks, handleFault(ks, cur, handler))
    BY <1>0, <1>e, <2>1, HandleFaultServes
  <2> QED BY <1>e, <2>1, <2>2, HandlerOrder
<1>9. ASSUME Yield PROVE OrderKept
  <2>1. Syscall("Yield") /\ EndHandler(handleYield(ks))
    BY <1>9 DEF Yield
  <2>2. Unmoved(ks, handleYield(ks))
    BY <1>e, <2>1, FramedYield, UnmovedFramed DEF OK
  <2> QED BY <1>e, <2>1, <2>2, UnmovedThins, HandlerOrder
<1> QED BY <1>1, <1>2, <1>3, <1>4, <1>5, <1>6, <1>7, <1>8, <1>9 DEF IPCSyscall

\* Retype and the CNode invocations.
LEMMA SlotOrder ==
  ASSUME IInv, KernelInv, NothingMoved,
         \/ \E t \in Threads : RetypeThread(t)
         \/ \E ep \in Endpoints : RetypeEndpoint(ep)
         \/ \E ntfn \in Notifications : RetypeNotification(ntfn)
         \/ \E slot \in SaveSlots : SaveCaller(slot) \/ DeleteReplyCap(slot)
  PROVE  OrderKept
<1> DEFINE k == beginInvocation(ks)
<1>e. ASSUME NEW name, Syscall(name)
      PROVE  OK(k) /\ cur \in Threads /\ k.ksCurThread = cur /\ k.live = ks.live /\ KernelOK(k)
  BY <1>e, InvocationEntered DEF SameObjects
<1> HIDE DEF k
<1>1. ASSUME NEW t \in Threads, RetypeThread(t) PROVE OrderKept
  <2>1. Syscall("Retype") /\ EndHandler(finishInvocation(createTCB(k, t)))
    BY <1>1 DEF RetypeThread, k
  <2>2. OK(k) /\ OK(createTCB(k, t))
    BY <1>e, <2>1, KeptCreateTCB DEF Kept
  <2>3. createTCB(k, t).epQueue = k.epQueue /\ createTCB(k, t).transfer = k.transfer
    BY <2>2, CreateTCBEffect DEF OK, CreatedTCB, SameEPs
  <2> QED BY <2>1, <2>2, <2>3, UnmovedThins, InvocationOrder DEF Unmoved, k
<1>2. ASSUME NEW ep \in Endpoints, RetypeEndpoint(ep) PROVE OrderKept
  <2> DEFINE k1 == [k EXCEPT !.live = @ \cup {ep}, !.epQueue[ep] = <<>>, !.epState[ep] = "Idle"]
  <2>1. Syscall("Retype") /\ EndHandler(finishInvocation(k1)) /\ ep \notin ks.live
    BY <1>2 DEF RetypeEndpoint, k
  <2>2. OK(k) /\ OK(k1)
    BY <1>e, <2>1, KeptCreateEndpoint DEF Kept
  <2>3. k.epQueue[ep] = <<>>
    <3>1. k.epState[ep] = "Idle"
      BY <1>e, <2>1 DEF KernelOK, Consistent, ObjectsInv, ThreadsInv, LiveOK
    <3> QED BY <2>2, <3>1 DEF OK, ObjectsOK, EPStatesOK
  <2>4. k1.transfer = k.transfer /\ k1.epQueue = [k.epQueue EXCEPT ![ep] = <<>>]
        /\ k.epQueue \in [Endpoints -> Seq(Threads)]
    BY <2>2 DEF OK, KState
  <2> HIDE DEF k1
  <2>5. k1.epQueue = k.epQueue
    BY <2>3, <2>4
  <2> QED BY <2>1, <2>2, <2>4, <2>5, UnmovedThins, InvocationOrder DEF Unmoved, k
<1>3. ASSUME NEW n \in Notifications, RetypeNotification(n) PROVE OrderKept
  <2> DEFINE k1 == [k EXCEPT !.live = @ \cup {n}, !.ntfnQueue[n] = <<>>,
                             !.ntfnState[n] = "Idle", !.ntfnMsgIdentifier[n] = {}]
  <2>1. Syscall("Retype") /\ EndHandler(finishInvocation(k1))
    BY <1>3 DEF RetypeNotification, k
  <2>2. OK(k) /\ OK(k1)
    BY <1>e, <2>1, KeptCreateNotification DEF Kept
  <2>3. k1.epQueue = k.epQueue /\ k1.transfer = k.transfer
    BY <2>2 DEF OK, KState
  <2> HIDE DEF k1
  <2> QED BY <2>1, <2>2, <2>3, UnmovedThins, InvocationOrder DEF Unmoved, k
<1>4. ASSUME NEW slot \in SaveSlots, SaveCaller(slot) PROVE OrderKept
  <2> DEFINE k1 == [k EXCEPT !.replyCap[slot] = k.replyCap[cur], !.replyCap[cur] = Null]
  <2>1. Syscall("SaveCaller") /\ EndHandler(finishInvocation(k1))
    BY <1>4 DEF SaveCaller, k
  <2>2. OK(k) /\ OK(k1)
    BY <1>e, <2>1, KeptSaveCaller DEF Kept
  <2>3. k1.epQueue = k.epQueue /\ k1.transfer = k.transfer
    BY <2>2 DEF OK, KState
  <2> HIDE DEF k1
  <2> QED BY <2>1, <2>2, <2>3, UnmovedThins, InvocationOrder DEF Unmoved, k
<1>5. ASSUME NEW slot \in SaveSlots, DeleteReplyCap(slot) PROVE OrderKept
  <2>1. Syscall("DeleteReplyCap") /\ EndHandler(finishInvocation(cteDeleteOne(k, slot)))
    BY <1>5 DEF DeleteReplyCap, k
  <2>2. Unmoved(k, cteDeleteOne(k, slot))
    BY <1>e, <2>1, UnmovedSlots
  <2> QED BY <2>1, <2>2, UnmovedThins, InvocationOrder DEF k
<1> QED BY <1>1, <1>2, <1>3, <1>4, <1>5

\* The register invocations suspend and restart threads.
LEMMA RegistersThin ==
  ASSUME NEW k, OK(k), NEW dest \in Threads, NEW src \in Threads,
         NEW suspendSource, NEW resumeTarget, NEW k1, NEW k2,
         k1 = IF suspendSource THEN suspend(k, src) ELSE k,
         k2 = IF resumeTarget THEN restart(k1, dest) ELSE k1
  PROVE  Thins(k, k1) /\ Thins(k, k2)
<1>1. Thins(k, k1) /\ OK(k1)
  BY SuspendThins, UnmovedSelf, UnmovedThins DEF Thins
<1>2. Thins(k1, k2)
  BY <1>1, RestartThins, UnmovedSelf, UnmovedThins
<1> QED BY <1>1, <1>2, ThinsTrans

\* Deleting a thread takes it out of the queue it waits in.
LEMMA DeleteThreadThins ==
  ASSUME NEW k, OK(k), NEW t \in Threads
  PROVE  Thins(k, [cteDeleteOne(suspend(unbindNotification(k, t), t), t)
                     EXCEPT !.replyMaster[t] = FALSE, !.live = @ \ {t}])
<1> DEFINE k1 == unbindNotification(k, t)
           k2 == suspend(k1, t)
           k3 == cteDeleteOne(k2, t)
           k4 == [k3 EXCEPT !.replyMaster[t] = FALSE, !.live = @ \ {t}]
<1>0. OK(k4)
  BY KeptDeleteThread DEF Kept
<1>1. Unmoved(k, k1) /\ OK(k1)
  BY UnmovedBinding DEF Unmoved
<1> HIDE DEF k1
<1>2. Thins(k1, k2) /\ OK(k2)
  BY <1>1, SuspendThins DEF Thins
<1> HIDE DEF k2
<1>3. Unmoved(k2, k3) /\ OK(k3)
  BY <1>2, UnmovedSlots DEF Unmoved
<1> HIDE DEF k3
<1>4. Unmoved(k3, k4)
  BY <1>0, <1>3 DEF Unmoved, OK, KState
<1> HIDE DEF k4
<1>5. Thins(k, k4)
  BY <1>1, <1>2, <1>3, <1>4, UnmovedThins, ThinsTrans
<1> QED BY <1>5 DEF k4, k3, k2, k1

\* The invocations on TCBs and the domain cap.
LEMMA TCBOrder ==
  ASSUME IInv, KernelInv, NothingMoved,
         \/ \E t \in TCBs : TCBSuspend(t) \/ TCBResume(t) \/ TCBSetContext(t) \/ DeleteThread(t)
         \/ \E t \in TCBs, prio \in Prios : TCBSetPriority(t, prio)
         \/ \E dest, src \in TCBs, suspendSource, resumeTarget \in BOOLEAN :
               TCBCopyRegisters(dest, src, suspendSource, resumeTarget)
         \/ \E t \in TCBs, flag \in BOOLEAN : TCBReadRegisters(t, flag) \/ TCBWriteRegisters(t, flag)
         \/ \E t \in TCBs, ntfn \in Ntfns : TCBBindNotification(t, ntfn)
         \/ \E t \in TCBs : TCBUnbindNotification(t)
         \/ \E t \in TCBs, dom \in Domains : DomainSet(t, dom)
  PROVE  OrderKept
<1> DEFINE k == beginInvocation(ks)
<1>0. /\ \A t \in TCBs : t \in Threads
      /\ \A n \in Ntfns : n \in Notifications
  BY DEF TCBs, Ntfns
<1>e. ASSUME NEW name, Syscall(name)
      PROVE  OK(k) /\ k \in KState /\ cur \in Threads /\ SameObjects(ks, k)
  BY <1>e, InvocationEntered DEF OK
<1>r. ASSUME NEW j, OK(j), Thins(k, j) PROVE Thins(k, rescheduleRequired(j))
  BY <1>r, FramedReschedule, UnmovedFramed, UnmovedThins, ThinsTrans DEF OK
<1>s. OK(k) => Thins(k, k)
  BY UnmovedSelf, UnmovedThins
<1> HIDE DEF k
<1>1. ASSUME NEW t \in TCBs, TCBSuspend(t) PROVE OrderKept
  <2>1. Syscall("Suspend") /\ EndHandler(finishInvocation(suspend(k, t)))
    BY <1>1 DEF TCBSuspend, k
  <2>2. Thins(k, suspend(k, t))
    BY <1>0, <1>e, <2>1, SuspendThins
  <2> QED BY <2>1, <2>2, InvocationOrder DEF k
<1>2. ASSUME NEW t \in TCBs, TCBResume(t) PROVE OrderKept
  <2>1. Syscall("Resume") /\ EndHandler(finishInvocation(restart(k, t)))
    BY <1>2 DEF TCBResume, k
  <2>2. Thins(k, restart(k, t))
    BY <1>0, <1>e, <2>1, RestartThins
  <2> QED BY <2>1, <2>2, InvocationOrder DEF k
<1>3. ASSUME NEW t \in TCBs, TCBSetContext(t) PROVE OrderKept
  <2> DEFINE k1 == IF t = cur THEN rescheduleRequired(k) ELSE k
  <2>1. Syscall("SetContext") /\ EndHandler(finishInvocation(k1))
    BY <1>3 DEF TCBSetContext, k
  <2>2. Thins(k, k1)
    BY <1>e, <1>r, <1>s, <2>1
  <2> HIDE DEF k1
  <2> QED BY <2>1, <2>2, InvocationOrder DEF k
<1>4. ASSUME NEW t \in TCBs, DeleteThread(t) PROVE OrderKept
  <2> DEFINE k1 == [cteDeleteOne(suspend(unbindNotification(k, t), t), t)
                      EXCEPT !.replyMaster[t] = FALSE, !.live = @ \ {t}]
  <2>1. Syscall("DeleteThread") /\ EndHandler(finishInvocation(k1))
    BY <1>4 DEF DeleteThread, k
  <2>2. Thins(k, k1)
    BY <1>0, <1>e, <2>1, DeleteThreadThins
  <2> HIDE DEF k1
  <2> QED BY <2>1, <2>2, InvocationOrder DEF k
<1>5. ASSUME NEW t \in TCBs, NEW prio \in Prios, TCBSetPriority(t, prio) PROVE OrderKept
  <2>1. Syscall("SetPriority") /\ EndHandler(finishInvocation(setPriority(k, t, prio)))
    BY <1>5 DEF TCBSetPriority, k
  <2>2. Unmoved(k, setPriority(k, t, prio))
    BY <1>0, <1>e, <2>1, FramedSetPriority, UnmovedFramed
  <2> QED BY <2>1, <2>2, UnmovedThins, InvocationOrder DEF k
<1>6. ASSUME NEW dest \in TCBs, NEW src \in TCBs, NEW suspendSource \in BOOLEAN, NEW resumeTarget \in BOOLEAN,
             TCBCopyRegisters(dest, src, suspendSource, resumeTarget)
      PROVE  OrderKept
  <2> DEFINE k1 == IF suspendSource THEN suspend(k, src) ELSE k
             k2 == IF resumeTarget THEN restart(k1, dest) ELSE k1
             k3 == IF dest = cur THEN rescheduleRequired(k2) ELSE k2
  <2>1. Syscall("CopyRegisters") /\ EndHandler(finishInvocation(k3))
    BY <1>6 DEF TCBCopyRegisters, k
  <2>2. Thins(k, k2)
    BY <1>0, <1>e, <2>1, RegistersThin
  <2> HIDE DEF k2
  <2>3. Thins(k, k3)
    BY <1>r, <2>2 DEF Thins
  <2> HIDE DEF k3
  <2> QED BY <2>1, <2>3, InvocationOrder DEF k
<1>7. ASSUME NEW t \in TCBs, NEW flag \in BOOLEAN, TCBReadRegisters(t, flag) PROVE OrderKept
  <2> DEFINE k1 == IF flag THEN suspend(k, t) ELSE k
  <2>1. Syscall("ReadRegisters") /\ EndHandler(finishInvocation(setThreadState(k1, cur, "Running")))
    BY <1>7 DEF TCBReadRegisters, k
  <2>2. Thins(k, k1) /\ OK(k1)
    BY <1>0, <1>e, <1>s, <2>1, SuspendThins DEF Thins
  <2> HIDE DEF k1
  <2>3. Unmoved(k1, setThreadState(k1, cur, "Running"))
    BY <2>2, UnmovedState DEF ThreadStates, RunnableStates
  <2>4. Thins(k, setThreadState(k1, cur, "Running"))
    BY <2>2, <2>3, UnmovedThins, ThinsTrans
  <2> QED BY <2>1, <2>4, InvocationOrder DEF k
<1>8. ASSUME NEW t \in TCBs, NEW flag \in BOOLEAN, TCBWriteRegisters(t, flag) PROVE OrderKept
  <2> DEFINE k1 == IF flag THEN restart(k, t) ELSE k
  <2>1. Syscall("WriteRegisters") /\ EndHandler(finishInvocation(k1))
    BY <1>8 DEF TCBWriteRegisters, k
  <2>2. Thins(k, k1)
    BY <1>0, <1>e, <1>s, <2>1, RestartThins
  <2> HIDE DEF k1
  <2> QED BY <2>1, <2>2, InvocationOrder DEF k
<1>9. ASSUME NEW t \in TCBs, NEW n \in Ntfns, TCBBindNotification(t, n) PROVE OrderKept
  <2> DEFINE k1 == bindNotification(k, t, n)
  <2>1. /\ Syscall("BindNotification") /\ EndHandler(finishInvocation(k1))
        /\ ks.tcbBoundNotification[t] = Null /\ ks.ntfnQueue[n] = <<>> /\ ks.ntfnBoundTCB[n] = Null
    BY <1>9 DEF TCBBindNotification, k
  <2>2. OK(k) /\ k.tcbBoundNotification[t] = Null /\ k.ntfnBoundTCB[n] = Null /\ k.ntfnQueue[n] = <<>>
    BY <1>e, <2>1 DEF SameObjects
  <2>3. OK(k1)
    BY <1>0, <2>2, KeptBind DEF Kept
  <2>4. Unmoved(k, k1)
    BY <2>2, <2>3, UnmovedBinding DEF Unmoved
  <2> HIDE DEF k1
  <2> QED BY <2>1, <2>4, UnmovedThins, InvocationOrder DEF k
<1>10. ASSUME NEW t \in TCBs, TCBUnbindNotification(t) PROVE OrderKept
  <2>1. Syscall("UnbindNotification") /\ EndHandler(finishInvocation(unbindNotification(k, t)))
    BY <1>10 DEF TCBUnbindNotification, k
  <2>2. Unmoved(k, unbindNotification(k, t))
    BY <1>0, <1>e, <2>1, UnmovedBinding
  <2> QED BY <2>1, <2>2, UnmovedThins, InvocationOrder DEF k
<1>11. ASSUME NEW t \in TCBs, NEW dom \in Domains, DomainSet(t, dom) PROVE OrderKept
  <2>1. Syscall("DomainSet") /\ EndHandler(finishInvocation(setDomain(k, t, dom)))
    BY <1>11 DEF DomainSet, k
  <2>2. Unmoved(k, setDomain(k, t, dom))
    BY <1>0, <1>e, <2>1, FramedSetDomain, UnmovedFramed
  <2> QED BY <2>1, <2>2, UnmovedThins, InvocationOrder DEF k
<1> QED BY <1>1, <1>2, <1>3, <1>4, <1>5, <1>6, <1>7, <1>8, <1>9, <1>10, <1>11

\* A loop begins: the queue it has detached is the queue of the object.
LEMMA LoopBeginsInOrder ==
  ASSUME OK(ks), loop = NoLoop, ks.transfer = NoTransfer,
         NEW k, Unmoved(ks, k), NEW k1, k1.transfer = k.transfer,
         NEW name, NEW obj, NEW badge, NEW queue, BeginLoop(k1, name, obj, badge, queue),
         \A e \in Endpoints : k.epQueue[e] = IF obj = e THEN queue ELSE k1.epQueue[e]
  PROVE  OrderKept
<1>1. ks' = k1 /\ loop'.obj = obj /\ loop'.queue = queue
  BY DEF BeginLoop
<1>2. \A e \in Endpoints : EPWaiters(e) = ks.epQueue[e] /\ EPWaiters(e)' = k.epQueue[e]
  BY <1>1 DEF EPWaiters, NoLoop
<1>3. ASSUME NEW e \in Endpoints PROVE InTurn(ks.epQueue[e], k.epQueue[e], ks'.transfer # NoTransfer)
  BY SameOrder DEF Unmoved, Served, InTurn
<1> QED BY <1>1, <1>2, <1>3 DEF OrderKept, NothingMoved, Unmoved

\* Deleting an endpoint or a notification, and cancelBadgedSends.
LEMMA LoopInvocationOrder ==
  ASSUME IInv, KernelInv, NothingMoved,
         \/ \E ep \in EPs : DeleteEndpoint(ep)
         \/ \E ep \in EPs, badge \in Badges : CancelBadgedSends(ep, badge)
         \/ \E ntfn \in Ntfns : DeleteNotification(ntfn)
  PROVE  OrderKept
<1> DEFINE k == beginInvocation(ks)
<1>0. /\ \A ep \in EPs : ep \in Endpoints
      /\ \A n \in Ntfns : n \in Notifications
  BY DEF EPs, Ntfns
<1>e. ASSUME NEW name, Syscall(name)
      PROVE  OK(k) /\ k \in KState /\ OK(ks) /\ loop = NoLoop /\ ks.transfer = NoTransfer /\ Unmoved(ks, k)
  <2>1. phase = "user" /\ OK(ks) /\ OK(k) /\ k \in KState
    BY <1>e, SyscallFacts DEF OK
  <2>2. loop = NoLoop
    BY <2>1, EnterKernel DEF LoopPhases
  <2>3. Unmoved(ks, k)
    BY <2>1, UnmovedState DEF beginInvocation, ThreadStates, RunnableStates
  <2> QED BY <2>1, <2>2, <2>3 DEF NothingMoved
<1> HIDE DEF k
<1>l. ASSUME NEW j, OK(j), NEW o PROVE Unmoved(j, [j EXCEPT !.live = @ \ {o}])
  <2>1. j.live \ {o} \in SUBSET Objects /\ j \in KState
    BY <1>l DEF OK, KState
  <2>2. OK([j EXCEPT !.live = j.live \ {o}])
    BY <1>l, <2>1, KeptLive DEF Kept
  <2> QED BY <2>1, <2>2 DEF Unmoved, KState
<1>i. ASSUME NEW ep \in Endpoints, OK(k)
      PROVE  /\ epMakeIdle(k, ep).transfer = k.transfer
             /\ \A e \in Endpoints : k.epQueue[e] = IF ep = e THEN k.epQueue[ep] ELSE epMakeIdle(k, ep).epQueue[e]
  BY <1>i DEF epMakeIdle, OK, KState
<1>1. ASSUME NEW ep \in EPs, DeleteEndpoint(ep) PROVE OrderKept
  <2>1. /\ Syscall("DeleteEndpoint")
        /\ \/ EndHandler(finishInvocation([k EXCEPT !.live = @ \ {ep}]))
           \/ BeginLoop(epMakeIdle(k, ep), "cancelAllIPC", ep, Null, k.epQueue[ep])
    BY <1>1 DEF DeleteEndpoint, k
  <2>2. CASE EndHandler(finishInvocation([k EXCEPT !.live = @ \ {ep}]))
    <3>1. Thins(k, [k EXCEPT !.live = @ \ {ep}])
      BY <1>e, <1>l, <2>1, UnmovedThins
    <3> QED BY <2>1, <2>2, <3>1, InvocationOrder DEF k
  <2>3. CASE BeginLoop(epMakeIdle(k, ep), "cancelAllIPC", ep, Null, k.epQueue[ep])
    BY <1>0, <1>e, <1>i, <2>1, <2>3, LoopBeginsInOrder
  <2> QED BY <2>1, <2>2, <2>3
<1>2. ASSUME NEW ep \in EPs, NEW badge \in Badges, CancelBadgedSends(ep, badge) PROVE OrderKept
  <2>1. /\ Syscall("CancelBadgedSends")
        /\ \/ EndHandler(finishInvocation(k))
           \/ BeginLoop(epMakeIdle(k, ep), "cancelBadgedSends", ep, badge, k.epQueue[ep])
    BY <1>2 DEF CancelBadgedSends, k
  <2>2. CASE EndHandler(finishInvocation(k))
    <3>1. Thins(k, k)
      BY <1>e, <2>1, UnmovedSelf, UnmovedThins
    <3> QED BY <2>1, <2>2, <3>1, InvocationOrder DEF k
  <2>3. CASE BeginLoop(epMakeIdle(k, ep), "cancelBadgedSends", ep, badge, k.epQueue[ep])
    BY <1>0, <1>e, <1>i, <2>1, <2>3, LoopBeginsInOrder
  <2> QED BY <2>1, <2>2, <2>3
<1>3. ASSUME NEW n \in Ntfns, DeleteNotification(n) PROVE OrderKept
  <2> DEFINE k1 == unbindMaybeNotification(k, n)
             k2 == [k1 EXCEPT !.ntfnState[n] = "Idle", !.ntfnQueue[n] = <<>>]
             k3 == [k1 EXCEPT !.live = @ \ {n}]
  <2>1. /\ Syscall("DeleteNotification")
        /\ \/ EndHandler(finishInvocation(k3))
           \/ BeginLoop(k2, "cancelAllSignals", n, Null, k1.ntfnQueue[n])
    BY <1>3 DEF DeleteNotification, k
  <2>2. Unmoved(k, k1) /\ OK(k1)
    BY <1>0, <1>e, <2>1, UnmovedBinding DEF Unmoved
  <2> HIDE DEF k1
  <2>3. k2.epQueue = k1.epQueue /\ k2.transfer = k1.transfer
    BY <2>2 DEF OK, KState
  <2>4. Unmoved(k1, k3)
    BY <2>2, <1>l
  <2> HIDE DEF k2, k3
  <2>5. CASE EndHandler(finishInvocation(k3))
    <3>1. Thins(k, k3)
      BY <2>2, <2>4, UnmovedTrans, UnmovedThins
    <3> QED BY <2>1, <2>5, <3>1, InvocationOrder DEF k
  <2>6. CASE BeginLoop(k2, "cancelAllSignals", n, Null, k1.ntfnQueue[n])
    <3>1. Unmoved(ks, k1) /\ OK(ks) /\ loop = NoLoop /\ ks.transfer = NoTransfer
      BY <1>e, <2>1, <2>2, UnmovedTrans
    <3>2. n \notin Endpoints
      BY <1>0
    <3>3. \A e \in Endpoints : k1.epQueue[e] = IF n = e THEN k1.ntfnQueue[n] ELSE k2.epQueue[e]
      BY <2>3, <3>2
    <3> QED BY <2>3, <2>6, <3>1, <3>3, LoopBeginsInOrder
  <2> QED BY <2>1, <2>5, <2>6
<1> QED BY <1>1, <1>2, <1>3

\* Interrupts.
LEMMA InterruptOrder ==
  ASSUME IInv, KernelInv, NothingMoved, Interrupt
  PROVE  OrderKept
<1>1. phase = "user" /\ OK(ks) /\ ks \in KState
  BY DEF Interrupt, TimerInterrupt, SignalInterrupt, IInv, TypeOK, OK
<1>2. CASE TimerInterrupt
  <2>1. EndHandler(timerTick(ks))
    BY <1>2 DEF TimerInterrupt
  <2>2. ks.ksDomainTime > 0
    BY <1>1 DEF IInv, DomainTimePositive
  <2>3. timerTick(ks) \in KState /\ SameObjects(ks, timerTick(ks))
    BY <1>1, <2>2, TimerTickType
  <2>4. Unmoved(ks, timerTick(ks))
    BY <1>1, <2>3, SameObjectsOK DEF OK, Unmoved, SameObjects
  <2> QED BY <1>1, <2>1, <2>4, UnmovedThins, HandlerOrder
<1>3. ASSUME NEW n \in Ntfns, NEW badge \in SUBSET SignalBits, SignalInterrupt(n, badge) PROVE OrderKept
  <2>1. EndHandler(sendSignal(ks, n, badge)) /\ n \in Notifications
    BY <1>3 DEF SignalInterrupt, Ntfns
  <2>2. Thins(ks, sendSignal(ks, n, badge))
    BY <1>1, <2>1, SendSignalThins
  <2> QED BY <1>1, <2>1, <2>2, HandlerOrder
<1> QED BY <1>2, <1>3 DEF Interrupt

-----------------------------------------------------------------------------
(* The loops and the return to the user *)

\* A queue without its first thread.
LEMMA TailThinned ==
  ASSUME NEW q \in Seq(Threads), q # <<>>
  PROVE  Thinned(q, Tail(q))
<1> DEFINE r == Tail(q)
<1>1. /\ DOMAIN r = 1 .. Len(q) - 1 /\ DOMAIN q = 1 .. Len(q) /\ Len(q) \in Nat
      /\ \A i \in 1 .. Len(q) - 1 : r[i] = q[i + 1]
  OBVIOUS
<1> HIDE DEF r
<1>2. ASSUME NEW i \in DOMAIN r PROVE i \in Nat /\ i + 1 \in DOMAIN q /\ r[i] = q[i + 1]
  BY <1>1
<1>3. ToSet(r) \subseteq ToSet(q)
  BY <1>2 DEF ToSet
<1>4. ASSUME NEW a, NEW b, Before(r, b, a) PROVE Before(q, b, a)
  <2>1. PICK i \in DOMAIN r, j \in DOMAIN r : i < j /\ r[i] = b /\ r[j] = a
    BY <1>4 DEF Before
  <2>2. i + 1 < j + 1
    BY <1>2, <2>1
  <2> QED BY <1>2, <2>1, <2>2 DEF Before
<1> QED BY <1>3, <1>4 DEF Thinned, r

\* The end of a loop: the object's queue is what the loop has left of it.
LEMMA LoopEndsInOrder ==
  ASSUME NEW k, OK(k), k.transfer = NoTransfer, EndLoop(k),
         \A e \in Endpoints : k.epQueue[e] = EPWaiters(e)
  PROVE  OrderKept
<1> DEFINE k1 == rescheduleRequired(k)
<1>1. Unmoved(k, k1)
  BY FramedReschedule, UnmovedFramed DEF OK
<1> HIDE DEF k1
<1>2. Unmoved(k1, finishInvocation(k1))
  BY <1>1, UnmovedState, UnmovedSelf DEF finishInvocation, ThreadStates, RunnableStates, Unmoved
<1>3. Unmoved(k, finishInvocation(k1))
  BY <1>1, <1>2, UnmovedTrans
<1>4. ks' = finishInvocation(k1) /\ phase' = "schedule" /\ loop' = NoLoop
  BY DEF EndLoop, k1
<1>5. \A e \in Endpoints : EPWaiters(e)' = ks'.epQueue[e]
  BY <1>4 DEF EPWaiters, NoLoop
<1>6. \A e \in Endpoints : EPWaiters(e)' = EPWaiters(e)
  BY <1>3, <1>4, <1>5 DEF Unmoved
<1> QED BY <1>4, <1>6, SameOrder DEF OrderKept, NothingMoved, InTurn, Served

\* An iteration: the detached queue loses a thread, and the others stay.
LEMMA IterationOrder ==
  ASSUME IInv, NothingMoved, phase \in LoopPhases, phase' = phase,
         Unmoved(ks, ks'), loop'.obj = loop.obj, Thinned(loop.queue, loop'.queue)
  PROVE  OrderKept
<1>1. ks'.transfer = NoTransfer /\ ks'.epQueue = ks.epQueue /\ loop.queue \in Seq(Threads)
  BY DEF NothingMoved, Unmoved, LoopPhases, IInv, TypeOK, LoopType
<1>2. ASSUME NEW e \in Endpoints PROVE Thinned(EPWaiters(e), EPWaiters(e)')
  BY <1>1, SameOrder DEF EPWaiters
<1>3. \A e \in Endpoints : EPWaiters(e) \in Seq(Threads)
  BY <1>1 DEF EPWaiters, IInv, TypeOK, KState
<1>4. \A e \in Endpoints : ToSet(EPWaiters(e)) \subseteq Threads
  BY <1>3 DEF ToSet
<1> QED BY <1>1, <1>2, <1>4 DEF OrderKept, NothingMoved, InTurn, Thinned

\* The steps by which the kernel finishes an entry.
LEMMA KernelStepOrder ==
  ASSUME IInv, KernelInv, NothingMoved, KernelStep
  PROVE  OrderKept
<1>0. /\ ks \in KState /\ OK(ks) /\ loop \in LoopType /\ LoopInv
      /\ loop.todo \in Seq(Threads) /\ loop.queue \in Seq(Threads)
  BY DEF IInv, TypeOK, KernelInv, OK, LoopType
<1>1. ASSUME NEW t \in Threads PROVE Unmoved(ks, wakeToRestart(ks, t))
  <2> DEFINE k1 == setThreadState(ks, t, "Restart")
  <2>1. Unmoved(ks, k1)
    BY <1>0, UnmovedState DEF ThreadStates, RunnableStates
  <2> HIDE DEF k1
  <2>2. Unmoved(k1, tcbSchedEnqueue(k1, t))
    BY <2>1, FramedEnqueue, UnmovedFramed DEF Unmoved, OK
  <2>3. Unmoved(ks, tcbSchedEnqueue(k1, t))
    BY <2>1, <2>2, UnmovedTrans
  <2> QED BY <2>3 DEF wakeToRestart, k1
<1>2. CASE CancelAllStep
  <2>1. /\ phase \in LoopPhases /\ loop.todo # <<>> /\ phase' = phase /\ loop.queue = loop.todo
        /\ ks' = wakeToRestart(ks, Head(loop.todo))
        /\ loop' = [loop EXCEPT !.todo = Tail(@), !.queue = Tail(loop.todo)]
    BY <1>0, <1>2 DEF CancelAllStep, LoopPhases, LoopInv
  <2>2. loop'.obj = loop.obj /\ loop'.queue = Tail(loop.queue)
    BY <1>0, <2>1 DEF LoopType
  <2>3. Unmoved(ks, ks')
    BY <1>0, <1>1, <2>1, HeadTailQueue
  <2>4. Thinned(loop.queue, loop'.queue)
    BY <1>0, <2>1, <2>2, TailThinned
  <2> QED BY <2>1, <2>2, <2>3, <2>4, IterationOrder
<1>3. CASE CancelBadgedStep
  <2> DEFINE t     == Head(loop.todo)
             match == ks.blocking[t].badge = loop.badge
  <2>1. /\ phase \in LoopPhases /\ loop.todo # <<>> /\ phase' = phase
        /\ ks' = IF match THEN wakeToRestart(ks, t) ELSE ks
        /\ loop' = [loop EXCEPT !.todo = Tail(@),
                                !.queue = IF match THEN tcbEPDequeue(t, @) ELSE @]
    BY <1>3 DEF CancelBadgedStep, LoopPhases
  <2>2. t \in Threads
    BY <1>0, <2>1, HeadTailQueue
  <2> HIDE DEF t, match
  <2>3. loop'.obj = loop.obj /\ loop'.queue = IF match THEN tcbEPDequeue(t, loop.queue) ELSE loop.queue
    BY <1>0, <2>1 DEF LoopType
  <2>4. Unmoved(ks, ks')
    BY <1>0, <1>1, <2>1, <2>2, UnmovedSelf
  <2>5. Thinned(loop.queue, loop'.queue)
    BY <1>0, <2>2, <2>3, DequeueOrder, SameOrder
  <2> QED BY <2>1, <2>3, <2>4, <2>5, IterationOrder
<1>4. CASE CancelAllDone
  <2> DEFINE o == loop.obj
             k == [ks EXCEPT !.live = @ \ {o}]
  <2>1. phase \in {"cancelAllIPC", "cancelAllSignals"} /\ loop.todo = <<>> /\ EndLoop(k)
    BY <1>4 DEF CancelAllDone
  <2>2. k.epQueue = ks.epQueue /\ k.transfer = ks.transfer /\ ks.transfer = NoTransfer
    BY <1>0, <2>1 DEF KState, NothingMoved
  <2>3. OK(k)
    BY <1>0, KeptLive DEF KState, Kept
  <2> HIDE DEF k
  <2>4. loop.queue = <<>> /\ (o \in Endpoints => ks.epState[o] = "Idle")
    BY <1>0, <2>1 DEF LoopInv
  <2>5. o \in Endpoints => ks.epQueue[o] = <<>>
    BY <2>4 DEF IInv, ObjectsOK, EPStatesOK
  <2>6. \A e \in Endpoints : k.epQueue[e] = EPWaiters(e)
    BY <2>2, <2>4, <2>5 DEF EPWaiters
  <2> QED BY <2>1, <2>2, <2>3, <2>6, LoopEndsInOrder
<1>5. CASE CancelBadgedDone
  <2> DEFINE o  == loop.obj
             st == IF loop.queue # <<>> THEN "Send" ELSE ks.epState[o]
             k  == [ks EXCEPT !.epQueue[o] = loop.queue, !.epState[o] = st]
  <2>1. k = [ks EXCEPT !.epQueue[o] = loop.queue,
                       !.epState[o] = IF loop.queue # <<>> THEN "Send" ELSE @]
    BY <1>0 DEF KState
  <2>2. phase = "cancelBadgedSends" /\ EndLoop(k)
    BY <1>5, <2>1 DEF CancelBadgedDone
  <2>3. o \in Endpoints /\ ks.epState[o] = "Idle"
    BY <1>0, <2>2 DEF LoopInv
  <2>4. /\ k.epQueue = [ks.epQueue EXCEPT ![o] = loop.queue] /\ k.transfer = ks.transfer
        /\ ks.transfer = NoTransfer /\ ks.epQueue \in [Endpoints -> Seq(Threads)]
    BY <1>0, <2>2 DEF KState, NothingMoved
  <2>5. st \in EPStates /\ (st = "Idle" <=> loop.queue = <<>>)
    BY <2>3 DEF EPStates
  <2> HIDE DEF st
  <2>6. OK(k)
    BY <1>0, <2>5, KeptEndpoint DEF Kept
  <2> HIDE DEF k
  <2>7. \A e \in Endpoints : k.epQueue[e] = EPWaiters(e)
    BY <2>3, <2>4 DEF EPWaiters
  <2> QED BY <2>2, <2>4, <2>6, <2>7, LoopEndsInOrder
<1>6. CASE ScheduleAndActivate
  <2> DEFINE k1 == schedule(ks)
             k2 == activateThread(k1)
             k3 == [k2 EXCEPT !.transfer = NoTransfer]
  <2>1. phase = "schedule" /\ ks' = k3 /\ phase' = "user" /\ loop' = loop
    BY <1>6 DEF ScheduleAndActivate
  <2>2. k1 \in KState /\ k1.epQueue = ks.epQueue
    BY ScheduleScheduled DEF IInv, TypeOK, DomainTimePositive, ScheduledOK, SameObjects
  <2> HIDE DEF k1
  <2>3. k2 \in KState /\ k2.epQueue = k1.epQueue
    BY <2>2, FramedActivate DEF Framed, SameFrame, SameSwitch, SameObjects
  <2> HIDE DEF k2
  <2>4. k3.epQueue = ks.epQueue /\ k3.transfer = NoTransfer
    BY <2>2, <2>3 DEF KState
  <2> HIDE DEF k3
  <2>5. \A e \in Endpoints : EPWaiters(e)' = EPWaiters(e)
    BY <2>1, <2>4 DEF EPWaiters
  <2> QED BY <2>1, <2>4, <2>5, SameOrder DEF OrderKept, NothingMoved, InTurn, Served
<1> QED BY <1>2, <1>3, <1>4, <1>5, <1>6 DEF KernelStep

\* Every step serves the endpoint queues in turn.
LEMMA NextOrder ==
  ASSUME IInv, KernelInv, NothingMoved, Next
  PROVE  OrderKept
<1>1. CASE ObjectInvocation
  BY <1>1, SlotOrder, TCBOrder, LoopInvocationOrder DEF ObjectInvocation
<1> QED BY <1>1, IPCSyscallOrder, InterruptOrder, KernelStepOrder DEF Next

\* Endpoint queues are first-come first-served, whatever IPC, cancellation, deletion and
\* scheduling the threads do: nobody gets in front of a waiting thread, and a message is
\* taken from, or handed to, the head of the queue (sendIPC, receiveIPC, cancelIPC,
\* cancelBadgedSends; endpoint.c).
THEOREM EndpointsServedInOrder == Spec => EndpointFIFO
<1>1. Init => NothingMoved
  BY DEF Init, NothingMoved
<1>2. IInv /\ KernelInv /\ NothingMoved /\ [Next]_vars => NothingMoved'
  <2>1. ASSUME UNCHANGED vars, NothingMoved PROVE NothingMoved'
    BY <2>1 DEF vars, NothingMoved
  <2>2. ASSUME IInv, KernelInv, NothingMoved, Next PROVE NothingMoved'
    BY <2>2, NextOrder DEF OrderKept
  <2> QED BY <2>1, <2>2
<1>3. IInv /\ KernelInv /\ NothingMoved /\ [Next]_vars =>
        [\A e \in Endpoints : InTurn(EPWaiters(e), EPWaiters(e)', ks'.transfer # NoTransfer)]_vars
  <2>1. ASSUME IInv, KernelInv, NothingMoved, Next
        PROVE  \A e \in Endpoints : InTurn(EPWaiters(e), EPWaiters(e)', ks'.transfer # NoTransfer)
    BY <2>1, NextOrder DEF OrderKept
  <2> QED BY <2>1
<1> QED BY <1>1, <1>2, <1>3, SpecKernelInv, PTL DEF Spec, EndpointFIFO

=============================================================================
