------------------------- MODULE FunctionInvariance --------------------------
(***************************************************************************)
(* What each kernel function does to the parts of KernelInvariant.         *)
(*                                                                         *)
(* The functions of the scheduler: the ready queues agree with tcbQueued,  *)
(* no runnable thread is lost, and the best thread runs.  Those of IPC,    *)
(* reply caps, notifications, faults and thread control leave the kernel   *)
(* consistent: what KernelInvariant says of thread states, wait queues,    *)
(* reply caps and ready queues holds of the state they return, and none of *)
(* the assertions on their way fails.                                      *)
(***************************************************************************)
EXTENDS KernelInvariant, KernelProofs

USE DistinctObjects, ConfigurationBounds, ActionsAreNotThreads

-----------------------------------------------------------------------------
(* Queues as sets without duplicates *)

\* An empty queue has no members, and only an empty queue.
LEMMA EmptyQueue ==
  ASSUME NEW q \in Seq(Threads)
  PROVE  q = <<>> <=> ToSet(q) = {}
<1>1. q # <<>> => q[1] \in ToSet(q)
  BY DEF ToSet
<1>2. ToSet(<<>>) = {}
  BY DEF ToSet
<1> QED BY <1>1, <1>2

\* Linking a TCB at the end of a queue.
LEMMA AppendQueue ==
  ASSUME NEW q \in Seq(Threads), NEW t \in Threads
  PROVE  /\ Append(q, t) \in Seq(Threads)
         /\ ToSet(Append(q, t)) = ToSet(q) \cup {t}
         /\ NoDuplicates(q) /\ t \notin ToSet(q) => NoDuplicates(Append(q, t))
<1> DEFINE r == Append(q, t)
<1>1. /\ r \in Seq(Threads) /\ Len(r) = Len(q) + 1 /\ r[Len(q) + 1] = t
      /\ \A i \in 1 .. Len(q) : r[i] = q[i]
      /\ DOMAIN r = 1 .. Len(q) + 1 /\ DOMAIN q = 1 .. Len(q) /\ Len(q) \in Nat
  BY AppendProperties, LenProperties
<1> HIDE DEF r
<1>2. ToSet(r) = ToSet(q) \cup {t}
  <2>1. ASSUME NEW i \in DOMAIN r PROVE r[i] \in ToSet(q) \cup {t}
    BY <1>1 DEF ToSet
  <2>2. t \in ToSet(r)
    BY <1>1 DEF ToSet
  <2>3. ASSUME NEW i \in DOMAIN q PROVE q[i] \in ToSet(r)
    BY <1>1 DEF ToSet
  <2> QED BY <2>1, <2>2, <2>3 DEF ToSet
<1>3. ASSUME NoDuplicates(q), t \notin ToSet(q) PROVE NoDuplicates(r)
  BY <1>1, <1>3 DEF NoDuplicates, ToSet
<1> QED BY <1>1, <1>2, <1>3 DEF r

\* Linking a TCB at the head of a queue.
LEMMA PrependQueue ==
  ASSUME NEW q \in Seq(Threads), NEW t \in Threads
  PROVE  /\ <<t>> \o q \in Seq(Threads)
         /\ ToSet(<<t>> \o q) = ToSet(q) \cup {t}
         /\ NoDuplicates(q) /\ t \notin ToSet(q) => NoDuplicates(<<t>> \o q)
<1> DEFINE r == <<t>> \o q
<1>1. /\ r \in Seq(Threads) /\ Len(r) = Len(q) + 1 /\ r[1] = t
      /\ \A i \in 1 .. Len(q) : r[i + 1] = q[i]
      /\ DOMAIN r = 1 .. Len(q) + 1 /\ DOMAIN q = 1 .. Len(q) /\ Len(q) \in Nat
  OBVIOUS
<1> HIDE DEF r
<1>2. ASSUME NEW i \in DOMAIN r, i # 1 PROVE i - 1 \in DOMAIN q /\ r[i] = q[i - 1]
  <2>1. i - 1 \in 1 .. Len(q)
    BY <1>1, <1>2
  <2>2. r[(i - 1) + 1] = q[i - 1]
    BY <1>1, <2>1
  <2> QED BY <1>1, <2>1, <2>2
<1>3. ToSet(r) = ToSet(q) \cup {t}
  <2>1. ASSUME NEW i \in DOMAIN r PROVE r[i] \in ToSet(q) \cup {t}
    BY <1>1, <1>2 DEF ToSet
  <2>2. t \in ToSet(r)
    BY <1>1 DEF ToSet
  <2>3. ASSUME NEW i \in DOMAIN q PROVE q[i] \in ToSet(r)
    BY <1>1 DEF ToSet
  <2> QED BY <2>1, <2>2, <2>3 DEF ToSet
<1>4. ASSUME NoDuplicates(q), t \notin ToSet(q) PROVE NoDuplicates(r)
  <2>1. ASSUME NEW i \in DOMAIN r, NEW j \in DOMAIN r, r[i] = r[j] PROVE i = j
    <3>1. CASE i = 1 /\ j = 1
      BY <3>1
    <3>2. CASE i # 1 /\ j # 1
      <4>1. i - 1 = j - 1
        BY <1>2, <1>4, <2>1, <3>2 DEF NoDuplicates
      <4> QED BY <4>1, <1>1
    <3>3. CASE i = 1 /\ j # 1
      BY <1>1, <1>2, <1>4, <2>1, <3>3 DEF ToSet
    <3>4. CASE i # 1 /\ j = 1
      BY <1>1, <1>2, <1>4, <2>1, <3>4 DEF ToSet
    <3> QED BY <3>1, <3>2, <3>3, <3>4
  <2> QED BY <2>1 DEF NoDuplicates
<1> QED BY <1>1, <1>3, <1>4 DEF r

\* Element by element, what is left when element n is taken out of a queue.
Without(q, n, r) ==
  /\ r \in Seq(Threads) /\ Len(r) = Len(q) - 1 /\ DOMAIN r = 1 .. Len(q) - 1
  /\ \A i \in 1 .. Len(q) - 1 : r[i] = IF i < n THEN q[i] ELSE q[i + 1]

\* What RemoveAt leaves of a queue.
LEMMA RemoveAtElements ==
  ASSUME NEW q \in Seq(Threads), NEW n \in 1 .. Len(q)
  PROVE  Without(q, n, RemoveAt(q, n))
<1> DEFINE a == SubSeq(q, 1, n - 1)
           b == SubSeq(q, n + 1, Len(q))
           r == RemoveAt(q, n)
<1>0. n \in Nat /\ Len(q) \in Nat /\ 1 <= n /\ n <= Len(q)
  OBVIOUS
<1>1. /\ a \in Seq(Threads) /\ Len(a) = n - 1
      /\ \A i \in 1 .. (n - 1) : a[i] = q[i]
  BY SubSeqProperties
<1>2. /\ b \in Seq(Threads) /\ Len(b) = Len(q) - n
      /\ \A i \in 1 .. (Len(q) - n) : b[i] = q[n + i]
  BY SubSeqProperties
<1>3. r = a \o b
  BY DEF RemoveAt
<1> HIDE DEF a, b, r
<1>t. a \in Seq(Threads) /\ b \in Seq(Threads)
  BY <1>1, <1>2
<1>c. /\ a \o b \in Seq(Threads) /\ Len(a \o b) = Len(a) + Len(b)
      /\ \A i \in 1 .. Len(a) + Len(b) :
           (a \o b)[i] = IF i <= Len(a) THEN a[i] ELSE b[i - Len(a)]
  BY <1>t, ConcatProperties
<1>4. /\ r \in Seq(Threads) /\ Len(r) = Len(a) + Len(b)
      /\ \A i \in 1 .. Len(a) + Len(b) : r[i] = IF i <= Len(a) THEN a[i] ELSE b[i - Len(a)]
  BY <1>3, <1>c
<1>5. Len(r) = Len(q) - 1 /\ DOMAIN r = 1 .. Len(q) - 1
  <2>1. Len(r) = Len(q) - 1
    BY <1>0, <1>1, <1>2, <1>4
  <2> QED BY <1>4, <2>1, LenProperties
<1>6. ASSUME NEW i \in 1 .. Len(q) - 1 PROVE r[i] = IF i < n THEN q[i] ELSE q[i + 1]
  <2>1. CASE i < n
    <3>1. i \in 1 .. Len(a) + Len(b) /\ i <= Len(a) /\ i \in 1 .. (n - 1)
      BY <1>0, <1>1, <1>2, <2>1
    <3> QED BY <1>1, <1>4, <2>1, <3>1
  <2>2. CASE i >= n
    <3>0. i \in 1 .. Len(a) + Len(b) /\ ~(i <= Len(a)) /\ Len(a) = n - 1
      BY <1>1, <1>2, <2>2
    <3>1. r[i] = b[i - (n - 1)] /\ i - (n - 1) \in 1 .. Len(q) - n
      BY <1>4, <3>0, <2>2
    <3>2. r[i] = q[n + (i - (n - 1))]
      BY <3>1, <1>2
    <3>3. n + (i - (n - 1)) = i + 1
      OBVIOUS
    <3> QED BY <3>2, <3>3, <2>2
  <2> QED BY <2>1, <2>2, <2>1
<1> QED BY <1>4, <1>5, <1>6 DEF Without, r

\* Unlinking a TCB: the rest of the queue stays in order.
LEMMA DequeueQueue ==
  ASSUME NEW q \in Seq(Threads), NEW t \in Threads, NoDuplicates(q)
  PROVE  /\ tcbEPDequeue(t, q) \in Seq(Threads)
         /\ ToSet(tcbEPDequeue(t, q)) = ToSet(q) \ {t}
         /\ NoDuplicates(tcbEPDequeue(t, q))
<1>1. CASE t \in ToSet(q)
  <2> DEFINE n == CHOOSE i \in DOMAIN q : q[i] = t
             r == RemoveAt(q, n)
  <2>1. n \in 1 .. Len(q) /\ q[n] = t
    BY <1>1 DEF ToSet
  <2>2. tcbEPDequeue(t, q) = r
    BY <1>1 DEF tcbEPDequeue
  <2> HIDE DEF n
  <2>3. /\ r \in Seq(Threads) /\ Len(r) = Len(q) - 1 /\ DOMAIN r = 1 .. Len(q) - 1
        /\ \A i \in 1 .. Len(q) - 1 : r[i] = IF i < n THEN q[i] ELSE q[i + 1]
    BY <2>1, RemoveAtElements DEF Without
  <2> DEFINE at(i) == IF i < n THEN i ELSE i + 1
  <2> HIDE DEF r
  <2>i. ASSUME NEW i \in DOMAIN r PROVE at(i) \in DOMAIN q /\ at(i) # n /\ r[i] = q[at(i)]
    <3>1. i \in 1 .. Len(q) - 1 /\ i \in Nat /\ n \in Nat /\ Len(q) \in Nat /\ n <= Len(q)
      BY <2>1, <2>3
    <3>2. at(i) \in 1 .. Len(q) /\ at(i) # n
      BY <3>1
    <3>3. r[i] = q[at(i)]
      BY <3>1, <2>3
    <3> QED BY <3>2, <3>3
  <2>4. ToSet(r) = ToSet(q) \ {t}
    <3>1. ASSUME NEW i \in DOMAIN r PROVE r[i] \in ToSet(q) \ {t}
      <4> HIDE DEF at
      <4> QED BY <2>1, <2>i DEF ToSet, NoDuplicates
    <3>2. ASSUME NEW i \in DOMAIN q, q[i] # t PROVE q[i] \in ToSet(r)
      <4>1. CASE i < n
        BY <2>1, <2>3, <4>1 DEF ToSet
      <4>2. CASE i > n
        <5>1. i - 1 \in 1 .. Len(q) - 1 /\ r[i - 1] = q[(i - 1) + 1]
          BY <2>1, <2>3, <4>2
        <5>2. (i - 1) + 1 = i
          OBVIOUS
        <5> QED BY <2>3, <5>1, <5>2 DEF ToSet
      <4> QED BY <2>1, <3>2, <4>1, <4>2
    <3> QED BY <3>1, <3>2 DEF ToSet
  <2>5. NoDuplicates(r)
    <3>1. ASSUME NEW i \in DOMAIN r, NEW j \in DOMAIN r, r[i] = r[j] PROVE i = j
      <4>1. at(i) = at(j)
        <5> HIDE DEF at
        <5> QED BY <2>i, <3>1 DEF NoDuplicates
      <4> QED BY <4>1, <2>1, <2>3
    <3> QED BY <3>1 DEF NoDuplicates
  <2> QED BY <2>2, <2>3, <2>4, <2>5
<1>2. CASE t \notin ToSet(q)
  BY <1>2 DEF tcbEPDequeue
<1> QED BY <1>1, <1>2

\* The first TCB of a queue and the others.
LEMMA HeadTailQueue ==
  ASSUME NEW q \in Seq(Threads), q # <<>>
  PROVE  /\ Head(q) \in ToSet(q) /\ Head(q) \in Threads
         /\ Tail(q) \in Seq(Threads)
         /\ NoDuplicates(q) => /\ ToSet(Tail(q)) = ToSet(q) \ {Head(q)}
                               /\ NoDuplicates(Tail(q))
<1> DEFINE r == Tail(q)
<1>1. /\ r \in Seq(Threads) /\ DOMAIN r = 1 .. Len(q) - 1 /\ Len(q) \in Nat
      /\ \A i \in 1 .. Len(q) - 1 : r[i] = q[i + 1]
      /\ Head(q) = q[1] /\ DOMAIN q = 1 .. Len(q) /\ 1 \in DOMAIN q
  OBVIOUS
<1> HIDE DEF r
<1>2. ASSUME NoDuplicates(q) PROVE ToSet(r) = ToSet(q) \ {Head(q)} /\ NoDuplicates(r)
  <2>1. ASSUME NEW i \in DOMAIN r PROVE r[i] \in ToSet(q) \ {Head(q)}
    <3>1. i + 1 \in DOMAIN q /\ i + 1 # 1 /\ r[i] = q[i + 1]
      BY <1>1
    <3> QED BY <1>1, <1>2, <3>1 DEF ToSet, NoDuplicates
  <2>2. ASSUME NEW i \in DOMAIN q, q[i] # Head(q) PROVE q[i] \in ToSet(r)
    <3>1. i - 1 \in 1 .. Len(q) - 1 /\ r[i - 1] = q[(i - 1) + 1]
      BY <1>1, <2>2
    <3>2. (i - 1) + 1 = i
      BY <1>1
    <3> QED BY <1>1, <3>1, <3>2 DEF ToSet
  <2>3. ASSUME NEW i \in DOMAIN r, NEW j \in DOMAIN r, r[i] = r[j] PROVE i = j
    <3>1. i + 1 \in DOMAIN q /\ j + 1 \in DOMAIN q /\ q[i + 1] = q[j + 1]
      BY <1>1, <2>3
    <3>2. i + 1 = j + 1
      BY <1>2, <3>1 DEF NoDuplicates
    <3> QED BY <1>1, <3>2
  <2> QED BY <2>1, <2>2, <2>3 DEF ToSet, NoDuplicates
<1>3. Head(q) \in ToSet(q) /\ Head(q) \in Threads
  BY <1>1 DEF ToSet
<1> QED BY <1>1, <1>2, <1>3 DEF r

-----------------------------------------------------------------------------
(* What the queue functions of tcb.c do *)

\* Only the ready queues, tcbQueued and the scheduler action may differ.
Requeued(k, k1) ==
  /\ Framed(k, k1)
  /\ k1.tsType = k.tsType
  /\ k1.blocking = k.blocking
  /\ k1.tcbPriority = k.tcbPriority
  /\ k1.tcbDomain = k.tcbDomain
  /\ k1.ksCurDomain = k.ksCurDomain
  /\ k1.asserts = k.asserts

\* A function that does nothing.
LEMMA RequeuedSelf ==
  ASSUME NEW k \in KState
  PROVE  Requeued(k, k)
BY FramedSelf DEF Requeued

\* Two such functions, one after the other.
LEMMA RequeuedTrans ==
  ASSUME NEW k, NEW k1, NEW k2, Requeued(k, k1), Requeued(k1, k2)
  PROVE  Requeued(k, k2)
BY FramedTrans DEF Requeued

\* The ready queue of a thread is one of the ready queues.
LEMMA ReadyQueueType ==
  ASSUME NEW k \in KState, NEW t \in Threads
  PROVE  /\ readyQueueOf(k, t) \in ReadyQueueIdx
         /\ k.ksReadyQueues[readyQueueOf(k, t)] \in Seq(Threads)
<1>1. readyQueueOf(k, t) \in ReadyQueueIdx
  BY DEF readyQueueOf, ReadyQueueIdx, KState
<1> QED BY <1>1 DEF KState

\* A thread that is linked where ReadyQueuesOK wants it, with the flag to say so.
LEMMA ReadyQueuesSet ==
  ASSUME NEW k \in KState, ReadyQueuesOK(k), NEW t \in Threads, NEW k1, NEW q, NEW b,
         k1.ksReadyQueues = [k.ksReadyQueues EXCEPT ![readyQueueOf(k, t)] = q],
         k1.tcbQueued = [k.tcbQueued EXCEPT ![t] = b],
         k1.tcbDomain = k.tcbDomain, k1.tcbPriority = k.tcbPriority,
         NoDuplicates(q),
         \A u \in Threads :
           u \in ToSet(q) <=> IF u = t THEN b ELSE u \in ToSet(k.ksReadyQueues[readyQueueOf(k, t)])
  PROVE  ReadyQueuesOK(k1)
<1> DEFINE i0 == readyQueueOf(k, t)
<1>1. /\ k.ksReadyQueues \in [ReadyQueueIdx -> Seq(Threads)]
      /\ k.tcbQueued \in [Threads -> BOOLEAN] /\ i0 \in ReadyQueueIdx
  BY ReadyQueueType DEF KState
<1>2. ASSUME NEW u PROVE readyQueueOf(k1, u) = readyQueueOf(k, u)
  BY DEF readyQueueOf
<1> HIDE DEF i0
<1>3. ASSUME NEW i \in ReadyQueueIdx
      PROVE  /\ NoDuplicates(k1.ksReadyQueues[i])
             /\ \A u \in Threads :
                  u \in ToSet(k1.ksReadyQueues[i]) <=> k1.tcbQueued[u] /\ i = readyQueueOf(k1, u)
  <2>1. CASE i = i0
    <3>1. k1.ksReadyQueues[i] = q
      BY <1>1, <2>1 DEF i0
    <3>2. ASSUME NEW u \in Threads
          PROVE  u \in ToSet(q) <=> k1.tcbQueued[u] /\ i = readyQueueOf(k, u)
      <4>1. CASE u = t
        BY <1>1, <2>1, <4>1 DEF i0
      <4>2. CASE u # t
        BY <1>1, <2>1, <4>2 DEF i0, ReadyQueuesOK
      <4> QED BY <4>1, <4>2
    <3> QED BY <3>1, <3>2, <1>2
  <2>2. CASE i # i0
    <3>1. k1.ksReadyQueues[i] = k.ksReadyQueues[i]
      BY <1>1, <2>2 DEF i0
    <3>2. ASSUME NEW u \in Threads
          PROVE  k1.tcbQueued[u] /\ i = readyQueueOf(k, u) <=> k.tcbQueued[u] /\ i = readyQueueOf(k, u)
      BY <1>1, <2>2 DEF i0
    <3> QED BY <3>1, <3>2, <1>2 DEF ReadyQueuesOK
  <2> QED BY <2>1, <2>2
<1> QED BY <1>3 DEF ReadyQueuesOK

\* tcbSchedEnqueue and tcbSchedAppend link the thread.
LEMMA EnqueueEffect ==
  ASSUME NEW k \in KState, NEW t \in Threads,
         NEW k1 \in {tcbSchedEnqueue(k, t), tcbSchedAppend(k, t)}
  PROVE  /\ Requeued(k, k1)
         /\ k1.ksSchedulerAction = k.ksSchedulerAction
         /\ k1.tcbQueued = [k.tcbQueued EXCEPT ![t] = TRUE]
         /\ ReadyQueuesOK(k) => ReadyQueuesOK(k1)
<1> DEFINE i == readyQueueOf(k, t)
           q == k.ksReadyQueues[i]
<1>1. i \in ReadyQueueIdx /\ q \in Seq(Threads)
  BY ReadyQueueType
<1>2. CASE k.tcbQueued[t]
  <2>1. k1 = k
    BY <1>2 DEF tcbSchedEnqueue, tcbSchedAppend
  <2>2. k.tcbQueued = [k.tcbQueued EXCEPT ![t] = TRUE]
    BY <1>2 DEF KState
  <2> QED BY <2>1, <2>2, RequeuedSelf
<1>3. CASE ~k.tcbQueued[t]
  <2> HIDE DEF i
  <2>1. PICK r \in {<<t>> \o q, Append(q, t)} :
          k1 = [k EXCEPT !.ksReadyQueues[i] = r, !.tcbQueued[t] = TRUE]
    BY <1>1, <1>3 DEF tcbSchedEnqueue, tcbSchedAppend, i, KState
  <2>2. /\ r \in Seq(Threads) /\ ToSet(r) = ToSet(q) \cup {t}
        /\ NoDuplicates(q) /\ t \notin ToSet(q) => NoDuplicates(r)
    <3> HIDE DEF q
    <3>1. CASE r = <<t>> \o q
      BY <1>1, <3>1, PrependQueue
    <3>2. CASE r = Append(q, t)
      BY <1>1, <3>2, AppendQueue
    <3> QED BY <3>1, <3>2
  <2> HIDE DEF q
  <2>3. /\ k1.tsType = k.tsType /\ k1.blocking = k.blocking
        /\ k1.tcbPriority = k.tcbPriority /\ k1.tcbDomain = k.tcbDomain
        /\ k1.ksCurDomain = k.ksCurDomain /\ k1.asserts = k.asserts
        /\ k1.ksSchedulerAction = k.ksSchedulerAction
        /\ k1.tcbQueued = [k.tcbQueued EXCEPT ![t] = TRUE]
        /\ k1.ksReadyQueues = [k.ksReadyQueues EXCEPT ![i] = r]
    BY <2>1 DEF KState
  <2>4. Requeued(k, k1)
    BY <2>3, FramedEnqueue, FramedAppend DEF Requeued
  <2>5. ASSUME ReadyQueuesOK(k) PROVE ReadyQueuesOK(k1)
    <3>1. NoDuplicates(q) /\ t \notin ToSet(q)
      BY <1>1, <1>3, <2>5 DEF ReadyQueuesOK, q
    <3> QED BY <2>2, <2>3, <2>5, <3>1, ReadyQueuesSet DEF q, i
  <2> QED BY <2>3, <2>4, <2>5
<1> QED BY <1>2, <1>3

\* tcbSchedDequeue unlinks the thread.
LEMMA DequeueEffect ==
  ASSUME NEW k \in KState, NEW t \in Threads
  PROVE  LET k1 == tcbSchedDequeue(k, t)
         IN  /\ Requeued(k, k1)
             /\ k1.ksSchedulerAction = k.ksSchedulerAction
             /\ k1.tcbQueued = [k.tcbQueued EXCEPT ![t] = FALSE]
             /\ ReadyQueuesOK(k) => ReadyQueuesOK(k1)
<1> DEFINE i  == readyQueueOf(k, t)
           q  == k.ksReadyQueues[i]
           k1 == tcbSchedDequeue(k, t)
<1>1. i \in ReadyQueueIdx /\ q \in Seq(Threads)
  BY ReadyQueueType
<1>2. CASE ~k.tcbQueued[t]
  <2>1. k1 = k
    BY <1>2 DEF tcbSchedDequeue
  <2>2. k.tcbQueued = [k.tcbQueued EXCEPT ![t] = FALSE]
    BY <1>2 DEF KState
  <2> HIDE DEF k1
  <2> QED BY <2>1, <2>2, RequeuedSelf DEF k1
<1>3. CASE k.tcbQueued[t]
  <2> DEFINE r == tcbEPDequeue(t, q)
  <2>1. k1 = [k EXCEPT !.ksReadyQueues[i] = r, !.tcbQueued[t] = FALSE]
    BY <1>1, <1>3 DEF tcbSchedDequeue, KState
  <2>f. Framed(k, k1)
    BY FramedDequeue
  <2>2. NoDuplicates(q) => /\ ToSet(r) = ToSet(q) \ {t}
                           /\ NoDuplicates(r)
    BY <1>1, DequeueQueue
  <2> HIDE DEF k1, q, r, i
  <2>3. /\ k1.tsType = k.tsType /\ k1.blocking = k.blocking
        /\ k1.tcbPriority = k.tcbPriority /\ k1.tcbDomain = k.tcbDomain
        /\ k1.ksCurDomain = k.ksCurDomain /\ k1.asserts = k.asserts
        /\ k1.ksSchedulerAction = k.ksSchedulerAction
        /\ k1.tcbQueued = [k.tcbQueued EXCEPT ![t] = FALSE]
        /\ k1.ksReadyQueues = [k.ksReadyQueues EXCEPT ![i] = r]
    BY <2>1 DEF KState
  <2>4. Requeued(k, k1)
    BY <2>3, <2>f DEF Requeued
  <2>5. ASSUME ReadyQueuesOK(k) PROVE ReadyQueuesOK(k1)
    <3>1. NoDuplicates(q)
      BY <1>1, <2>5 DEF ReadyQueuesOK, q
    <3> QED BY <2>2, <2>3, <2>5, <3>1, ReadyQueuesSet DEF q, i
  <2> QED BY <2>3, <2>4, <2>5 DEF k1
<1> QED BY <1>2, <1>3

\* The scheduler action.
LEMMA ActionEffect ==
  ASSUME NEW k \in KState, NEW a \in Threads \cup {ResumeCurrentThread, ChooseNewThread}
  PROVE  LET k1 == [k EXCEPT !.ksSchedulerAction = a]
         IN  /\ Requeued(k, k1)
             /\ k1.ksSchedulerAction = a
             /\ k1.tcbQueued = k.tcbQueued
             /\ ReadyQueuesOK(k) => ReadyQueuesOK(k1)
<1> DEFINE k1 == [k EXCEPT !.ksSchedulerAction = a]
<1>1. /\ k1.tsType = k.tsType /\ k1.blocking = k.blocking
      /\ k1.tcbPriority = k.tcbPriority /\ k1.tcbDomain = k.tcbDomain
      /\ k1.ksCurDomain = k.ksCurDomain /\ k1.asserts = k.asserts
      /\ k1.tcbQueued = k.tcbQueued
      /\ k1.ksReadyQueues = k.ksReadyQueues
      /\ k1.ksSchedulerAction = a
  BY DEF KState
<1>2. Framed(k, k1)
  BY FramedAction
<1> HIDE DEF k1
<1>3. ReadyQueuesOK(k) => ReadyQueuesOK(k1)
  BY <1>1 DEF ReadyQueuesOK, readyQueueOf
<1>4. Requeued(k, k1)
  BY <1>1, <1>2 DEF Requeued
<1> QED BY <1>1, <1>3, <1>4 DEF k1

\* rescheduleRequired queues the candidate it replaces.
LEMMA RescheduleEffect ==
  ASSUME NEW k \in KState
  PROVE  LET k1 == rescheduleRequired(k)
         IN  /\ Requeued(k, k1)
             /\ k1.ksSchedulerAction = ChooseNewThread
             /\ \A u \in Threads : k1.tcbQueued[u] <=> k.tcbQueued[u] \/ k.ksSchedulerAction = u
             /\ ReadyQueuesOK(k) => ReadyQueuesOK(k1)
<1> DEFINE a  == k.ksSchedulerAction
           k0 == IF a \in Threads THEN tcbSchedEnqueue(k, a) ELSE k
           k1 == [k0 EXCEPT !.ksSchedulerAction = ChooseNewThread]
<1>1. /\ Requeued(k, k0)
      /\ \A u \in Threads : k0.tcbQueued[u] <=> k.tcbQueued[u] \/ a = u
      /\ ReadyQueuesOK(k) => ReadyQueuesOK(k0)
  <2>1. CASE a \in Threads
    <3>1. /\ Requeued(k, k0)
          /\ k0.tcbQueued = [k.tcbQueued EXCEPT ![a] = TRUE]
          /\ ReadyQueuesOK(k) => ReadyQueuesOK(k0)
      BY <2>1, EnqueueEffect
    <3> HIDE DEF k0
    <3> QED BY <3>1 DEF KState
  <2>2. CASE a \notin Threads
    BY <2>2, RequeuedSelf, ZenonT(40) DEF KState
  <2> QED BY <2>1, <2>2
<1> HIDE DEF k0
<1>2. /\ Requeued(k0, k1)
      /\ k1.ksSchedulerAction = ChooseNewThread
      /\ k1.tcbQueued = k0.tcbQueued
      /\ ReadyQueuesOK(k0) => ReadyQueuesOK(k1)
  BY <1>1, ActionEffect DEF Requeued, Framed
<1> HIDE DEF k1
<1>3. Requeued(k, k1)
  BY <1>1, <1>2, RequeuedTrans
<1> QED BY <1>1, <1>2, <1>3 DEF rescheduleRequired, k0, k1

-----------------------------------------------------------------------------
(* The scheduler's view of the threads *)

\* A change that the scheduling invariant does not see.
SameScheduling(k, k1) ==
  /\ k1.tsType = k.tsType
  /\ k1.tcbQueued = k.tcbQueued
  /\ k1.tcbPriority = k.tcbPriority
  /\ k1.tcbDomain = k.tcbDomain
  /\ k1.ksReadyQueues = k.ksReadyQueues
  /\ k1.ksSchedulerAction = k.ksSchedulerAction
  /\ k1.ksCurThread = k.ksCurThread
  /\ k1.ksCurDomain = k.ksCurDomain

\* The scheduling invariant depends on eight fields of the state.
LEMMA SchedInvSame ==
  ASSUME NEW k, NEW k1, NEW X, SchedInv(k, X), SameScheduling(k, k1)
  PROVE  SchedInv(k1, X)
<1>1. ReadyQueuesOK(k1)
  BY DEF SchedInv, QueuesInv, SameScheduling, ReadyQueuesOK, readyQueueOf
<1>2. SchedulerInv(k1, X)
  BY DEF SchedInv, QueuesInv, SameScheduling, SchedulerInv, isRunnable
<1>3. PriorityInv(k1, X)
  BY DEF SchedInv, QueuesInv, SameScheduling, PriorityInv, isRunnable
<1> QED BY <1>1, <1>2, <1>3 DEF SchedInv, QueuesInv

\* Once a reschedule is pending nothing is said of priorities any more.
LEMMA SchedInvReschedule ==
  ASSUME NEW k \in KState, NEW X, ReadyQueuesOK(k), SchedulerInv(k, X)
  PROVE  /\ SchedInv(rescheduleRequired(k), X)
         /\ rescheduleRequired(k).ksSchedulerAction = ChooseNewThread
<1> DEFINE k1 == rescheduleRequired(k)
<1>1. /\ Requeued(k, k1)
      /\ k1.ksSchedulerAction = ChooseNewThread
      /\ \A u \in Threads : k1.tcbQueued[u] <=> k.tcbQueued[u] \/ k.ksSchedulerAction = u
      /\ ReadyQueuesOK(k1)
  BY RescheduleEffect
<1> HIDE DEF k1
<1>2. /\ k1.tsType = k.tsType /\ k1.ksCurThread = k.ksCurThread
  BY <1>1 DEF Requeued, Framed, SameFrame
<1>3. SchedulerInv(k1, X)
  BY <1>1, <1>2 DEF SchedulerInv, isRunnable, ResumeCurrentThread, ChooseNewThread
<1>4. PriorityInv(k1, X)
  BY <1>1 DEF PriorityInv
<1> QED BY <1>1, <1>3, <1>4 DEF SchedInv, QueuesInv, k1

\* tcbSchedEnqueue and tcbSchedAppend of a runnable thread that need not run now.
LEMMA SchedInvEnqueue ==
  ASSUME NEW k \in KState, NEW t \in Threads, QueuesInv(k, {t}), isRunnable(k, t),
         NEW k1 \in {tcbSchedEnqueue(k, t), tcbSchedAppend(k, t)}
  PROVE  /\ QueuesInv(k1, {t})
         /\ ~(k1.ksSchedulerAction = ResumeCurrentThread /\ k1.ksCurThread = t)
              => QueuesInv(k1, {})
         /\ PriorityInv(k, {t}) => PriorityInv(k1, {t})
<1>1. /\ Requeued(k, k1)
      /\ k1.ksSchedulerAction = k.ksSchedulerAction
      /\ k1.tcbQueued = [k.tcbQueued EXCEPT ![t] = TRUE]
      /\ ReadyQueuesOK(k1)
  BY EnqueueEffect DEF SchedInv, QueuesInv
<1>2. /\ k1.tsType = k.tsType /\ k1.ksCurThread = k.ksCurThread
      /\ k1.tcbPriority = k.tcbPriority /\ k1.tcbDomain = k.tcbDomain
      /\ k1.ksCurDomain = k.ksCurDomain
  BY <1>1 DEF Requeued, Framed, SameFrame
<1>3. \A u \in Threads : k1.tcbQueued[u] <=> k.tcbQueued[u] \/ u = t
  BY <1>1 DEF KState
<1>4. PriorityInv(k, {t}) => PriorityInv(k1, {t})
  BY <1>1, <1>2 DEF PriorityInv, isRunnable
<1>5. SchedulerInv(k1, {t})
  BY <1>1, <1>2, <1>3 DEF SchedInv, QueuesInv, SchedulerInv, isRunnable
<1>6. ASSUME ~(k1.ksSchedulerAction = ResumeCurrentThread /\ k1.ksCurThread = t)
      PROVE  SchedulerInv(k1, {})
  BY <1>1, <1>2, <1>3, <1>6 DEF SchedInv, QueuesInv, SchedulerInv, isRunnable
<1> QED BY <1>1, <1>4, <1>5, <1>6 DEF QueuesInv

\* possibleSwitchTo places a thread that has become runnable.
LEMMA SchedInvSwitch ==
  ASSUME NEW k \in KState, NEW t \in Threads, SchedInv(k, {t}), isRunnable(k, t),
         k.ksSchedulerAction = ResumeCurrentThread => k.ksCurThread # t
  PROVE  /\ Requeued(k, possibleSwitchTo(k, t))
         /\ SchedInv(possibleSwitchTo(k, t), {})
<1>1. CASE k.ksCurDomain # k.tcbDomain[t]
  <2> DEFINE k1 == tcbSchedEnqueue(k, t)
  <2>1. possibleSwitchTo(k, t) = k1
    BY <1>1 DEF possibleSwitchTo
  <2>2. /\ Requeued(k, k1)
        /\ k1.ksSchedulerAction = k.ksSchedulerAction
    BY EnqueueEffect
  <2>3. k1.ksCurThread = k.ksCurThread /\ k1.tcbDomain = k.tcbDomain /\ k1.ksCurDomain = k.ksCurDomain
    BY <2>2 DEF Requeued, Framed, SameFrame
  <2>4. QueuesInv(k1, {}) /\ PriorityInv(k1, {t})
    BY <2>2, <2>3, SchedInvEnqueue DEF SchedInv
  <2> HIDE DEF k1
  <2>5. PriorityInv(k1, {})
    BY <1>1, <2>3, <2>4 DEF PriorityInv
  <2> QED BY <2>1, <2>2, <2>4, <2>5 DEF SchedInv, QueuesInv
<1>2. CASE k.ksCurDomain = k.tcbDomain[t] /\ k.ksSchedulerAction # ResumeCurrentThread
  <2> DEFINE k0 == rescheduleRequired(k)
             k1 == tcbSchedEnqueue(k0, t)
  <2>1. possibleSwitchTo(k, t) = k1
    BY <1>2 DEF possibleSwitchTo
  <2>2. Requeued(k, k0) /\ k0.ksSchedulerAction = ChooseNewThread /\ SchedInv(k0, {t})
    BY RescheduleEffect, SchedInvReschedule DEF SchedInv, QueuesInv
  <2>3. k0 \in KState /\ isRunnable(k0, t)
    BY <2>2 DEF Requeued, Framed, isRunnable
  <2> HIDE DEF k0
  <2>4. Requeued(k0, k1) /\ k1.ksSchedulerAction = ChooseNewThread
    BY <2>2, <2>3, EnqueueEffect
  <2>5. QueuesInv(k1, {})
    BY <2>2, <2>3, <2>4, SchedInvEnqueue DEF SchedInv, ResumeCurrentThread, ChooseNewThread
  <2> HIDE DEF k1
  <2>6. PriorityInv(k1, {})
    BY <2>4 DEF PriorityInv
  <2> QED BY <2>1, <2>2, <2>4, <2>5, <2>6, RequeuedTrans DEF SchedInv, QueuesInv
<1>3. CASE k.ksCurDomain = k.tcbDomain[t] /\ k.ksSchedulerAction = ResumeCurrentThread
  <2> DEFINE k1 == [k EXCEPT !.ksSchedulerAction = t]
  <2>1. possibleSwitchTo(k, t) = k1
    BY <1>3 DEF possibleSwitchTo
  <2>2. /\ Requeued(k, k1)
        /\ k1.ksSchedulerAction = t
        /\ k1.tcbQueued = k.tcbQueued
        /\ ReadyQueuesOK(k1)
    BY ActionEffect DEF SchedInv, QueuesInv
  <2> HIDE DEF k1
  <2>3. /\ k1.tsType = k.tsType /\ k1.ksCurThread = k.ksCurThread
        /\ k1.tcbPriority = k.tcbPriority /\ k1.tcbDomain = k.tcbDomain
        /\ k1.ksCurDomain = k.ksCurDomain
    BY <2>2 DEF Requeued, Framed, SameFrame
  <2>4. SchedulerInv(k1, {})
    BY <1>3, <2>2, <2>3 DEF SchedInv, QueuesInv, SchedulerInv, isRunnable
  <2>5. PriorityInv(k1, {})
    BY <1>3, <2>2, <2>3 DEF SchedInv, QueuesInv, PriorityInv, isRunnable, ResumeCurrentThread, ChooseNewThread
  <2> QED BY <2>1, <2>2, <2>4, <2>5 DEF SchedInv, QueuesInv
<1> QED BY <1>1, <1>2, <1>3

-----------------------------------------------------------------------------
(* Thread states *)

\* What setThreadState and the blocking paths do to a thread: it gets a state, and
\* nothing else changes but what scheduleTCB may request of the scheduler.
Restated(k, k1, t, ts, b) ==
  /\ Framed(k, k1)
  /\ k1.tsType = [k.tsType EXCEPT ![t] = ts]
  /\ k1.blocking = [k.blocking EXCEPT ![t] = b]
  /\ k1.tcbPriority = k.tcbPriority
  /\ k1.tcbDomain = k.tcbDomain
  /\ k1.ksCurDomain = k.ksCurDomain
  /\ k1.asserts = k.asserts

\* What that means to the scheduler.  The thread is in transit unless it stays
\* runnable, or it is not queued and does not become runnable.
StateStored(k, k1, t, ts, b) ==
  /\ Restated(k, k1, t, ts, b)
  /\ k1.ksSchedulerAction \in {k.ksSchedulerAction, ChooseNewThread}
  /\ QueuesInv(k, {}) /\ (ts \in RunnableStates \/ k.ksSchedulerAction # t)
     => /\ QueuesInv(k1, {t})
        /\ (isRunnable(k, t) <=> ts \in RunnableStates) => QueuesInv(k1, {})
  /\ PriorityInv(k, {})
     => /\ PriorityInv(k1, {t})
        /\ (ts \in RunnableStates => isRunnable(k, t)) => PriorityInv(k1, {})
  /\ ts \in RunnableStates => k1.ksSchedulerAction = k.ksSchedulerAction
  /\ k1.ksCurThread = t /\ k1.ksSchedulerAction = ResumeCurrentThread => ts \in RunnableStates

\* A thread state is stored and scheduleTCB called.
LEMMA StateEffect ==
  ASSUME NEW k \in KState, NEW t \in Threads, NEW ts \in ThreadStates, NEW b \in Blocking
  PROVE  StateStored(k, scheduleTCB([k EXCEPT !.tsType[t] = ts, !.blocking[t] = b], t), t, ts, b)
<1> DEFINE k0 == [k EXCEPT !.tsType[t] = ts, !.blocking[t] = b]
           k1 == scheduleTCB(k0, t)
<1>1. /\ k0.tsType = [k.tsType EXCEPT ![t] = ts]
      /\ k0.blocking = [k.blocking EXCEPT ![t] = b]
      /\ k0.tcbQueued = k.tcbQueued
      /\ k0.tcbPriority = k.tcbPriority /\ k0.tcbDomain = k.tcbDomain
      /\ k0.ksReadyQueues = k.ksReadyQueues
      /\ k0.ksCurThread = k.ksCurThread
      /\ k0.ksCurDomain = k.ksCurDomain /\ k0.asserts = k.asserts
      /\ k0.ksSchedulerAction = k.ksSchedulerAction
  BY DEF KState
<1>2. k0 \in KState
  BY DEF KState
<1>3. Framed(k, k1)
  BY FramedState
<1> HIDE DEF k0
<1>4. \A u \in Threads : isRunnable(k0, u) <=> IF u = t THEN ts \in RunnableStates ELSE isRunnable(k, u)
  BY <1>1 DEF isRunnable, KState
<1>5. /\ Restated(k, k1, t, ts, b)
      /\ k1.ksSchedulerAction \in {k.ksSchedulerAction, ChooseNewThread}
  <2>1. k1 = k0 \/ k1 = rescheduleRequired(k0)
    BY DEF scheduleTCB
  <2> HIDE DEF k1
  <2>2. /\ k1.tsType = k0.tsType /\ k1.blocking = k0.blocking
        /\ k1.tcbPriority = k0.tcbPriority /\ k1.tcbDomain = k0.tcbDomain
        /\ k1.ksCurDomain = k0.ksCurDomain /\ k1.asserts = k0.asserts
        /\ k1.ksSchedulerAction \in {k0.ksSchedulerAction, ChooseNewThread}
    BY <1>2, <2>1, RescheduleEffect DEF Requeued
  <2> QED BY <1>1, <1>3, <2>2 DEF Restated
<1>p. ASSUME PriorityInv(k, {}), NEW X \in SUBSET {t},
             t \notin X => (ts \in RunnableStates => isRunnable(k, t))
      PROVE  PriorityInv(k1, X)
  <2>1. PriorityInv(k0, X)
    BY <1>1, <1>4, <1>p DEF PriorityInv
  <2>2. k1 = k0 \/ k1.ksSchedulerAction = ChooseNewThread
    BY <1>2, RescheduleEffect DEF scheduleTCB
  <2> QED BY <2>1, <2>2 DEF PriorityInv
<1>6. ASSUME QueuesInv(k, {}), ts \in RunnableStates \/ k.ksSchedulerAction # t,
             NEW X \in SUBSET {t}, t \notin X => (isRunnable(k, t) <=> ts \in RunnableStates)
      PROVE  QueuesInv(k1, X)
  <2>1. ReadyQueuesOK(k0)
    BY <1>1, <1>6 DEF SchedInv, QueuesInv, ReadyQueuesOK, readyQueueOf
  <2>3. /\ \A u \in Threads \ X : k0.tcbQueued[u] => isRunnable(k0, u)
        /\ \A u \in Threads \ X :
             isRunnable(k0, u) => u = k0.ksCurThread \/ k0.tcbQueued[u] \/ k0.ksSchedulerAction = u
        /\ k0.ksSchedulerAction \in Threads =>
             /\ k0.ksSchedulerAction # k0.ksCurThread
             /\ isRunnable(k0, k0.ksSchedulerAction)
             /\ k0.tcbDomain[k0.ksSchedulerAction] = k0.ksCurDomain
    BY <1>1, <1>4, <1>6 DEF SchedInv, QueuesInv, SchedulerInv
  <2>4. CASE k0.ksCurThread = t /\ k0.ksSchedulerAction = ResumeCurrentThread /\ ~isRunnable(k0, t)
    <3> DEFINE kc == [k0 EXCEPT !.ksSchedulerAction = ChooseNewThread]
    <3>1. k1 = rescheduleRequired(k0)
      BY <2>4 DEF scheduleTCB
    <3>2. k0.ksSchedulerAction \notin Threads
      BY <2>4
    <3>3. /\ Requeued(k0, k1)
          /\ k1.ksSchedulerAction = ChooseNewThread
          /\ \A u \in Threads : k1.tcbQueued[u] <=> k0.tcbQueued[u]
          /\ ReadyQueuesOK(k1)
      BY <1>2, <2>1, <3>1, <3>2, RescheduleEffect
    <3>4. k1.tsType = k0.tsType /\ k1.ksCurThread = k0.ksCurThread
      BY <3>3 DEF Requeued, Framed, SameFrame
    <3> HIDE DEF k1
    <3>5. SchedulerInv(k1, X)
      BY <2>3, <3>2, <3>3, <3>4 DEF SchedulerInv, isRunnable, ResumeCurrentThread, ChooseNewThread
    <3> QED BY <3>3, <3>5 DEF QueuesInv
  <2>5. CASE ~(k0.ksCurThread = t /\ k0.ksSchedulerAction = ResumeCurrentThread /\ ~isRunnable(k0, t))
    <3>1. k1 = k0
      BY <2>5 DEF scheduleTCB
    <3>2. k0.ksSchedulerAction = ResumeCurrentThread =>
            \/ k0.ksCurThread \in X \cup {IdleThread}
            \/ /\ isRunnable(k0, k0.ksCurThread)
               /\ ~k0.tcbQueued[k0.ksCurThread]
               /\ k0.tcbDomain[k0.ksCurThread] = k0.ksCurDomain
      BY <1>1, <1>4, <1>6, <2>5 DEF SchedInv, QueuesInv, SchedulerInv, KState
    <3>3. SchedulerInv(k0, X)
      BY <2>3, <3>2 DEF SchedulerInv
    <3> QED BY <2>1, <3>1, <3>3 DEF QueuesInv
  <2> QED BY <2>4, <2>5
<1>7. ASSUME k1.ksCurThread = t, k1.ksSchedulerAction = ResumeCurrentThread
      PROVE  ts \in RunnableStates
  <2>1. k0.ksCurThread = t /\ isRunnable(k0, t) <=> ts \in RunnableStates
    BY <1>1, <1>3, <1>4, <1>7 DEF Framed, SameFrame
  <2>2. k1.ksSchedulerAction = ResumeCurrentThread => k1 = k0
    BY <1>2, RescheduleEffect DEF scheduleTCB, ResumeCurrentThread, ChooseNewThread
  <2>3. k0.ksSchedulerAction = ResumeCurrentThread
    BY <1>7, <2>2
  <2> QED BY <1>2, <1>7, <2>1, <2>3, RescheduleEffect DEF scheduleTCB, ResumeCurrentThread, ChooseNewThread
<1>r. ts \in RunnableStates => k1.ksSchedulerAction = k.ksSchedulerAction
  BY <1>1, <1>4 DEF scheduleTCB
<1>8. k1 = scheduleTCB([k EXCEPT !.tsType[t] = ts, !.blocking[t] = b], t)
  BY DEF k0
<1> HIDE DEF k1
<1>9. ASSUME QueuesInv(k, {}), ts \in RunnableStates \/ k.ksSchedulerAction # t
      PROVE  /\ QueuesInv(k1, {t})
             /\ (isRunnable(k, t) <=> ts \in RunnableStates) => QueuesInv(k1, {})
  <2>1. QueuesInv(k1, {t})
    BY <1>6, <1>9
  <2>2. ASSUME isRunnable(k, t) <=> ts \in RunnableStates PROVE QueuesInv(k1, {})
    BY <1>6, <1>9, <2>2
  <2> QED BY <2>1, <2>2
<1>10. ASSUME PriorityInv(k, {})
       PROVE  /\ PriorityInv(k1, {t})
              /\ (ts \in RunnableStates => isRunnable(k, t)) => PriorityInv(k1, {})
  <2>1. PriorityInv(k1, {t})
    BY <1>p, <1>10
  <2>2. ASSUME ts \in RunnableStates => isRunnable(k, t) PROVE PriorityInv(k1, {})
    BY <1>p, <1>10, <2>2
  <2> QED BY <2>1, <2>2
<1>11. StateStored(k, k1, t, ts, b)
  BY <1>5, <1>7, <1>9, <1>10, <1>r DEF StateStored
<1> QED BY <1>8, <1>11

\* setThreadState, as all of IPC uses it.
LEMMA SetStateEffect ==
  ASSUME NEW k \in KState, NEW t \in Threads, NEW ts \in ThreadStates
  PROVE  StateStored(k, setThreadState(k, t, ts), t, ts, NotBlocking)
<1>1. NotBlocking \in Blocking
  BY DEF NotBlocking, Blocking
<1> QED BY <1>1, StateEffect DEF setThreadState

\* A thread state survives what happens to the ready queues afterwards.
LEMMA RestatedRequeued ==
  ASSUME NEW k, NEW k1, NEW k2, NEW t, NEW ts, NEW b,
         Restated(k, k1, t, ts, b), Requeued(k1, k2)
  PROVE  Restated(k, k2, t, ts, b)
BY FramedTrans DEF Restated, Requeued

\* A thread that is stored as runnable is.
LEMMA RestatedRunnable ==
  ASSUME NEW k \in KState, NEW k1, NEW t \in Threads, NEW ts, NEW b,
         Restated(k, k1, t, ts, b)
  PROVE  /\ k1 \in KState /\ k1.ksCurThread = k.ksCurThread
         /\ isRunnable(k1, t) <=> ts \in RunnableStates
BY SMTT(40) DEF Restated, Framed, SameFrame, isRunnable, KState

\* setThreadState that neither stops nor starts a thread.
LEMMA SetStateInv ==
  ASSUME NEW k \in KState, NEW t \in Threads, NEW ts \in ThreadStates, SchedInv(k, {}),
         isRunnable(k, t) <=> ts \in RunnableStates
  PROVE  /\ Restated(k, setThreadState(k, t, ts), t, ts, NotBlocking)
         /\ SchedInv(setThreadState(k, t, ts), {})
<1>1. ts \in RunnableStates \/ k.ksSchedulerAction # t
  BY DEF SchedInv, QueuesInv, SchedulerInv
<1> QED BY <1>1, SetStateEffect DEF SchedInv, StateStored

\* The current thread blocks or stops: it is not queued while it is the current
\* thread and runs.
LEMMA BlockInv ==
  ASSUME NEW k \in KState, NEW t \in Threads, NEW ts \in ThreadStates, NEW b \in Blocking,
         SchedInv(k, {}), ts \notin RunnableStates, ~k.tcbQueued[t], k.ksSchedulerAction # t
  PROVE  LET k1 == scheduleTCB([k EXCEPT !.tsType[t] = ts, !.blocking[t] = b], t)
         IN  Restated(k, k1, t, ts, b) /\ SchedInv(k1, {})
<1> DEFINE k1 == scheduleTCB([k EXCEPT !.tsType[t] = ts, !.blocking[t] = b], t)
<1>1. /\ Restated(k, k1, t, ts, b)
      /\ QueuesInv(k1, {t}) /\ PriorityInv(k1, {})
      /\ k1.ksCurThread = t /\ k1.ksSchedulerAction = ResumeCurrentThread => ts \in RunnableStates
  <2>1. StateStored(k, k1, t, ts, b)
    BY StateEffect
  <2> HIDE DEF k1
  <2> QED BY <2>1 DEF SchedInv, StateStored
<1>2. k1.tcbQueued[t] => k.tcbQueued[t] \/ k.ksSchedulerAction = t
  <2> DEFINE k0 == [k EXCEPT !.tsType[t] = ts, !.blocking[t] = b]
  <2>1. k0.tcbQueued = k.tcbQueued /\ k0.ksSchedulerAction = k.ksSchedulerAction /\ k0 \in KState
    BY DEF KState
  <2> HIDE DEF k0
  <2> QED BY <2>1, RescheduleEffect DEF scheduleTCB, k0
<1>3. ~isRunnable(k1, t)
  BY <1>1, RestatedRunnable
<1> HIDE DEF k1
<1>4. QueuesInv(k1, {})
  BY <1>1, <1>2, <1>3 DEF QueuesInv, SchedulerInv, isRunnable
<1> QED BY <1>1, <1>4 DEF SchedInv, k1

\* A thread is made runnable and offered to the scheduler.
LEMMA WakeInv ==
  ASSUME NEW k \in KState, NEW t \in Threads, NEW ts \in RunnableStates, SchedInv(k, {}),
         k.ksSchedulerAction = ResumeCurrentThread => k.ksCurThread # t
  PROVE  LET k1 == possibleSwitchTo(setThreadState(k, t, ts), t)
         IN  Restated(k, k1, t, ts, NotBlocking) /\ SchedInv(k1, {})
<1> DEFINE k0 == setThreadState(k, t, ts)
<1>1. /\ Restated(k, k0, t, ts, NotBlocking)
      /\ SchedInv(k0, {t})
      /\ k0.ksSchedulerAction = k.ksSchedulerAction
  BY SetStateEffect DEF StateStored, SchedInv, ThreadStates
<1> HIDE DEF k0
<1>2. k0 \in KState /\ k0.ksCurThread = k.ksCurThread /\ isRunnable(k0, t)
  BY <1>1, RestatedRunnable
<1>3. Requeued(k0, possibleSwitchTo(k0, t)) /\ SchedInv(possibleSwitchTo(k0, t), {})
  BY <1>1, <1>2, SchedInvSwitch
<1> QED BY <1>1, <1>3, RestatedRequeued DEF k0

\* restart: the thread is linked before it is offered to the scheduler.
LEMMA RestartInv ==
  ASSUME NEW k \in KState, NEW t \in Threads, SchedInv(k, {}),
         k.ksSchedulerAction = ResumeCurrentThread => k.ksCurThread # t
  PROVE  LET k1 == possibleSwitchTo(tcbSchedEnqueue(setThreadState(k, t, "Restart"), t), t)
         IN  Restated(k, k1, t, "Restart", NotBlocking) /\ SchedInv(k1, {})
<1> DEFINE k0 == setThreadState(k, t, "Restart")
           k1 == tcbSchedEnqueue(k0, t)
<1>1. /\ Restated(k, k0, t, "Restart", NotBlocking)
      /\ SchedInv(k0, {t})
      /\ k0.ksSchedulerAction = k.ksSchedulerAction
  BY SetStateEffect DEF StateStored, SchedInv, ThreadStates, RunnableStates
<1> HIDE DEF k0
<1>2. k0 \in KState /\ k0.ksCurThread = k.ksCurThread /\ isRunnable(k0, t)
  BY <1>1, RestatedRunnable DEF RunnableStates
<1>3. Requeued(k0, k1) /\ k1.ksSchedulerAction = k0.ksSchedulerAction /\ SchedInv(k1, {t})
  BY <1>1, <1>2, EnqueueEffect, SchedInvEnqueue DEF SchedInv
<1> HIDE DEF k1
<1>4. k1 \in KState /\ isRunnable(k1, t) /\ k1.ksCurThread = k0.ksCurThread
  BY <1>2, <1>3 DEF Requeued, Framed, SameFrame, isRunnable
<1>5. Requeued(k1, possibleSwitchTo(k1, t)) /\ SchedInv(possibleSwitchTo(k1, t), {})
  BY <1>1, <1>2, <1>3, <1>4, SchedInvSwitch
<1> QED BY <1>1, <1>3, <1>5, RestatedRequeued DEF k0, k1

\* The queue loops link the threads they release and reschedule at their end.
LEMMA WakeToRestartInv ==
  ASSUME NEW k \in KState, NEW t \in Threads, QueuesInv(k, {}),
         k.ksSchedulerAction = ResumeCurrentThread => k.ksCurThread # t
  PROVE  /\ Restated(k, wakeToRestart(k, t), t, "Restart", NotBlocking)
         /\ QueuesInv(wakeToRestart(k, t), {})
<1> DEFINE k0 == setThreadState(k, t, "Restart")
           k1 == tcbSchedEnqueue(k0, t)
<1>1. /\ Restated(k, k0, t, "Restart", NotBlocking)
      /\ QueuesInv(k0, {t})
      /\ k0.ksSchedulerAction = k.ksSchedulerAction
  BY SetStateEffect DEF StateStored, ThreadStates, RunnableStates
<1> HIDE DEF k0
<1>2. k0 \in KState /\ k0.ksCurThread = k.ksCurThread /\ isRunnable(k0, t)
  BY <1>1, RestatedRunnable DEF RunnableStates
<1>3. Requeued(k0, k1) /\ k1.ksSchedulerAction = k0.ksSchedulerAction
  BY <1>2, EnqueueEffect
<1>4. k1.ksCurThread = k0.ksCurThread
  BY <1>3 DEF Requeued, Framed, SameFrame
<1>5. QueuesInv(k1, {})
  BY <1>1, <1>2, <1>3, <1>4, SchedInvEnqueue
<1> QED BY <1>1, <1>3, <1>5, RestatedRequeued DEF wakeToRestart, k0, k1

\* suspend: the thread is stopped, then unlinked.
LEMMA StopInv ==
  ASSUME NEW k \in KState, NEW t \in Threads, SchedInv(k, {}), k.ksSchedulerAction # t
  PROVE  LET k1 == tcbSchedDequeue(setThreadState(k, t, "Inactive"), t)
         IN  /\ Restated(k, k1, t, "Inactive", NotBlocking) /\ SchedInv(k1, {})
             /\ k1.ksSchedulerAction \in {k.ksSchedulerAction, ChooseNewThread}
             /\ k1.ksCurThread = t => k1.ksSchedulerAction # ResumeCurrentThread
<1> DEFINE k0 == setThreadState(k, t, "Inactive")
           k1 == tcbSchedDequeue(k0, t)
<1>1. /\ Restated(k, k0, t, "Inactive", NotBlocking)
      /\ QueuesInv(k0, {t}) /\ PriorityInv(k0, {})
      /\ k0.ksSchedulerAction \in {k.ksSchedulerAction, ChooseNewThread}
      /\ k0.ksCurThread = t => k0.ksSchedulerAction # ResumeCurrentThread
  BY SetStateEffect DEF StateStored, SchedInv, ThreadStates, StoppedStates, RunnableStates
<1> HIDE DEF k0
<1>2. k0 \in KState /\ k0.ksCurThread = k.ksCurThread /\ ~isRunnable(k0, t)
  <2>1. "Inactive" \notin RunnableStates
    BY DEF RunnableStates
  <2> QED BY <1>1, <2>1, RestatedRunnable
<1>3. /\ Requeued(k0, k1)
      /\ k1.ksSchedulerAction = k0.ksSchedulerAction
      /\ k1.tcbQueued = [k0.tcbQueued EXCEPT ![t] = FALSE]
      /\ ReadyQueuesOK(k1)
  BY <1>1, <1>2, DequeueEffect DEF QueuesInv
<1> HIDE DEF k1
<1>4. /\ k1.tsType = k0.tsType /\ k1.ksCurThread = k0.ksCurThread
      /\ k1.tcbPriority = k0.tcbPriority /\ k1.tcbDomain = k0.tcbDomain
      /\ k1.ksCurDomain = k0.ksCurDomain
  BY <1>3 DEF Requeued, Framed, SameFrame
<1>5. \A u \in Threads : k1.tcbQueued[u] <=> k0.tcbQueued[u] /\ u # t
  BY <1>2, <1>3, SMTT(40) DEF KState
<1>6. SchedulerInv(k1, {})
  BY <1>1, <1>2, <1>3, <1>4, <1>5 DEF QueuesInv, SchedulerInv, isRunnable
<1>7. PriorityInv(k1, {})
  BY <1>1, <1>3, <1>4 DEF PriorityInv, isRunnable
<1>8. Restated(k, k1, t, "Inactive", NotBlocking)
  BY <1>1, <1>3, RestatedRequeued
<1> QED BY <1>1, <1>3, <1>4, <1>6, <1>7, <1>8 DEF SchedInv, QueuesInv, k0, k1

-----------------------------------------------------------------------------
(* Ticks, Yield, priorities and domains *)

\* A thread may always be regarded as in transit.
LEMMA QueuesInvWeaken ==
  ASSUME NEW k, NEW t, QueuesInv(k, {})
  PROVE  QueuesInv(k, {t})
BY DEF QueuesInv, SchedulerInv

\* Taking a thread out of its ready queue puts it in transit.
LEMMA SchedInvDequeue ==
  ASSUME NEW k \in KState, NEW t \in Threads, QueuesInv(k, {})
  PROVE  LET k1 == tcbSchedDequeue(k, t)
         IN  /\ Requeued(k, k1) /\ QueuesInv(k1, {t})
             /\ PriorityInv(k, {}) => PriorityInv(k1, {})
             /\ k1.ksSchedulerAction = k.ksSchedulerAction
             /\ k1.tcbQueued = [k.tcbQueued EXCEPT ![t] = FALSE]
<1> DEFINE k1 == tcbSchedDequeue(k, t)
<1>1. /\ Requeued(k, k1)
      /\ k1.ksSchedulerAction = k.ksSchedulerAction
      /\ k1.tcbQueued = [k.tcbQueued EXCEPT ![t] = FALSE]
      /\ ReadyQueuesOK(k1)
  BY DequeueEffect DEF QueuesInv
<1> HIDE DEF k1
<1>2. /\ k1.tsType = k.tsType /\ k1.ksCurThread = k.ksCurThread
      /\ k1.tcbPriority = k.tcbPriority /\ k1.tcbDomain = k.tcbDomain
      /\ k1.ksCurDomain = k.ksCurDomain
  BY <1>1 DEF Requeued, Framed, SameFrame
<1>3. \A u \in Threads : k1.tcbQueued[u] <=> k.tcbQueued[u] /\ u # t
  BY <1>1 DEF KState
<1>4. SchedulerInv(k1, {t})
  BY <1>1, <1>2, <1>3 DEF QueuesInv, SchedulerInv, isRunnable
<1>5. PriorityInv(k, {}) => PriorityInv(k1, {})
  BY <1>1, <1>2 DEF PriorityInv, isRunnable
<1> QED BY <1>1, <1>4, <1>5 DEF QueuesInv, k1

\* A runnable thread goes to the end of its queue and somebody else is chosen.
LEMMA RequeueInv ==
  ASSUME NEW k \in KState, NEW t \in Threads, QueuesInv(k, {t}), isRunnable(k, t)
  PROVE  LET k1 == rescheduleRequired(tcbSchedAppend(k, t))
         IN  Requeued(k, k1) /\ SchedInv(k1, {})
<1> DEFINE k0 == tcbSchedAppend(k, t)
           k1 == rescheduleRequired(k0)
<1>1. Requeued(k, k0) /\ QueuesInv(k0, {t}) /\ k0.tcbQueued = [k.tcbQueued EXCEPT ![t] = TRUE]
  BY EnqueueEffect, SchedInvEnqueue
<1> HIDE DEF k0
<1>2. k0 \in KState /\ isRunnable(k0, t) /\ k0.tcbQueued[t]
  <2>1. k0 \in KState /\ k0.tsType = k.tsType
    BY <1>1 DEF Requeued, Framed
  <2>2. DOMAIN k.tcbQueued = Threads
    BY DEF KState
  <2> QED BY <1>1, <2>1, <2>2 DEF isRunnable
<1>3. /\ Requeued(k0, k1) /\ SchedInv(k1, {t})
      /\ k1.ksSchedulerAction = ChooseNewThread /\ k1.tcbQueued[t]
  BY <1>1, <1>2, RescheduleEffect, SchedInvReschedule DEF QueuesInv
<1> HIDE DEF k1
<1>4. isRunnable(k1, t)
  BY <1>2, <1>3 DEF Requeued, isRunnable
<1>5. SchedulerInv(k1, {})
  BY <1>3, <1>4 DEF SchedInv, QueuesInv, SchedulerInv, ResumeCurrentThread, ChooseNewThread
<1>6. PriorityInv(k1, {})
  BY <1>3 DEF PriorityInv
<1> QED BY <1>1, <1>3, <1>5, <1>6, RequeuedTrans DEF SchedInv, QueuesInv, k0, k1

\* handleYield by a thread that runs.
LEMMA YieldInv ==
  ASSUME NEW k \in KState, SchedInv(k, {}), k.ksCurThread \in Threads,
         isRunnable(k, k.ksCurThread)
  PROVE  Requeued(k, handleYield(k)) /\ SchedInv(handleYield(k), {})
<1> DEFINE t  == k.ksCurThread
           k1 == tcbSchedDequeue(k, t)
<1>1. Requeued(k, k1) /\ QueuesInv(k1, {t})
  BY SchedInvDequeue DEF SchedInv
<1> HIDE DEF k1
<1>2. k1 \in KState /\ isRunnable(k1, t)
  BY <1>1 DEF Requeued, Framed, isRunnable
<1>3. /\ Requeued(k1, rescheduleRequired(tcbSchedAppend(k1, t)))
      /\ SchedInv(rescheduleRequired(tcbSchedAppend(k1, t)), {})
  BY <1>1, <1>2, RequeueInv
<1> QED BY <1>1, <1>3, RequeuedTrans DEF handleYield, k1

\* What a tick leaves alone.
Ticked(k, k1) ==
  /\ k1 \in KState
  /\ SameObjects(k, k1)
  /\ k1.tsType = k.tsType
  /\ k1.blocking = k.blocking
  /\ k1.ksCurThread = k.ksCurThread
  /\ k1.asserts = k.asserts

\* A function of the ready queues is no more than a tick.
LEMMA RequeuedTicked ==
  ASSUME NEW k, NEW k1, NEW k2, Ticked(k, k1), Requeued(k1, k2)
  PROVE  Ticked(k, k2)
BY DEF Ticked, Requeued, Framed, SameFrame, SameSwitch, SameObjects

\* The current thread is charged, and goes to the end of its queue when its time
\* slice is over.
LEMMA TickTimeSliceInv ==
  ASSUME NEW k \in KState, SchedInv(k, {})
  PROVE  Ticked(k, tickTimeSlice(k)) /\ SchedInv(tickTimeSlice(k), {})
<1> DEFINE t  == k.ksCurThread
           ks_(v) == [k EXCEPT !.tcbTimeSlice[t] = v]
<1>1. CASE t = IdleThread \/ k.tsType[t] # "Running"
  BY <1>1 DEF tickTimeSlice, Ticked, SameObjects
<1>2. CASE ~(t = IdleThread \/ k.tsType[t] # "Running")
  <2>1. t \in Threads /\ isRunnable(k, t)
    BY <1>2 DEF KState, isRunnable, RunnableStates
  <2>2. ASSUME NEW v \in 1 .. TimeSlice
        PROVE  Ticked(k, ks_(v)) /\ SchedInv(ks_(v), {}) /\ isRunnable(ks_(v), t)
    <3>1. ks_(v) \in KState
      BY DEF KState
    <3>2. Ticked(k, ks_(v)) /\ SameScheduling(k, ks_(v))
      BY <3>1 DEF KState, Ticked, SameScheduling, SameObjects
    <3> HIDE DEF ks_
    <3>3. SchedInv(ks_(v), {})
      BY <3>2, SchedInvSame
    <3> QED BY <2>1, <3>2, <3>3 DEF isRunnable, Ticked
  <2>3. CASE k.tcbTimeSlice[t] > 1
    <3> DEFINE v == k.tcbTimeSlice[t] - 1
    <3>1. v \in 1 .. TimeSlice
      BY <2>1, <2>3 DEF KState
    <3>2. tickTimeSlice(k) = ks_(v)
      BY <1>2, <2>1, <2>3 DEF tickTimeSlice, KState
    <3> HIDE DEF v, ks_
    <3> QED BY <2>2, <3>1, <3>2
  <2>4. CASE ~(k.tcbTimeSlice[t] > 1)
    <3> DEFINE k0 == ks_(TimeSlice)
               k1 == rescheduleRequired(tcbSchedAppend(k0, t))
    <3>1. TimeSlice \in 1 .. TimeSlice
      OBVIOUS
    <3>2. tickTimeSlice(k) = k1
      BY <1>2, <2>4 DEF tickTimeSlice
    <3> HIDE DEF ks_
    <3>3. Ticked(k, k0) /\ SchedInv(k0, {}) /\ isRunnable(k0, t)
      BY <2>2, <3>1
    <3> HIDE DEF k0
    <3>4. Requeued(k0, k1) /\ SchedInv(k1, {})
      BY <2>1, <3>3, RequeueInv, QueuesInvWeaken DEF SchedInv, Ticked
    <3> QED BY <3>2, <3>3, <3>4, RequeuedTicked
  <2> QED BY <2>3, <2>4
<1> QED BY <1>1, <1>2

\* timerTick: the end of a domain's time asks for a new choice.
LEMMA TimerTickInv ==
  ASSUME NEW k \in KState, k.ksDomainTime > 0, SchedInv(k, {})
  PROVE  Ticked(k, timerTick(k)) /\ SchedInv(timerTick(k), {})
<1> DEFINE k1 == tickTimeSlice(k)
           k2 == [k1 EXCEPT !.ksDomainTime = @ - 1]
<1>1. Ticked(k, k1) /\ SchedInv(k1, {}) /\ k1.ksDomainTime = k.ksDomainTime
  BY TickTimeSliceInv, FramedTickTimeSlice DEF Framed, SameFrame, SameSwitch
<1> HIDE DEF k1
<1>2. k2 \in KState
  <2>1. k1 \in KState
    BY <1>1 DEF Ticked
  <2>2. k.ksDomainTime \in Nat
    BY DEF KState
  <2>3. k1.ksDomainTime - 1 \in Nat
    BY <1>1, <2>2
  <2> QED BY <2>1, <2>3 DEF KState
<1>3. Ticked(k, k2) /\ SameScheduling(k1, k2)
  BY <1>1, <1>2, ZenonT(40) DEF Ticked, KState, SameScheduling, SameObjects
<1> HIDE DEF k2
<1>4. SchedInv(k2, {})
  BY <1>1, <1>3, SchedInvSame
<1>5. Requeued(k2, rescheduleRequired(k2)) /\ SchedInv(rescheduleRequired(k2), {})
  BY <1>2, <1>4, RescheduleEffect, SchedInvReschedule DEF SchedInv, QueuesInv
<1>6. Ticked(k, rescheduleRequired(k2))
  BY <1>3, <1>5, RequeuedTicked
<1> QED BY <1>1, <1>3, <1>4, <1>5, <1>6 DEF timerTick, k1, k2

\* What setPriority and setDomain leave alone.
Reparametrised(k, k1) ==
  /\ Framed(k, k1)
  /\ k1.tsType = k.tsType
  /\ k1.blocking = k.blocking
  /\ k1.asserts = k.asserts

\* A thread that is in no ready queue may be given another priority and domain.
LEMMA ParameterInv ==
  ASSUME NEW k \in KState, NEW k1 \in KState, NEW t \in Threads, QueuesInv(k, {t}),
         ~k.tcbQueued[t],
         \A u \in Threads \ {t} : readyQueueOf(k1, u) = readyQueueOf(k, u),
         \A u \in Threads \ {t} : k1.tcbDomain[u] = k.tcbDomain[u],
         k.ksSchedulerAction = t => k1.tcbDomain[t] = k.tcbDomain[t],
         k1.tsType = k.tsType, k1.tcbQueued = k.tcbQueued,
         k1.ksReadyQueues = k.ksReadyQueues, k1.ksSchedulerAction = k.ksSchedulerAction,
         k1.ksCurThread = k.ksCurThread, k1.ksCurDomain = k.ksCurDomain
  PROVE  QueuesInv(k1, {t})
<1>1. ReadyQueuesOK(k1)
  BY DEF QueuesInv, ReadyQueuesOK
<1>2. k.ksCurThread \in Threads \cup {IdleThread}
  BY DEF KState
<1>3. SchedulerInv(k1, {t})
  BY <1>2 DEF QueuesInv, SchedulerInv, isRunnable
<1> QED BY <1>1, <1>3 DEF QueuesInv

\* setPriority, invoked by a thread that runs.
LEMMA SetPriorityInv ==
  ASSUME NEW k \in KState, NEW t \in Threads, NEW p \in Prios, SchedInv(k, {}),
         k.ksCurThread \in Threads, isRunnable(k, k.ksCurThread),
         k.ksSchedulerAction = ResumeCurrentThread
  PROVE  Reparametrised(k, setPriority(k, t, p)) /\ SchedInv(setPriority(k, t, p), {})
<1> DEFINE k0 == tcbSchedDequeue(k, t)
           k1 == [k0 EXCEPT !.tcbPriority[t] = p]
<1>1. /\ Requeued(k, k0) /\ QueuesInv(k0, {t})
      /\ PriorityInv(k0, {})
      /\ k0.ksSchedulerAction = k.ksSchedulerAction
      /\ k0.tcbQueued = [k.tcbQueued EXCEPT ![t] = FALSE]
  BY SchedInvDequeue DEF SchedInv
<1> HIDE DEF k0
<1>2. k0 \in KState
  BY <1>1 DEF Requeued, Framed
<1>3. ~k0.tcbQueued[t]
  BY <1>1 DEF KState
<1>4. k1 \in KState
  BY <1>2, ZenonT(40) DEF KState
<1>5. /\ k1.tsType = k0.tsType /\ k1.tcbQueued = k0.tcbQueued
      /\ k1.ksReadyQueues = k0.ksReadyQueues /\ k1.ksSchedulerAction = k0.ksSchedulerAction
      /\ k1.ksCurThread = k0.ksCurThread /\ k1.ksCurDomain = k0.ksCurDomain
      /\ k1.tcbDomain = k0.tcbDomain
      /\ k1.tcbPriority = [k0.tcbPriority EXCEPT ![t] = p]
      /\ k1.blocking = k0.blocking /\ k1.asserts = k0.asserts
      /\ SameFrame(k0, k1)
  BY <1>2 DEF KState, SameFrame, SameSwitch, SameObjects
<1> HIDE DEF k1
<1>6. \A u \in Threads \ {t} : k1.tcbPriority[u] = k0.tcbPriority[u] /\ readyQueueOf(k1, u) = readyQueueOf(k0, u)
  BY <1>2, <1>5 DEF KState, readyQueueOf
<1>7. QueuesInv(k1, {t})
  BY <1>1, <1>2, <1>3, <1>4, <1>5, <1>6, ParameterInv
<1>8. Reparametrised(k, k1)
  <2>1. Framed(k, k1)
    BY <1>1, <1>4, <1>5, FramedIntro, FramedTrans DEF Requeued
  <2> QED BY <1>1, <1>5, <2>1 DEF Reparametrised, Requeued
<1>9. ASSUME NEW k2, Requeued(k1, k2) PROVE Reparametrised(k, k2)
  BY <1>8, <1>9, FramedTrans DEF Reparametrised, Requeued
<1>10. k0.ksCurThread = k.ksCurThread /\ k0.tsType = k.tsType
  BY <1>1 DEF Requeued, Framed, SameFrame
<1>11. CASE ~isRunnable(k1, t)
  <2>1. setPriority(k, t, p) = k1
    BY <1>11 DEF setPriority, k0, k1
  <2>2. t # k.ksCurThread
    BY <1>5, <1>10, <1>11 DEF isRunnable
  <2>3. SchedulerInv(k1, {})
    BY <1>3, <1>5, <1>7, <1>10, <1>11, <2>2 DEF QueuesInv, SchedulerInv, isRunnable
  <2>4. PriorityInv(k1, {})
    BY <1>1, <1>5, <1>6, <1>10, <1>11, <2>2 DEF PriorityInv, isRunnable
  <2> QED BY <1>7, <1>8, <2>1, <2>3, <2>4 DEF SchedInv, QueuesInv
<1>12. CASE isRunnable(k1, t) /\ t = k.ksCurThread
  <2> DEFINE k2 == rescheduleRequired(k1)
  <2>1. setPriority(k, t, p) = k2
    BY <1>5, <1>10, <1>12 DEF setPriority, k0, k1
  <2>2. /\ Requeued(k1, k2) /\ SchedInv(k2, {t})
        /\ k2.ksSchedulerAction = ChooseNewThread
        /\ \A u \in Threads : k2.tcbQueued[u] <=> k1.tcbQueued[u]
    <3>1. \A u \in Threads : k1.ksSchedulerAction # u
      BY <1>1, <1>5
    <3> QED BY <1>4, <1>7, <3>1, RescheduleEffect, SchedInvReschedule DEF QueuesInv
  <2>3. k2.tsType = k1.tsType /\ k2.ksCurThread = k1.ksCurThread
    BY <2>2 DEF Requeued, Framed, SameFrame
  <2> HIDE DEF k2
  <2>4. SchedulerInv(k2, {})
    BY <1>3, <1>5, <1>10, <1>12, <2>2, <2>3
       DEF SchedInv, QueuesInv, SchedulerInv, ResumeCurrentThread, ChooseNewThread
  <2>5. PriorityInv(k2, {})
    BY <2>2 DEF PriorityInv
  <2> QED BY <1>9, <2>1, <2>2, <2>4, <2>5 DEF SchedInv, QueuesInv
<1>13. CASE isRunnable(k1, t) /\ t # k.ksCurThread
  <2>1. setPriority(k, t, p) = possibleSwitchTo(k1, t)
    BY <1>5, <1>10, <1>13 DEF setPriority, k0, k1
  <2>2. PriorityInv(k1, {t})
    BY <1>1, <1>5, <1>6, <1>10, <1>13 DEF PriorityInv, isRunnable
  <2>3. Requeued(k1, possibleSwitchTo(k1, t)) /\ SchedInv(possibleSwitchTo(k1, t), {})
    BY <1>4, <1>5, <1>7, <1>10, <1>13, <2>2, SchedInvSwitch DEF SchedInv
  <2> QED BY <1>9, <2>1, <2>3
<1> QED BY <1>11, <1>12, <1>13

\* The current thread may set domains.
HasDomainCap(k) == "DomainSet" \in Syscalls /\ k.tcbPriority[k.ksCurThread] >= DomainPrio

\* setDomain, invoked by a thread that runs.
LEMMA SetDomainInv ==
  ASSUME NEW k \in KState, NEW t \in Threads, NEW d \in Domains, SchedInv(k, {}),
         k.ksCurThread \in Threads, isRunnable(k, k.ksCurThread),
         k.ksSchedulerAction = ResumeCurrentThread, HasDomainCap(k)
  PROVE  Reparametrised(k, setDomain(k, t, d)) /\ SchedInv(setDomain(k, t, d), {})
<1> DEFINE k0 == tcbSchedDequeue(k, t)
           k1 == [k0 EXCEPT !.tcbDomain[t] = d]
           k2 == IF isRunnable(k1, t) THEN tcbSchedEnqueue(k1, t) ELSE k1
           k3 == rescheduleRequired(k2)
<1>1. /\ Requeued(k, k0) /\ QueuesInv(k0, {t})
      /\ PriorityInv(k0, {})
      /\ k0.ksSchedulerAction = k.ksSchedulerAction
      /\ k0.tcbQueued = [k.tcbQueued EXCEPT ![t] = FALSE]
  BY SchedInvDequeue DEF SchedInv
<1> HIDE DEF k0
<1>2. k0 \in KState
  BY <1>1 DEF Requeued, Framed
<1>3. ~k0.tcbQueued[t]
  BY <1>1 DEF KState
<1>4. k1 \in KState
  BY <1>2, ZenonT(40) DEF KState
<1>5. /\ k1.tsType = k0.tsType /\ k1.tcbQueued = k0.tcbQueued
      /\ k1.ksReadyQueues = k0.ksReadyQueues /\ k1.ksSchedulerAction = k0.ksSchedulerAction
      /\ k1.ksCurThread = k0.ksCurThread /\ k1.ksCurDomain = k0.ksCurDomain
      /\ k1.tcbDomain = [k0.tcbDomain EXCEPT ![t] = d]
      /\ k1.tcbPriority = k0.tcbPriority
      /\ k1.blocking = k0.blocking /\ k1.asserts = k0.asserts
      /\ SameFrame(k0, k1)
  BY <1>2 DEF KState, SameFrame, SameSwitch, SameObjects
<1> HIDE DEF k1
<1>6. \A u \in Threads \ {t} : k1.tcbDomain[u] = k0.tcbDomain[u] /\ readyQueueOf(k1, u) = readyQueueOf(k0, u)
  BY <1>2, <1>5 DEF KState, readyQueueOf
<1>7. QueuesInv(k1, {t})
  <2>1. k0.ksSchedulerAction # t
    BY <1>1
  <2>2. k1.tsType = k0.tsType /\ k1.tcbQueued = k0.tcbQueued
    BY <1>5
  <2> QED BY <1>1, <1>2, <1>3, <1>4, <1>5, <1>6, <2>1, <2>2, ParameterInv
<1>8. Reparametrised(k, k1)
  <2>1. Framed(k, k1)
    BY <1>1, <1>4, <1>5, FramedIntro, FramedTrans DEF Requeued
  <2> QED BY <1>1, <1>5, <2>1 DEF Reparametrised, Requeued
<1>9. ASSUME NEW ka, NEW kb, Requeued(ka, kb), Reparametrised(k, ka) PROVE Reparametrised(k, kb)
  BY <1>9, FramedTrans DEF Reparametrised, Requeued
<1>10. k0.ksCurThread = k.ksCurThread /\ k0.tsType = k.tsType
  BY <1>1 DEF Requeued, Framed, SameFrame
<1>11. PriorityInv(k1, {})
  <2>1. ASSUME NumDomains = 1 PROVE k1.tcbDomain[t] = k0.tcbDomain[t]
    BY <1>2, <1>5, <2>1 DEF KState, Domains
  <2>2. ASSUME DomainPrio = MaxPrio
        PROVE  /\ k1.ksCurThread # IdleThread
               /\ \A u \in Threads : k1.tcbPriority[u] <= k1.tcbPriority[k1.ksCurThread]
    <3>1. k1.tcbPriority = k.tcbPriority /\ k1.ksCurThread = k.ksCurThread
      BY <1>1, <1>5, <1>10 DEF Requeued, Framed, SameFrame
    <3>2. \A u \in Threads : k.tcbPriority[u] \in 0 .. MaxPrio
      BY DEF KState, Prios
    <3> QED BY <2>2, <3>1, <3>2 DEF HasDomainCap
  <2>3. "DomainSet" \in Syscalls
    BY DEF HasDomainCap
  <2>4. CASE DomainPrio = MaxPrio
    BY <2>2, <2>4 DEF PriorityInv
  <2>5. CASE DomainPrio # MaxPrio
    BY <1>1, <1>5, <1>6, <1>10, <2>1, <2>3, <2>5 DEF PriorityInv, isRunnable, DomainsGuarded
  <2> QED BY <2>4, <2>5
<1>12. /\ Requeued(k1, k2) /\ k2.ksSchedulerAction = k1.ksSchedulerAction
       /\ QueuesInv(k2, {t}) /\ PriorityInv(k2, {})
       /\ \A u \in Threads : k2.tcbQueued[u] <=> k1.tcbQueued[u] \/ (u = t /\ isRunnable(k1, t))
  <2>1. CASE isRunnable(k1, t)
    <3>1. /\ Requeued(k1, k2) /\ k2.ksSchedulerAction = k1.ksSchedulerAction
          /\ k2.tcbQueued = [k1.tcbQueued EXCEPT ![t] = TRUE]
          /\ QueuesInv(k2, {t})
      BY <1>4, <1>7, <2>1, EnqueueEffect, SchedInvEnqueue
    <3> HIDE DEF k2
    <3>2. \A u \in Threads : k2.tcbQueued[u] <=> k1.tcbQueued[u] \/ u = t
      BY <1>4, <3>1, SMTT(40) DEF KState
    <3>3. PriorityInv(k2, {})
      BY <1>11, <3>1 DEF PriorityInv, isRunnable, Requeued, Framed, SameFrame
    <3> QED BY <2>1, <3>1, <3>2, <3>3
  <2>2. CASE ~isRunnable(k1, t)
    BY <1>4, <1>7, <1>11, <2>2, RequeuedSelf
  <2> QED BY <2>1, <2>2
<1> HIDE DEF k2
<1>13. k2 \in KState /\ k2.ksCurThread = k.ksCurThread /\ k2.tsType = k.tsType
  BY <1>5, <1>10, <1>12 DEF Requeued, Framed, SameFrame
<1>14. CASE t = k.ksCurThread
  <2>1. setDomain(k, t, d) = k3
    BY <1>13, <1>14 DEF setDomain, k3, k2, k1, k0
  <2>2. /\ Requeued(k2, k3) /\ SchedInv(k3, {t})
        /\ k3.ksSchedulerAction = ChooseNewThread
        /\ \A u \in Threads : k3.tcbQueued[u] <=> k2.tcbQueued[u]
    BY <1>1, <1>5, <1>12, <1>13, RescheduleEffect, SchedInvReschedule DEF QueuesInv
  <2>3. k3.tsType = k.tsType /\ k3.ksCurThread = k.ksCurThread
    BY <1>13, <2>2 DEF Requeued, Framed, SameFrame
  <2> HIDE DEF k3
  <2>4. SchedulerInv(k3, {})
    BY <1>3, <1>5, <1>12, <1>13, <1>14, <2>2, <2>3
       DEF SchedInv, QueuesInv, SchedulerInv, ResumeCurrentThread, ChooseNewThread, isRunnable
  <2>5. PriorityInv(k3, {})
    BY <2>2 DEF PriorityInv
  <2>6. Reparametrised(k, k3)
    BY <1>8, <1>9, <1>12, <2>2
  <2> QED BY <2>1, <2>2, <2>4, <2>5, <2>6 DEF SchedInv, QueuesInv
<1>15. CASE t # k.ksCurThread
  <2>1. setDomain(k, t, d) = k2
    BY <1>13, <1>15 DEF setDomain, k2, k1, k0
  <2>2. SchedulerInv(k2, {})
    BY <1>3, <1>5, <1>10, <1>12, <1>13, <1>15 DEF QueuesInv, SchedulerInv, isRunnable
  <2>3. Reparametrised(k, k2)
    BY <1>8, <1>9, <1>12
  <2> QED BY <1>12, <2>1, <2>2, <2>3 DEF SchedInv, QueuesInv
<1> QED BY <1>14, <1>15

-----------------------------------------------------------------------------
(* schedule() *)

\* assert() of what holds does nothing.
LEMMA AssertHolds ==
  ASSUME NEW k \in KState, k.asserts, NEW c, c
  PROVE  Assert_(k, c) = k
<1>1. k.asserts = TRUE /\ (k.asserts /\ c) = TRUE
  BY DEF KState
<1>2. [k EXCEPT !.asserts = TRUE] = k
  BY <1>1 DEF KState
<1> QED BY <1>1, <1>2 DEF Assert_

\* What schedule() leaves alone besides the objects.
SameThreads(k, k1) ==
  /\ k1 \in KState
  /\ k1.tsType = k.tsType
  /\ k1.blocking = k.blocking
  /\ k1.tcbPriority = k.tcbPriority
  /\ k1.tcbDomain = k.tcbDomain
  /\ k1.asserts = k.asserts

\* A choice is made among the ready queues when they hold all that is runnable.
AllQueued(k) == ReadyQueuesOK(k) /\ \A t \in Threads : k.tcbQueued[t] <=> isRunnable(k, t)

\* The right thread is current: once ksSchedulerAction is reset, SchedInv holds.
Chosen(k) ==
  /\ ReadyQueuesOK(k)
  /\ \A t \in Threads : k.tcbQueued[t] => isRunnable(k, t)
  /\ \A t \in Threads : isRunnable(k, t) => t = k.ksCurThread \/ k.tcbQueued[t]
  /\ k.ksCurThread # IdleThread =>
       /\ isRunnable(k, k.ksCurThread)
       /\ ~k.tcbQueued[k.ksCurThread]
       /\ k.tcbDomain[k.ksCurThread] = k.ksCurDomain
  /\ DomainsGuarded => \A t \in Threads :
       isRunnable(k, t) /\ k.tcbDomain[t] = k.ksCurDomain =>
         k.ksCurThread # IdleThread /\ k.tcbPriority[t] <= k.tcbPriority[k.ksCurThread]

\* switchToThread unlinks a runnable thread of the domain and makes it current.
LEMMA SwitchToThreadInv ==
  ASSUME NEW k \in KState, NEW t \in Threads, ReadyQueuesOK(k),
         isRunnable(k, t), k.tcbDomain[t] = k.ksCurDomain,
         \A u \in Threads : k.tcbQueued[u] => isRunnable(k, u),
         \A u \in Threads \ {t} : isRunnable(k, u) => k.tcbQueued[u],
         DomainsGuarded => \A u \in Threads \ {t} :
           isRunnable(k, u) /\ k.tcbDomain[u] = k.ksCurDomain => k.tcbPriority[u] <= k.tcbPriority[t]
  PROVE  SameThreads(k, switchToThread(k, t)) /\ Chosen(switchToThread(k, t))
<1> DEFINE k0 == tcbSchedDequeue(k, t)
           k1 == [k0 EXCEPT !.ksCurThread = t]
<1>1. /\ Requeued(k, k0)
      /\ k0.tcbQueued = [k.tcbQueued EXCEPT ![t] = FALSE]
      /\ ReadyQueuesOK(k0)
  BY DequeueEffect
<1> HIDE DEF k0
<1>2. k0 \in KState
  BY <1>1 DEF Requeued, Framed
<1>3. k1 \in KState
  BY <1>2 DEF KState
<1>4. /\ k1.tsType = k0.tsType /\ k1.tcbQueued = k0.tcbQueued
      /\ k1.ksReadyQueues = k0.ksReadyQueues
      /\ k1.ksCurThread = t /\ k1.ksCurDomain = k0.ksCurDomain
      /\ k1.tcbDomain = k0.tcbDomain /\ k1.tcbPriority = k0.tcbPriority
      /\ k1.blocking = k0.blocking /\ k1.asserts = k0.asserts
  BY <1>2 DEF KState
<1> HIDE DEF k1
<1>5. SameThreads(k, k1) /\ k1.ksCurDomain = k.ksCurDomain
  BY <1>1, <1>3, <1>4 DEF SameThreads, Requeued
<1>6. ReadyQueuesOK(k1)
  BY <1>1, <1>4 DEF ReadyQueuesOK, readyQueueOf
<1>7. \A u \in Threads : k1.tcbQueued[u] <=> k.tcbQueued[u] /\ u # t
  BY <1>1, <1>4 DEF KState
<1>8. k.tcbPriority[t] \in Prios
  BY DEF KState
<1>9. k.tcbPriority[t] <= k.tcbPriority[t]
  BY <1>8 DEF Prios
<1>10. Chosen(k1)
  BY <1>4, <1>5, <1>6, <1>7, <1>9 DEF Chosen, SameThreads, isRunnable
<1> QED BY <1>5, <1>10 DEF switchToThread, k0, k1

\* The head of the highest non-empty ready queue of a domain.
LEMMA HighestPrio ==
  ASSUME NEW k \in KState, ReadyQueuesOK(k), NEW dom \in Domains, nonEmptyPrios(k, dom) # {}
  PROVE  LET p == getHighestPrio(k, dom)
             t == Head(k.ksReadyQueues[<<dom, p>>])
         IN  /\ t \in Threads /\ k.tcbQueued[t] /\ k.tcbDomain[t] = dom /\ k.tcbPriority[t] = p
             /\ p \in Prios
             /\ \A u \in Threads : k.tcbQueued[u] /\ k.tcbDomain[u] = dom => k.tcbPriority[u] <= p
<1> DEFINE p == getHighestPrio(k, dom)
           i == <<dom, p>>
           t == Head(k.ksReadyQueues[i])
<1>1. \E m \in nonEmptyPrios(k, dom) : \A x \in nonEmptyPrios(k, dom) : x <= m
  BY Maximum DEF nonEmptyPrios, Prios
<1>2. p \in nonEmptyPrios(k, dom) /\ \A x \in nonEmptyPrios(k, dom) : x <= p
  BY <1>1 DEF getHighestPrio
<1> HIDE DEF p
<1>3. i \in ReadyQueueIdx /\ p \in Prios /\ k.ksReadyQueues[i] # <<>>
  BY <1>2 DEF nonEmptyPrios, ReadyQueueIdx
<1>4. k.ksReadyQueues[i] \in Seq(Threads)
  BY <1>3 DEF KState
<1>5. t \in Threads /\ t \in ToSet(k.ksReadyQueues[i])
  BY <1>3, <1>4, HeadTailQueue
<1> HIDE DEF t
<1>6. k.tcbQueued[t] /\ i = readyQueueOf(k, t)
  BY <1>3, <1>5 DEF ReadyQueuesOK
<1>7. k.tcbDomain[t] = dom /\ k.tcbPriority[t] = p
  BY <1>6 DEF readyQueueOf
<1>8. ASSUME NEW u \in Threads, k.tcbQueued[u], k.tcbDomain[u] = dom PROVE k.tcbPriority[u] <= p
  <2> DEFINE j == <<dom, k.tcbPriority[u]>>
  <2>1. j = readyQueueOf(k, u) /\ k.tcbPriority[u] \in Prios
    BY <1>8 DEF readyQueueOf, KState
  <2>2. j \in ReadyQueueIdx /\ k.ksReadyQueues[j] \in Seq(Threads)
    BY <2>1, ReadyQueueType
  <2>3. u \in ToSet(k.ksReadyQueues[j])
    BY <1>8, <2>1, <2>2 DEF ReadyQueuesOK
  <2>4. k.ksReadyQueues[j] # <<>>
    BY <2>2, <2>3, EmptyQueue
  <2>5. k.tcbPriority[u] \in nonEmptyPrios(k, dom)
    BY <2>1, <2>4 DEF nonEmptyPrios
  <2> QED BY <1>2, <2>5
<1> QED BY <1>3, <1>5, <1>6, <1>7, <1>8 DEF t, p

\* With no ready queue of the domain to choose from there is nobody to run.
LEMMA NobodyReady ==
  ASSUME NEW k \in KState, ReadyQueuesOK(k), NEW dom \in Domains, nonEmptyPrios(k, dom) = {},
         NEW u \in Threads, k.tcbQueued[u]
  PROVE  k.tcbDomain[u] # dom
<1> DEFINE j == readyQueueOf(k, u)
<1>1. j \in ReadyQueueIdx /\ k.ksReadyQueues[j] \in Seq(Threads)
  BY ReadyQueueType
<1>2. u \in ToSet(k.ksReadyQueues[j])
  BY <1>1 DEF ReadyQueuesOK
<1>3. k.ksReadyQueues[j] # <<>>
  BY <1>1, <1>2, EmptyQueue
<1>4. k.tcbPriority[u] \in Prios
  BY DEF KState
<1> QED BY <1>3, <1>4 DEF nonEmptyPrios, readyQueueOf

\* chooseThread: the best of the queued threads, or the idle thread.
LEMMA ChooseThreadInv ==
  ASSUME NEW k \in KState, AllQueued(k), k.asserts
  PROVE  SameThreads(k, chooseThread(k)) /\ Chosen(chooseThread(k))
<1> DEFINE dom    == k.ksCurDomain
           p      == getHighestPrio(k, dom)
           thread == Head(k.ksReadyQueues[<<dom, p>>])
<1>1. dom \in Domains
  BY DEF KState
<1>2. CASE nonEmptyPrios(k, dom) # {}
  <2>1. /\ thread \in Threads /\ k.tcbQueued[thread] /\ k.tcbDomain[thread] = dom
        /\ k.tcbPriority[thread] = p
        /\ \A u \in Threads : k.tcbQueued[u] /\ k.tcbDomain[u] = dom => k.tcbPriority[u] <= p
    BY <1>1, <1>2, HighestPrio DEF AllQueued
  <2>2. isRunnable(k, thread)
    BY <2>1 DEF AllQueued
  <2>3. chooseThread(k) = switchToThread(k, thread)
    <3>1. Assert_(k, isRunnable(k, thread)) = k
      BY <2>2, AssertHolds
    <3> QED BY <1>2, <3>1 DEF chooseThread
  <2> HIDE DEF thread, p
  <2> QED BY <2>1, <2>2, <2>3, SwitchToThreadInv DEF AllQueued
<1>3. CASE nonEmptyPrios(k, dom) = {}
  <2> DEFINE k1 == [k EXCEPT !.ksCurThread = IdleThread]
  <2>1. chooseThread(k) = k1
    BY <1>3 DEF chooseThread, switchToIdleThread
  <2>2. k1 \in KState
    BY DEF KState
  <2>3. /\ k1.tsType = k.tsType /\ k1.tcbQueued = k.tcbQueued
        /\ k1.ksReadyQueues = k.ksReadyQueues
        /\ k1.ksCurThread = IdleThread /\ k1.ksCurDomain = k.ksCurDomain
        /\ k1.tcbDomain = k.tcbDomain /\ k1.tcbPriority = k.tcbPriority
        /\ k1.blocking = k.blocking /\ k1.asserts = k.asserts
    BY DEF KState
  <2> HIDE DEF k1
  <2>4. ReadyQueuesOK(k1)
    BY <2>3 DEF AllQueued, ReadyQueuesOK, readyQueueOf
  <2>5. \A u \in Threads : isRunnable(k, u) => k.tcbDomain[u] # dom
    BY <1>1, <1>3, NobodyReady DEF AllQueued
  <2>6. Chosen(k1)
    BY <2>3, <2>4, <2>5 DEF Chosen, AllQueued, isRunnable
  <2> QED BY <2>1, <2>2, <2>3, <2>6 DEF SameThreads
<1> QED BY <1>2, <1>3

\* scheduleChooseNewThread, in the domain whose turn it is.
LEMMA ChooseNewInv ==
  ASSUME NEW k \in KState, AllQueued(k), k.asserts
  PROVE  SameThreads(k, scheduleChooseNewThread(k)) /\ Chosen(scheduleChooseNewThread(k))
<1>1. CASE k.ksDomainTime = 0
  <2> DEFINE k1 == nextDomain(k)
  <2>1. k1 \in KState
    BY NextDomainScheduled DEF ScheduledOK
  <2>2. /\ SameThreads(k, k1)
        /\ k1.tcbQueued = k.tcbQueued /\ k1.ksReadyQueues = k.ksReadyQueues
    BY <2>1, ZenonT(40) DEF nextDomain, KState, SameThreads
  <2> HIDE DEF k1
  <2>3. AllQueued(k1)
    BY <2>2 DEF AllQueued, ReadyQueuesOK, readyQueueOf, isRunnable, SameThreads
  <2>4. SameThreads(k1, chooseThread(k1)) /\ Chosen(chooseThread(k1))
    BY <2>1, <2>2, <2>3, ChooseThreadInv DEF SameThreads
  <2> QED BY <1>1, <2>2, <2>4 DEF scheduleChooseNewThread, SameThreads, k1
<1>2. CASE k.ksDomainTime # 0
  BY <1>2, ChooseThreadInv DEF scheduleChooseNewThread
<1> QED BY <1>1, <1>2

\* The branch of schedule() for a candidate: the shortcut is taken only when nobody
\* is better.
LEMMA CandidateInv ==
  ASSUME NEW k \in KState, k.asserts, NEW c \in Threads, NEW b \in BOOLEAN,
         ReadyQueuesOK(k), isRunnable(k, c), c # k.ksCurThread, k.tcbDomain[c] = k.ksCurDomain,
         \A u \in Threads : k.tcbQueued[u] => isRunnable(k, u),
         \A u \in Threads \ {c} : isRunnable(k, u) => k.tcbQueued[u],
         DomainsGuarded => \A u \in Threads \ {c} :
           isRunnable(k, u) /\ k.tcbDomain[u] = k.ksCurDomain =>
             k.ksCurThread # IdleThread /\ k.tcbPriority[u] <= k.tcbPriority[k.ksCurThread]
  PROVE  SameThreads(k, scheduleCandidate(k, c, b)) /\ Chosen(scheduleCandidate(k, c, b))
<1> DEFINE cu       == k.ksCurThread
           dom      == k.ksCurDomain
           prio     == k.tcbPriority[c]
           fastfail == cu = IdleThread \/ prio < k.tcbPriority[cu]
           ke       == tcbSchedEnqueue(k, c)
           ka       == tcbSchedAppend(k, c)
<1>1. Assert_(k, isRunnable(k, c)) = k /\ Assert_(k, c # cu) = k
  BY AssertHolds
<1>2. scheduleCandidate(k, c, b) =
        IF fastfail /\ ~isHighestPrio(k, dom, prio) THEN scheduleChooseNewThread(ke)
        ELSE IF b /\ prio = k.tcbPriority[cu] THEN scheduleChooseNewThread(ka)
             ELSE switchToThread(k, c)
  BY <1>1 DEF scheduleCandidate
<1>3. ASSUME NEW k1 \in {ke, ka}
      PROVE  /\ SameThreads(k, scheduleChooseNewThread(k1))
             /\ Chosen(scheduleChooseNewThread(k1))
  <2>1. /\ Requeued(k, k1) /\ ReadyQueuesOK(k1)
        /\ k1.tcbQueued = [k.tcbQueued EXCEPT ![c] = TRUE]
    BY EnqueueEffect
  <2>2. SameThreads(k, k1)
    BY <2>1 DEF Requeued, Framed, SameThreads
  <2>3. \A u \in Threads : k1.tcbQueued[u] <=> k.tcbQueued[u] \/ u = c
    BY <2>1 DEF KState
  <2>4. AllQueued(k1)
    BY <2>1, <2>2, <2>3 DEF AllQueued, SameThreads, isRunnable
  <2> HIDE DEF ke, ka
  <2>5. SameThreads(k1, scheduleChooseNewThread(k1)) /\ Chosen(scheduleChooseNewThread(k1))
    BY <2>2, <2>4, ChooseNewInv DEF SameThreads
  <2> QED BY <2>2, <2>5 DEF SameThreads
<1>4. ASSUME ~(fastfail /\ ~isHighestPrio(k, dom, prio))
      PROVE  SameThreads(k, switchToThread(k, c)) /\ Chosen(switchToThread(k, c))
  <2>1. ASSUME DomainsGuarded, NEW u \in Threads \ {c}, isRunnable(k, u), k.tcbDomain[u] = dom
        PROVE  k.tcbPriority[u] <= prio
    <3>1. prio \in Nat /\ k.tcbPriority[u] \in Nat /\ dom \in Domains
      BY DEF KState, Prios
    <3>2. CASE ~fastfail
      <4>1. cu \in Threads /\ cu # IdleThread
        BY <3>2 DEF KState
      <4>2. k.tcbPriority[cu] \in Nat /\ ~(prio < k.tcbPriority[cu])
        BY <3>2, <4>1 DEF KState, Prios
      <4>3. k.tcbPriority[u] <= k.tcbPriority[cu]
        BY <2>1
      <4> QED BY <3>1, <4>2, <4>3
    <3>3. CASE isHighestPrio(k, dom, prio)
      <4>1. k.tcbQueued[u]
        BY <2>1
      <4>2. nonEmptyPrios(k, dom) # {}
        BY <2>1, <3>1, <4>1, NobodyReady
      <4>3. getHighestPrio(k, dom) \in Prios /\ k.tcbPriority[u] <= getHighestPrio(k, dom)
        BY <2>1, <3>1, <4>1, <4>2, HighestPrio
      <4>4. prio >= getHighestPrio(k, dom)
        BY <3>3, <4>2 DEF isHighestPrio
      <4> QED BY <3>1, <4>3, <4>4 DEF Prios
    <3> QED BY <1>4, <3>2, <3>3
  <2> HIDE DEF fastfail
  <2> QED BY <2>1, SwitchToThreadInv
<1> HIDE DEF ke, ka
<1> QED BY <1>2, <1>3, <1>4

\* schedule(): afterwards the current thread may run until something happens.
LEMMA ScheduleInv ==
  ASSUME NEW k \in KState, SchedInv(k, {}), k.asserts
  PROVE  LET k1 == schedule(k)
         IN  /\ SameThreads(k, k1) /\ SchedInv(k1, {})
             /\ k1.ksSchedulerAction = ResumeCurrentThread
<1> DEFINE action == k.ksSchedulerAction
           cu     == k.ksCurThread
           run    == isRunnable(k, cu)
           k1     == IF run THEN tcbSchedEnqueue(k, cu) ELSE k
           k2     == IF action = ResumeCurrentThread THEN k
                     ELSE IF action = ChooseNewThread THEN scheduleChooseNewThread(k1)
                          ELSE scheduleCandidate(k1, action, run)
           k3     == [k2 EXCEPT !.ksSchedulerAction = ResumeCurrentThread]
<1>0. schedule(k) = k3
  BY DEF schedule
<1>1. /\ action \in Threads \cup {ResumeCurrentThread, ChooseNewThread}
      /\ cu \in Threads \cup {IdleThread} /\ run \in BOOLEAN
  BY DEF KState, isRunnable
<1>2. /\ Requeued(k, k1) /\ ReadyQueuesOK(k1)
      /\ k1.ksSchedulerAction = action
      /\ \A u \in Threads : k1.tcbQueued[u] <=> k.tcbQueued[u] \/ (run /\ u = cu)
  <2>1. CASE run
    <3>1. cu \in Threads
      BY <1>1, <2>1 DEF isRunnable
    <3>2. /\ Requeued(k, k1) /\ ReadyQueuesOK(k1)
          /\ k1.ksSchedulerAction = action
          /\ k1.tcbQueued = [k.tcbQueued EXCEPT ![cu] = TRUE]
      BY <2>1, <3>1, EnqueueEffect DEF SchedInv, QueuesInv
    <3> HIDE DEF k1
    <3> QED BY <2>1, <3>1, <3>2 DEF KState
  <2>2. CASE ~run
    BY <2>2, RequeuedSelf DEF SchedInv, QueuesInv
  <2> QED BY <2>1, <2>2
<1> HIDE DEF k1
<1>3. /\ k1 \in KState /\ SameThreads(k, k1)
      /\ k1.ksCurThread = cu /\ k1.ksCurDomain = k.ksCurDomain /\ k1.asserts
  BY <1>2 DEF Requeued, Framed, SameFrame, SameThreads
<1>4. \A u \in Threads : k1.tcbQueued[u] => isRunnable(k1, u)
  BY <1>2, <1>3 DEF SchedInv, QueuesInv, SchedulerInv, isRunnable, SameThreads
<1>5. \A u \in Threads : isRunnable(k1, u) => k1.tcbQueued[u] \/ u = action
  BY <1>2, <1>3 DEF SchedInv, QueuesInv, SchedulerInv, isRunnable, SameThreads
<1>6. CASE action = ResumeCurrentThread
  <2>1. k2 = k /\ k3 = k
    BY <1>6 DEF KState
  <2> QED BY <1>0, <1>6, <2>1 DEF SameThreads
<1>7. ASSUME SameThreads(k, k2), Chosen(k2)
      PROVE  SameThreads(k, k3) /\ SchedInv(k3, {}) /\ k3.ksSchedulerAction = ResumeCurrentThread
  <2> HIDE DEF k2
  <2>1. k2 \in KState
    BY <1>7 DEF SameThreads
  <2>2. k3 \in KState
    BY <2>1 DEF KState
  <2>3. /\ k3.tsType = k2.tsType /\ k3.tcbQueued = k2.tcbQueued
        /\ k3.ksReadyQueues = k2.ksReadyQueues /\ k3.ksSchedulerAction = ResumeCurrentThread
        /\ k3.ksCurThread = k2.ksCurThread /\ k3.ksCurDomain = k2.ksCurDomain
        /\ k3.tcbDomain = k2.tcbDomain /\ k3.tcbPriority = k2.tcbPriority
        /\ k3.blocking = k2.blocking /\ k3.asserts = k2.asserts
    BY <2>1 DEF KState
  <2> HIDE DEF k3
  <2>4. ReadyQueuesOK(k3)
    BY <1>7, <2>3 DEF Chosen, ReadyQueuesOK, readyQueueOf
  <2>5. SchedulerInv(k3, {})
    BY <1>7, <2>3 DEF Chosen, SchedulerInv, isRunnable
  <2>6. PriorityInv(k3, {})
    BY <1>7, <2>3 DEF Chosen, PriorityInv, isRunnable
  <2> QED BY <1>7, <2>2, <2>3, <2>4, <2>5, <2>6 DEF SameThreads, SchedInv, QueuesInv
<1>8. CASE action = ChooseNewThread
  <2>1. AllQueued(k1)
    BY <1>2, <1>4, <1>5, <1>8 DEF AllQueued
  <2>2. SameThreads(k1, k2) /\ Chosen(k2)
    BY <1>3, <1>8, <2>1, ChooseNewInv DEF ResumeCurrentThread, ChooseNewThread
  <2>3. SameThreads(k, k2)
    BY <1>3, <2>2 DEF SameThreads
  <2> HIDE DEF k2, k3
  <2> QED BY <1>0, <1>7, <2>2, <2>3
<1>9. CASE action \in Threads
  <2>1. k2 = scheduleCandidate(k1, action, run)
    BY <1>9
  <2>2. /\ isRunnable(k1, action) /\ action # k1.ksCurThread
        /\ k1.tcbDomain[action] = k1.ksCurDomain
    BY <1>3, <1>9 DEF SchedInv, QueuesInv, SchedulerInv, isRunnable, SameThreads
  <2>3. DomainsGuarded => \A u \in Threads \ {action} :
          isRunnable(k1, u) /\ k1.tcbDomain[u] = k1.ksCurDomain =>
            k1.ksCurThread # IdleThread /\ k1.tcbPriority[u] <= k1.tcbPriority[k1.ksCurThread]
    BY <1>3, <1>9 DEF SchedInv, PriorityInv, isRunnable, SameThreads
  <2>4. SameThreads(k1, k2) /\ Chosen(k2)
    <3> HIDE DEF k2, k3, run
    <3> QED BY <1>1, <1>2, <1>3, <1>4, <1>5, <1>9, <2>1, <2>2, <2>3, CandidateInv
  <2>5. SameThreads(k, k2)
    BY <1>3, <2>4 DEF SameThreads
  <2> HIDE DEF k2, k3
  <2> QED BY <1>0, <1>7, <2>4, <2>5
<1> HIDE DEF k2, k3
<1> QED BY <1>1, <1>6, <1>8, <1>9

\* activateThread: the current thread runs.
LEMMA ActivateInv ==
  ASSUME NEW k \in KState, SchedInv(k, {}), k.asserts,
         k.ksSchedulerAction = ResumeCurrentThread
  PROVE  LET k1 == activateThread(k)
             cu == k.ksCurThread
         IN  /\ SchedInv(k1, {}) /\ k1.ksSchedulerAction = ResumeCurrentThread
             /\ k1.ksCurThread = cu
             /\ cu # IdleThread => k1.tsType[cu] = "Running"
             /\ \/ k1 = k
                \/ /\ cu \in Threads /\ k.tsType[cu] = "Restart"
                   /\ Restated(k, k1, cu, "Running", NotBlocking)
<1> DEFINE cu == k.ksCurThread
           k1 == activateThread(k)
<1>1. CASE cu = IdleThread
  BY <1>1 DEF activateThread
<1>2. CASE cu # IdleThread
  <2>1. cu \in Threads /\ isRunnable(k, cu)
    BY <1>2 DEF KState, SchedInv, QueuesInv, SchedulerInv
  <2>2. CASE k.tsType[cu] = "Restart"
    <3>1. k1 = setThreadState(k, cu, "Running")
      BY <1>2, <2>2 DEF activateThread
    <3>2. "Running" \in RunnableStates /\ "Running" \in ThreadStates
      BY DEF RunnableStates, ThreadStates
    <3>3. Restated(k, k1, cu, "Running", NotBlocking) /\ SchedInv(k1, {})
      BY <2>1, <3>1, <3>2, SetStateInv
    <3>4. k1.ksSchedulerAction = ResumeCurrentThread
      <4>1. StateStored(k, k1, cu, "Running", NotBlocking)
        BY <2>1, <3>1, <3>2, SetStateEffect
      <4> HIDE DEF k1
      <4> QED BY <3>2, <4>1 DEF StateStored
    <3>5. k1.ksCurThread = cu /\ k1.tsType[cu] = "Running"
      BY <2>1, <3>3 DEF Restated, Framed, SameFrame, KState
    <3> HIDE DEF k1
    <3> QED BY <2>1, <2>2, <3>3, <3>4, <3>5 DEF k1
  <2>3. CASE k.tsType[cu] # "Restart"
    <3>1. k.tsType[cu] = "Running"
      BY <2>1, <2>3 DEF isRunnable, RunnableStates
    <3>2. k1 = k
      BY <1>2, <2>3, <3>1, AssertHolds DEF activateThread
    <3> QED BY <3>1, <3>2
  <2> QED BY <2>2, <2>3
<1> QED BY <1>1, <1>2


-----------------------------------------------------------------------------
(* Consistent states *)

\* A kernel function may be called in k.
KernelOK(k) == OK(k) /\ Consistent(k)

-----------------------------------------------------------------------------
(* Wait queues *)

\* A thread leaves the queue of the object it waits for, and its state follows.
LEMMA LinkedUnlink ==
  ASSUME NEW objs, NEW kinds, NEW ts \in [Threads -> ThreadStates],
         NEW bl \in [Threads -> Blocking], NEW q \in [objs -> Seq(Threads)],
         Linked(objs, kinds, ts, bl, q),
         NEW o \in objs, NEW t \in Threads, bl[t].obj = o, NEW s, s \notin kinds, NEW b
  PROVE  Linked(objs, kinds, [ts EXCEPT ![t] = s], [bl EXCEPT ![t] = b],
                [q EXCEPT ![o] = tcbEPDequeue(t, q[o])])
<1> DEFINE ts1 == [ts EXCEPT ![t] = s]
           bl1 == [bl EXCEPT ![t] = b]
           r   == tcbEPDequeue(t, q[o])
           q1  == [q EXCEPT ![o] = r]
<1>1. ToSet(r) = ToSet(q[o]) \ {t} /\ NoDuplicates(r)
  BY DequeueQueue DEF Linked
<1>2. ts1[t] = s /\ \A u \in Threads \ {t} : ts1[u] = ts[u] /\ bl1[u] = bl[u]
  OBVIOUS
<1>3. q1[o] = r /\ \A e \in objs \ {o} : q1[e] = q[e]
  OBVIOUS
<1> HIDE DEF ts1, bl1, r, q1
<1>4. ASSUME NEW e \in objs
      PROVE  /\ NoDuplicates(q1[e])
             /\ \A u \in Threads : u \in ToSet(q1[e]) <=> ts1[u] \in kinds /\ bl1[u].obj = e
  <2>1. CASE e = o
    <3>1. NoDuplicates(q1[e])
      BY <1>1, <1>3, <2>1
    <3>2. ASSUME NEW u \in Threads
          PROVE  u \in ToSet(q1[e]) <=> ts1[u] \in kinds /\ bl1[u].obj = e
      <4>1. u \in ToSet(q[o]) <=> ts[u] \in kinds /\ bl[u].obj = o
        BY DEF Linked
      <4>2. ToSet(q1[e]) = ToSet(q[o]) \ {t}
        BY <1>1, <1>3, <2>1
      <4>3. CASE u = t
        BY <1>2, <4>2, <4>3
      <4>4. CASE u # t
        BY <1>2, <2>1, <4>1, <4>2, <4>4
      <4> QED BY <4>3, <4>4
    <3> QED BY <3>1, <3>2
  <2>2. CASE e # o
    BY <1>2, <1>3, <2>2 DEF Linked
  <2> QED BY <2>1, <2>2
<1>5. Linked(objs, kinds, ts1, bl1, q1)
  BY <1>4 DEF Linked
<1> QED BY <1>5 DEF ts1, bl1, r, q1

\* A thread that did not wait for one of these objects still does not.
LEMMA LinkedOther ==
  ASSUME NEW objs, NEW kinds, NEW ts \in [Threads -> ThreadStates],
         NEW bl \in [Threads -> Blocking], NEW q, Linked(objs, kinds, ts, bl, q),
         NEW t \in Threads, ts[t] \notin kinds, NEW s, s \notin kinds, NEW b
  PROVE  Linked(objs, kinds, [ts EXCEPT ![t] = s], [bl EXCEPT ![t] = b], q)
BY DEF Linked

\* A thread joins the queue of an object.
LEMMA LinkedLink ==
  ASSUME NEW objs, NEW kinds, NEW ts \in [Threads -> ThreadStates],
         NEW bl \in [Threads -> Blocking], NEW q \in [objs -> Seq(Threads)],
         Linked(objs, kinds, ts, bl, q),
         NEW o \in objs, NEW t \in Threads, ts[t] \notin kinds,
         NEW s, s \in kinds, NEW b, b.obj = o
  PROVE  Linked(objs, kinds, [ts EXCEPT ![t] = s], [bl EXCEPT ![t] = b],
                [q EXCEPT ![o] = tcbEPAppend(t, q[o])])
<1> DEFINE ts1 == [ts EXCEPT ![t] = s]
           bl1 == [bl EXCEPT ![t] = b]
           r   == tcbEPAppend(t, q[o])
           q1  == [q EXCEPT ![o] = r]
<1>1. ToSet(r) = ToSet(q[o]) \cup {t} /\ NoDuplicates(r)
  BY AppendQueue DEF Linked, tcbEPAppend
<1>2. ts1[t] = s /\ bl1[t] = b /\ \A u \in Threads \ {t} : ts1[u] = ts[u] /\ bl1[u] = bl[u]
  OBVIOUS
<1>3. q1[o] = r /\ \A e \in objs \ {o} : q1[e] = q[e]
  OBVIOUS
<1> HIDE DEF ts1, bl1, r, q1
<1>4. ASSUME NEW e \in objs
      PROVE  /\ NoDuplicates(q1[e])
             /\ \A u \in Threads : u \in ToSet(q1[e]) <=> ts1[u] \in kinds /\ bl1[u].obj = e
  <2>1. CASE e = o
    BY <1>1, <1>2, <1>3, <2>1 DEF Linked
  <2>2. CASE e # o
    BY <1>2, <1>3, <2>2 DEF Linked
  <2> QED BY <2>1, <2>2
<1>5. Linked(objs, kinds, ts1, bl1, q1)
  BY <1>4 DEF Linked
<1> QED BY <1>5 DEF ts1, bl1, r, q1

\* The objects do not depend on the rest of the state.
LEMMA ObjectsInvSame ==
  ASSUME NEW k, NEW k1, ObjectsInv(k), SameObjects(k, k1),
         k1.tsType = k.tsType, k1.blocking = k.blocking
  PROVE  ObjectsInv(k1)
BY DEF ObjectsInv, SameObjects, ThreadsInv, LiveOK

\* A thread is given a state that has no business with any queue.
LEMMA ThreadsInvRestated ==
  ASSUME NEW k \in KState, ThreadsInv(k), NEW k1, NEW t \in Threads, NEW ts, NEW b \in Blocking,
         Restated(k, k1, t, ts, b), t \in k.live,
         ts \in EPBlocked => b.obj \in Endpoints,
         ts = "BlockedOnNotification" => b.obj \in Notifications,
         ts \notin WaitStates => b = NotBlocking,
         b.obj \in k.live \cup {Null},
         callerSlots(k, t) = {} \/ ts = "BlockedOnReply",
         ts = "BlockedOnReceive" => k.replyCap[t] = Null,
         ts # "Inactive" => k.replyMaster[t]
  PROVE  ThreadsInv(k1)
<1>1. /\ k1.tsType = [k.tsType EXCEPT ![t] = ts] /\ k1.blocking = [k.blocking EXCEPT ![t] = b]
      /\ SameObjects(k, k1)
      /\ k.tsType \in [Threads -> ThreadStates] /\ k.blocking \in [Threads -> Blocking]
      /\ k.replyCap \in [ReplySlots -> Threads \cup {Null}]
  BY DEF Restated, Framed, SameFrame, SameSwitch, KState
<1>2. /\ k1.tsType[t] = ts /\ k1.blocking[t] = b
      /\ \A u \in Threads \ {t} : k1.tsType[u] = k.tsType[u] /\ k1.blocking[u] = k.blocking[u]
  BY <1>1
<1>3. BlockingOK(k1.tsType, k1.blocking)
  BY <1>2 DEF ThreadsInv, BlockingOK
<1>4. RepliesOK(k1.tsType, k1.replyCap, k1.replyMaster)
  <2>1. k1.replyCap = k.replyCap /\ k1.replyMaster = k.replyMaster
    BY <1>1 DEF SameObjects
  <2>2. \A s \in ReplySlots : k.replyCap[s] = t => ts = "BlockedOnReply"
    BY DEF callerSlots
  <2> QED BY <1>1, <1>2, <2>1, <2>2 DEF ThreadsInv, RepliesOK
<1>5. LiveOK(k1)
  BY <1>1, <1>2 DEF ThreadsInv, LiveOK, SameObjects
<1> QED BY <1>3, <1>4, <1>5 DEF ThreadsInv

\* No reply cap names a thread that waits for no reply.
LEMMA NoCaller ==
  ASSUME NEW k, ThreadsInv(k), NEW t \in Threads, k.tsType[t] # "BlockedOnReply"
  PROVE  callerSlots(k, t) = {}
BY DEF ThreadsInv, RepliesOK, callerSlots

\* A thread that is in no wait queue gets a state that is not a wait in one.
LEMMA ObjectsInvRestated ==
  ASSUME NEW k \in KState, ObjectsInv(k), NEW k1, NEW t \in Threads, NEW ts,
         Restated(k, k1, t, ts, NotBlocking), t \in k.live \/ ts = "Inactive",
         k.tsType[t] \notin WaitStates, ts \notin WaitStates,
         callerSlots(k, t) = {} \/ ts = "BlockedOnReply",
         ts # "Inactive" => k.replyMaster[t]
  PROVE  ObjectsInv(k1)
<1>1. /\ k1.tsType = [k.tsType EXCEPT ![t] = ts] /\ k1.blocking = [k.blocking EXCEPT ![t] = NotBlocking]
      /\ SameObjects(k, k1)
      /\ k.tsType \in [Threads -> ThreadStates] /\ k.blocking \in [Threads -> Blocking]
  BY DEF Restated, Framed, SameFrame, SameSwitch, KState
<1>2. CASE t \notin k.live
  <2>1. k.tsType[t] = "Inactive" /\ ts = "Inactive" /\ k.blocking[t] = NotBlocking
    BY <1>2 DEF ObjectsInv, ThreadsInv, LiveOK, BlockingOK
  <2>2. k1.tsType = k.tsType /\ k1.blocking = k.blocking
    BY <1>1, <2>1
  <2> QED BY <1>1, <2>2, ObjectsInvSame
<1>3. CASE t \in k.live
  <2>1. ThreadsInv(k1)
    <3>1. NotBlocking \in Blocking /\ NotBlocking.obj = Null
      BY DEF NotBlocking, Blocking
    <3>2. ts \notin EPBlocked /\ ts # "BlockedOnNotification" /\ ts # "BlockedOnReceive"
      BY DEF WaitStates, EPBlocked
    <3> QED BY <1>3, <3>1, <3>2, ThreadsInvRestated DEF ObjectsInv
  <2>2. EPLinked(k1.tsType, k1.blocking, k1.epQueue)
    <3>1. k.tsType[t] \notin EPBlocked /\ ts \notin EPBlocked
      BY DEF WaitStates
    <3>2. Linked(Endpoints, EPBlocked, k.tsType, k.blocking, k.epQueue)
      BY DEF ObjectsInv, EPLinked
    <3>3. Linked(Endpoints, EPBlocked, [k.tsType EXCEPT ![t] = ts],
                 [k.blocking EXCEPT ![t] = NotBlocking], k.epQueue)
      BY <1>1, <3>1, <3>2, LinkedOther
    <3> QED BY <1>1, <3>3 DEF EPLinked, SameObjects
  <2>3. NtfnLinked(k1.tsType, k1.blocking, k1.ntfnQueue)
    <3>1. k.tsType[t] \notin {"BlockedOnNotification"} /\ ts \notin {"BlockedOnNotification"}
      BY DEF WaitStates
    <3>2. Linked(Notifications, {"BlockedOnNotification"}, k.tsType, k.blocking, k.ntfnQueue)
      BY DEF ObjectsInv, NtfnLinked
    <3>3. Linked(Notifications, {"BlockedOnNotification"}, [k.tsType EXCEPT ![t] = ts],
                 [k.blocking EXCEPT ![t] = NotBlocking], k.ntfnQueue)
      BY <1>1, <3>1, <3>2, LinkedOther
    <3> QED BY <1>1, <3>3 DEF NtfnLinked, SameObjects
  <2>4. \A e \in Endpoints : t \notin ToSet(k.epQueue[e])
    BY DEF ObjectsInv, EPLinked, Linked, WaitStates
  <2>5. \A e \in Endpoints : \A u \in ToSet(k.epQueue[e]) : u \in Threads
    BY DEF KState, ToSet
  <2>6. EPKinds(k1.tsType, k1.epQueue, k1.epState)
    BY <1>1, <2>4, <2>5 DEF ObjectsInv, EPKinds, SameObjects
  <2> QED BY <2>1, <2>2, <2>3, <2>6 DEF ObjectsInv
<1> QED BY <1>2, <1>3

-----------------------------------------------------------------------------
(* Steps on the objects *)

\* What scheduling and the bindings look at, and the assertions.
SameBase(k, k1) ==
  /\ SameScheduling(k, k1)
  /\ k1.blocking = k.blocking
  /\ k1.live = k.live
  /\ k1.tcbBoundNotification = k.tcbBoundNotification
  /\ k1.ntfnBoundTCB = k.ntfnBoundTCB
  /\ k1.asserts = k.asserts

SameEPs(k, k1) == k1.epState = k.epState /\ k1.epQueue = k.epQueue

SameNtfns(k, k1) == k1.ntfnState = k.ntfnState /\ k1.ntfnQueue = k.ntfnQueue

SameReplies(k, k1) == k1.replyCap = k.replyCap /\ k1.replyMaster = k.replyMaster

\* Only what no invariant looks at differs.
SameCore(k, k1) ==
  SameBase(k, k1) /\ SameEPs(k, k1) /\ SameNtfns(k, k1) /\ SameReplies(k, k1)

EPDequeued(k, k1, ep, t) ==
  /\ SameBase(k, k1) /\ SameNtfns(k, k1) /\ SameReplies(k, k1)
  /\ k1.epQueue = [k.epQueue EXCEPT ![ep] = tcbEPDequeue(t, @)]
  /\ k1.epState = [k.epState EXCEPT ![ep] =
       IF tcbEPDequeue(t, k.epQueue[ep]) = <<>> THEN "Idle" ELSE @]

NtfnDequeued(k, k1, ntfn, t) ==
  /\ SameBase(k, k1) /\ SameEPs(k, k1) /\ SameReplies(k, k1)
  /\ k1.ntfnQueue = [k.ntfnQueue EXCEPT ![ntfn] = tcbEPDequeue(t, @)]
  /\ k1.ntfnState = [k.ntfnState EXCEPT ![ntfn] =
       IF tcbEPDequeue(t, k.ntfnQueue[ntfn]) = <<>> THEN "Idle" ELSE @]

\* epDequeue, alone and before a transfer.
LEMMA EPDequeueEffect ==
  ASSUME NEW k \in KState, NEW ep \in Endpoints, NEW t \in Threads
  PROVE  /\ EPDequeued(k, epDequeue(k, ep, t), ep, t)
         /\ \A x, y : EPDequeued(k, doIPCTransfer(epDequeue(k, ep, t), x, y), ep, t)
BY DEF KState, EPDequeued, epDequeue, doIPCTransfer, SameBase, SameNtfns, SameReplies, SameScheduling

\* The invariants look at the core only.
LEMMA ConsistentSame ==
  ASSUME NEW k, NEW k1, Consistent(k), SameCore(k, k1)
  PROVE  Consistent(k1)
<1>1. SchedInv(k1, {})
  BY SchedInvSame DEF Consistent, SameCore, SameBase
<1>2. ObjectsInv(k1)
  BY DEF Consistent, ObjectsInv, ThreadsInv, LiveOK, SameCore, SameBase, SameEPs, SameNtfns,
         SameReplies, SameScheduling
<1> QED BY <1>1, <1>2 DEF Consistent, SameCore, SameBase

\* Taking a thread off a queue does not disturb what is said of threads.
LEMMA ThreadsInvEPDequeued ==
  ASSUME NEW k \in KState, ThreadsInv(k), NEW k1, NEW ep \in Endpoints, NEW t,
         EPDequeued(k, k1, ep, t)
  PROVE  ThreadsInv(k1)
<1>1. k.epState \in [Endpoints -> EPStates]
  BY DEF KState
<1>2. \A e \in Endpoints : e \notin k1.live => k1.epState[e] = "Idle"
  BY <1>1 DEF EPDequeued, SameBase, ThreadsInv, LiveOK
<1> QED BY <1>2 DEF EPDequeued, SameBase, SameNtfns, SameReplies, SameScheduling, ThreadsInv, LiveOK

\* The same for notifications.
LEMMA ThreadsInvNtfnDequeued ==
  ASSUME NEW k \in KState, ThreadsInv(k), NEW k1, NEW n \in Notifications, NEW t,
         NtfnDequeued(k, k1, n, t)
  PROVE  ThreadsInv(k1)
<1>1. k.ntfnState \in [Notifications -> NtfnStates]
  BY DEF KState
<1>2. \A m \in Notifications : m \notin k1.live => k1.ntfnState[m] # "Waiting"
  BY <1>1 DEF NtfnDequeued, SameBase, ThreadsInv, LiveOK
<1> QED BY <1>2 DEF NtfnDequeued, SameBase, SameEPs, SameReplies, SameScheduling, ThreadsInv, LiveOK

\* A thread off a queue in state ts, as ThreadsInv wants it.
LEMMA ThreadsInvReleased ==
  ASSUME NEW k \in KState, ThreadsInv(k), NEW k1, NEW t \in Threads, NEW ts,
         Restated(k, k1, t, ts, NotBlocking),
         k.tsType[t] \in WaitStates, ts \notin WaitStates
  PROVE  ThreadsInv(k1)
<1>1. NotBlocking \in Blocking /\ NotBlocking.obj = Null
  BY DEF NotBlocking, Blocking
<1>2. ts \notin EPBlocked /\ ts # "BlockedOnNotification" /\ ts # "BlockedOnReceive"
  BY DEF WaitStates, EPBlocked
<1>3. k.tsType[t] # "Inactive" /\ k.tsType[t] # "BlockedOnReply"
  BY DEF WaitStates, EPBlocked
<1>4. t \in k.live /\ k.replyMaster[t]
  BY <1>3 DEF ThreadsInv, LiveOK, RepliesOK
<1>5. callerSlots(k, t) = {}
  BY <1>3, NoCaller
<1> QED BY <1>1, <1>2, <1>4, <1>5, ThreadsInvRestated

\* A thread that waited for an endpoint is taken off its queue and does not wait
\* any more.
LEMMA ObjectsInvEPReleased ==
  ASSUME NEW k \in KState, ObjectsInv(k), NEW k1 \in KState, NEW k2,
         NEW ep \in Endpoints, NEW t \in Threads, NEW ts,
         k.tsType[t] \in EPBlocked, k.blocking[t].obj = ep, ts \notin WaitStates,
         EPDequeued(k, k1, ep, t), Restated(k1, k2, t, ts, NotBlocking)
  PROVE  ObjectsInv(k2)
<1> DEFINE r == tcbEPDequeue(t, k.epQueue[ep])
<1>1. /\ k2.tsType = [k.tsType EXCEPT ![t] = ts] /\ k2.blocking = [k.blocking EXCEPT ![t] = NotBlocking]
      /\ k2.epQueue = [k.epQueue EXCEPT ![ep] = r]
      /\ k2.epState = [k.epState EXCEPT ![ep] = IF r = <<>> THEN "Idle" ELSE @]
      /\ k2.ntfnQueue = k.ntfnQueue
      /\ k1.tsType = k.tsType
  BY DEF EPDequeued, SameBase, SameScheduling, SameNtfns, Restated, Framed, SameFrame, SameSwitch,
         SameObjects
<1>2. /\ k.tsType \in [Threads -> ThreadStates] /\ k.blocking \in [Threads -> Blocking]
      /\ k.epQueue \in [Endpoints -> Seq(Threads)] /\ k.epState \in [Endpoints -> EPStates]
  BY DEF KState
<1>3. /\ ts \notin EPBlocked /\ k.tsType[t] \notin {"BlockedOnNotification"}
      /\ ts \notin {"BlockedOnNotification"} /\ k.tsType[t] \in WaitStates
  BY DEF WaitStates, EPBlocked
<1>4. EPLinked(k2.tsType, k2.blocking, k2.epQueue)
  <2>1. Linked(Endpoints, EPBlocked, k.tsType, k.blocking, k.epQueue)
    BY DEF ObjectsInv, EPLinked
  <2>2. Linked(Endpoints, EPBlocked, [k.tsType EXCEPT ![t] = ts],
               [k.blocking EXCEPT ![t] = NotBlocking], [k.epQueue EXCEPT ![ep] = r])
    BY <1>2, <1>3, <2>1, LinkedUnlink
  <2> QED BY <1>1, <2>2 DEF EPLinked
<1>5. NtfnLinked(k2.tsType, k2.blocking, k2.ntfnQueue)
  <2>1. Linked(Notifications, {"BlockedOnNotification"}, k.tsType, k.blocking, k.ntfnQueue)
    BY DEF ObjectsInv, NtfnLinked
  <2>2. Linked(Notifications, {"BlockedOnNotification"}, [k.tsType EXCEPT ![t] = ts],
               [k.blocking EXCEPT ![t] = NotBlocking], k.ntfnQueue)
    BY <1>2, <1>3, <2>1, LinkedOther
  <2> QED BY <1>1, <2>2 DEF NtfnLinked
<1>6. ThreadsInv(k2)
  BY <1>1, <1>3, ThreadsInvEPDequeued, ThreadsInvReleased DEF ObjectsInv
<1>7. EPKinds(k2.tsType, k2.epQueue, k2.epState)
  <2>1. ToSet(r) = ToSet(k.epQueue[ep]) \ {t} /\ r \in Seq(Threads)
    BY <1>2, DequeueQueue DEF ObjectsInv, EPLinked, Linked
  <2> HIDE DEF r
  <2>2. SUFFICES ASSUME NEW e \in Endpoints, NEW u \in ToSet(k2.epQueue[e])
                 PROVE  k2.tsType[u] = IF k2.epState[e] = "Send" THEN "BlockedOnSend" ELSE "BlockedOnReceive"
    BY DEF EPKinds
  <2>3. CASE e = ep
    <3>1. k2.epQueue[e] = r /\ u \in ToSet(k.epQueue[e]) /\ u # t
      BY <1>1, <1>2, <2>1, <2>3
    <3>2. u \in Threads
      BY <1>2, <3>1 DEF ToSet
    <3>3. r # <<>>
      BY <2>1, <3>1, EmptyQueue
    <3>4. k2.epState[e] = k.epState[e]
      BY <1>1, <1>2, <2>3, <3>3
    <3>5. k2.tsType[u] = k.tsType[u]
      BY <1>1, <1>2, <3>1, <3>2
    <3> QED BY <3>1, <3>4, <3>5 DEF ObjectsInv, EPKinds
  <2>4. CASE e # ep
    <3>1. k2.epQueue[e] = k.epQueue[e] /\ k2.epState[e] = k.epState[e]
      BY <1>1, <1>2, <2>4
    <3>2. u \in Threads
      BY <1>2, <3>1 DEF ToSet
    <3>3. t \notin ToSet(k.epQueue[e])
      BY <2>4 DEF ObjectsInv, EPLinked, Linked
    <3>4. k2.tsType[u] = k.tsType[u]
      BY <1>1, <1>2, <3>1, <3>2, <3>3
    <3> QED BY <3>1, <3>4 DEF ObjectsInv, EPKinds
  <2> QED BY <2>3, <2>4
<1> QED BY <1>4, <1>5, <1>6, <1>7 DEF ObjectsInv

\* The same for a thread that waited for a notification.
LEMMA ObjectsInvNtfnReleased ==
  ASSUME NEW k \in KState, ObjectsInv(k), NEW k1 \in KState, NEW k2,
         NEW n \in Notifications, NEW t \in Threads, NEW ts,
         k.tsType[t] = "BlockedOnNotification", k.blocking[t].obj = n, ts \notin WaitStates,
         NtfnDequeued(k, k1, n, t), Restated(k1, k2, t, ts, NotBlocking)
  PROVE  ObjectsInv(k2)
<1> DEFINE r == tcbEPDequeue(t, k.ntfnQueue[n])
<1>1. /\ k2.tsType = [k.tsType EXCEPT ![t] = ts] /\ k2.blocking = [k.blocking EXCEPT ![t] = NotBlocking]
      /\ k2.ntfnQueue = [k.ntfnQueue EXCEPT ![n] = r]
      /\ k2.epQueue = k.epQueue /\ k2.epState = k.epState
      /\ k1.tsType = k.tsType
  BY DEF NtfnDequeued, SameBase, SameScheduling, SameEPs, Restated, Framed, SameFrame, SameSwitch,
         SameObjects
<1>2. /\ k.tsType \in [Threads -> ThreadStates] /\ k.blocking \in [Threads -> Blocking]
      /\ k.ntfnQueue \in [Notifications -> Seq(Threads)] /\ k.epQueue \in [Endpoints -> Seq(Threads)]
  BY DEF KState
<1>3. /\ ts \notin EPBlocked /\ k.tsType[t] \in {"BlockedOnNotification"}
      /\ ts \notin {"BlockedOnNotification"} /\ k.tsType[t] \in WaitStates /\ k.tsType[t] \notin EPBlocked
  BY DEF WaitStates, EPBlocked
<1>4. EPLinked(k2.tsType, k2.blocking, k2.epQueue)
  <2>1. Linked(Endpoints, EPBlocked, k.tsType, k.blocking, k.epQueue)
    BY DEF ObjectsInv, EPLinked
  <2>2. Linked(Endpoints, EPBlocked, [k.tsType EXCEPT ![t] = ts],
               [k.blocking EXCEPT ![t] = NotBlocking], k.epQueue)
    BY <1>2, <1>3, <2>1, LinkedOther
  <2> QED BY <1>1, <2>2 DEF EPLinked
<1>5. NtfnLinked(k2.tsType, k2.blocking, k2.ntfnQueue)
  <2>1. Linked(Notifications, {"BlockedOnNotification"}, k.tsType, k.blocking, k.ntfnQueue)
    BY DEF ObjectsInv, NtfnLinked
  <2>2. Linked(Notifications, {"BlockedOnNotification"}, [k.tsType EXCEPT ![t] = ts],
               [k.blocking EXCEPT ![t] = NotBlocking], [k.ntfnQueue EXCEPT ![n] = r])
    BY <1>2, <1>3, <2>1, LinkedUnlink
  <2> QED BY <1>1, <2>2 DEF NtfnLinked
<1>6. ThreadsInv(k2)
  BY <1>1, <1>3, ThreadsInvNtfnDequeued, ThreadsInvReleased DEF ObjectsInv
<1>7. EPKinds(k2.tsType, k2.epQueue, k2.epState)
  <2>1. \A e \in Endpoints : t \notin ToSet(k.epQueue[e])
    BY <1>3 DEF ObjectsInv, EPLinked, Linked
  <2>2. \A e \in Endpoints : \A u \in ToSet(k.epQueue[e]) : u \in Threads
    BY <1>2 DEF ToSet
  <2> QED BY <1>1, <1>2, <2>1, <2>2 DEF ObjectsInv, EPKinds
<1> QED BY <1>4, <1>5, <1>6, <1>7 DEF ObjectsInv

\* A thread gets in the queue of an endpoint.
LEMMA ObjectsInvEPBlocked ==
  ASSUME NEW k \in KState, ObjectsInv(k), EPStatesOK(k), NEW k1 \in KState, NEW k2,
         NEW ep \in Endpoints, NEW t \in Threads, NEW ts \in EPBlocked, NEW b \in Blocking,
         NEW epst, epst = (IF ts = "BlockedOnSend" THEN "Send" ELSE "Recv"),
         ep \in k.live, t \in k.live, k.replyMaster[t], b.obj = ep,
         k.tsType[t] \notin WaitStates, k.tsType[t] # "BlockedOnReply",
         ts = "BlockedOnReceive" => k.replyCap[t] = Null,
         k.epState[ep] \in {"Idle", epst},
         Restated(k, k1, t, ts, b),
         k2 = [k1 EXCEPT !.epQueue[ep] = tcbEPAppend(t, @), !.epState[ep] = epst]
  PROVE  ObjectsInv(k2)
<1> DEFINE r == tcbEPAppend(t, k.epQueue[ep])
<1>1. /\ k1.tsType = [k.tsType EXCEPT ![t] = ts] /\ k1.blocking = [k.blocking EXCEPT ![t] = b]
      /\ SameObjects(k, k1)
  BY DEF Restated, Framed, SameFrame, SameSwitch
<1>2. /\ k2.tsType = k1.tsType /\ k2.blocking = k1.blocking
      /\ k2.ntfnQueue = k1.ntfnQueue /\ k2.ntfnState = k1.ntfnState /\ k2.ntfnBoundTCB = k1.ntfnBoundTCB
      /\ k2.live = k1.live /\ k2.replyCap = k1.replyCap /\ k2.replyMaster = k1.replyMaster
      /\ k2.tcbBoundNotification = k1.tcbBoundNotification
      /\ k2.epQueue = [k1.epQueue EXCEPT ![ep] = tcbEPAppend(t, @)]
      /\ k2.epState = [k1.epState EXCEPT ![ep] = epst]
  BY DEF KState
<1>3. /\ k2.epQueue = [k.epQueue EXCEPT ![ep] = r] /\ k2.epState = [k.epState EXCEPT ![ep] = epst]
      /\ k2.ntfnQueue = k.ntfnQueue
  BY <1>1, <1>2 DEF SameObjects
<1>4. /\ k.tsType \in [Threads -> ThreadStates] /\ k.blocking \in [Threads -> Blocking]
      /\ k.epQueue \in [Endpoints -> Seq(Threads)] /\ k.epState \in [Endpoints -> EPStates]
  BY DEF KState
<1>5. /\ k.tsType[t] \notin EPBlocked /\ k.tsType[t] \notin {"BlockedOnNotification"}
      /\ ts \notin {"BlockedOnNotification"} /\ ts \in WaitStates
  BY DEF WaitStates, EPBlocked
<1>6. EPLinked(k2.tsType, k2.blocking, k2.epQueue)
  <2>1. Linked(Endpoints, EPBlocked, k.tsType, k.blocking, k.epQueue)
    BY DEF ObjectsInv, EPLinked
  <2>2. Linked(Endpoints, EPBlocked, [k.tsType EXCEPT ![t] = ts], [k.blocking EXCEPT ![t] = b],
               [k.epQueue EXCEPT ![ep] = r])
    BY <1>4, <1>5, <2>1, LinkedLink
  <2> QED BY <1>1, <1>2, <1>3, <2>2 DEF EPLinked
<1>7. NtfnLinked(k2.tsType, k2.blocking, k2.ntfnQueue)
  <2>1. Linked(Notifications, {"BlockedOnNotification"}, k.tsType, k.blocking, k.ntfnQueue)
    BY DEF ObjectsInv, NtfnLinked
  <2>2. Linked(Notifications, {"BlockedOnNotification"}, [k.tsType EXCEPT ![t] = ts],
               [k.blocking EXCEPT ![t] = b], k.ntfnQueue)
    BY <1>4, <1>5, <2>1, LinkedOther
  <2> QED BY <1>1, <1>2, <1>3, <2>2 DEF NtfnLinked
<1>8. ThreadsInv(k2)
  <2>1. callerSlots(k, t) = {}
    BY NoCaller DEF ObjectsInv
  <2>2. ThreadsInv(k1)
    BY <1>5, <2>1, ThreadsInvRestated DEF ObjectsInv
  <2>3. \A e \in Endpoints : e \notin k2.live => k2.epState[e] = "Idle"
    BY <1>1, <1>2, <1>3, <1>4 DEF ObjectsInv, ThreadsInv, LiveOK, SameObjects
  <2> QED BY <1>2, <2>2, <2>3 DEF ThreadsInv, LiveOK
<1>9. EPKinds(k2.tsType, k2.epQueue, k2.epState)
  <2>1. ToSet(r) = ToSet(k.epQueue[ep]) \cup {t}
    BY <1>4, AppendQueue DEF tcbEPAppend
  <2> HIDE DEF r
  <2>2. SUFFICES ASSUME NEW e \in Endpoints, NEW u \in ToSet(k2.epQueue[e])
                 PROVE  k2.tsType[u] = IF k2.epState[e] = "Send" THEN "BlockedOnSend" ELSE "BlockedOnReceive"
    BY DEF EPKinds
  <2>3. CASE e = ep /\ u = t
    <3>1. k2.epState[e] = epst /\ k2.tsType[u] = ts
      BY <1>1, <1>2, <1>3, <1>4, <2>3
    <3> QED BY <3>1 DEF EPBlocked
  <2>4. CASE e = ep /\ u # t
    <3>1. k2.epQueue[e] = r /\ k2.epState[e] = epst /\ u \in ToSet(k.epQueue[e])
      BY <1>3, <1>4, <2>1, <2>4
    <3>2. u \in Threads
      BY <1>4, <3>1 DEF ToSet
    <3>3. k.epQueue[e] # <<>>
      BY <1>4, <3>1, EmptyQueue
    <3>4. k.epState[e] = epst
      BY <2>4, <3>3 DEF EPStatesOK
    <3>5. k2.tsType[u] = k.tsType[u]
      BY <1>1, <1>2, <1>4, <2>4, <3>2
    <3> QED BY <3>1, <3>4, <3>5 DEF ObjectsInv, EPKinds
  <2>5. CASE e # ep
    <3>1. k2.epQueue[e] = k.epQueue[e] /\ k2.epState[e] = k.epState[e]
      BY <1>3, <1>4, <2>5
    <3>2. u \in Threads
      BY <1>4, <3>1 DEF ToSet
    <3>3. t \notin ToSet(k.epQueue[e])
      BY <1>5 DEF ObjectsInv, EPLinked, Linked
    <3>4. k2.tsType[u] = k.tsType[u]
      BY <1>1, <1>2, <1>4, <3>1, <3>2, <3>3
    <3> QED BY <3>1, <3>4 DEF ObjectsInv, EPKinds
  <2> QED BY <2>3, <2>4, <2>5
<1> QED BY <1>6, <1>7, <1>8, <1>9 DEF ObjectsInv

\* A thread gets in the queue of a notification.
LEMMA ObjectsInvNtfnBlocked ==
  ASSUME NEW k \in KState, ObjectsInv(k), NEW k1 \in KState, NEW k2,
         NEW n \in Notifications, NEW t \in Threads, NEW b \in Blocking,
         n \in k.live, t \in k.live, k.replyMaster[t], b.obj = n,
         k.tsType[t] \notin WaitStates, k.tsType[t] # "BlockedOnReply",
         Restated(k, k1, t, "BlockedOnNotification", b),
         k2 = [k1 EXCEPT !.ntfnState[n] = "Waiting", !.ntfnQueue[n] = tcbEPAppend(t, @)]
  PROVE  ObjectsInv(k2)
<1> DEFINE r  == tcbEPAppend(t, k.ntfnQueue[n])
           ts == "BlockedOnNotification"
<1>1. /\ k1.tsType = [k.tsType EXCEPT ![t] = ts] /\ k1.blocking = [k.blocking EXCEPT ![t] = b]
      /\ SameObjects(k, k1)
  BY DEF Restated, Framed, SameFrame, SameSwitch
<1>2. /\ k2.tsType = k1.tsType /\ k2.blocking = k1.blocking
      /\ k2.epQueue = k1.epQueue /\ k2.epState = k1.epState /\ k2.ntfnBoundTCB = k1.ntfnBoundTCB
      /\ k2.live = k1.live /\ k2.replyCap = k1.replyCap /\ k2.replyMaster = k1.replyMaster
      /\ k2.tcbBoundNotification = k1.tcbBoundNotification
      /\ k2.ntfnQueue = [k1.ntfnQueue EXCEPT ![n] = tcbEPAppend(t, @)]
      /\ k2.ntfnState = [k1.ntfnState EXCEPT ![n] = "Waiting"]
  BY DEF KState
<1>3. /\ k2.ntfnQueue = [k.ntfnQueue EXCEPT ![n] = r] /\ k2.ntfnState = [k.ntfnState EXCEPT ![n] = "Waiting"]
      /\ k2.epQueue = k.epQueue /\ k2.epState = k.epState
  BY <1>1, <1>2 DEF SameObjects
<1>4. /\ k.tsType \in [Threads -> ThreadStates] /\ k.blocking \in [Threads -> Blocking]
      /\ k.epQueue \in [Endpoints -> Seq(Threads)]
      /\ k.ntfnQueue \in [Notifications -> Seq(Threads)] /\ k.ntfnState \in [Notifications -> NtfnStates]
  BY DEF KState
<1>5. /\ k.tsType[t] \notin EPBlocked /\ k.tsType[t] \notin {"BlockedOnNotification"}
      /\ ts \in {"BlockedOnNotification"} /\ ts \in WaitStates /\ ts \notin EPBlocked
      /\ ts # "BlockedOnReceive" /\ ts # "Inactive"
  BY DEF WaitStates, EPBlocked
<1>6. EPLinked(k2.tsType, k2.blocking, k2.epQueue)
  <2>1. Linked(Endpoints, EPBlocked, k.tsType, k.blocking, k.epQueue)
    BY DEF ObjectsInv, EPLinked
  <2>2. Linked(Endpoints, EPBlocked, [k.tsType EXCEPT ![t] = ts], [k.blocking EXCEPT ![t] = b], k.epQueue)
    BY <1>4, <1>5, <2>1, LinkedOther
  <2> QED BY <1>1, <1>2, <1>3, <2>2 DEF EPLinked
<1>7. NtfnLinked(k2.tsType, k2.blocking, k2.ntfnQueue)
  <2>1. Linked(Notifications, {"BlockedOnNotification"}, k.tsType, k.blocking, k.ntfnQueue)
    BY DEF ObjectsInv, NtfnLinked
  <2>2. Linked(Notifications, {"BlockedOnNotification"}, [k.tsType EXCEPT ![t] = ts],
               [k.blocking EXCEPT ![t] = b], [k.ntfnQueue EXCEPT ![n] = r])
    BY <1>4, <1>5, <2>1, LinkedLink
  <2> QED BY <1>1, <1>2, <1>3, <2>2 DEF NtfnLinked
<1>8. ThreadsInv(k2)
  <2>1. callerSlots(k, t) = {}
    BY NoCaller DEF ObjectsInv
  <2>2. ThreadsInv(k1)
    BY <1>5, <2>1, ThreadsInvRestated DEF ObjectsInv
  <2>3. \A m \in Notifications : m \notin k2.live => k2.ntfnState[m] # "Waiting"
    BY <1>1, <1>2, <1>3, <1>4 DEF ObjectsInv, ThreadsInv, LiveOK, SameObjects
  <2> QED BY <1>2, <2>2, <2>3 DEF ThreadsInv, LiveOK
<1>9. EPKinds(k2.tsType, k2.epQueue, k2.epState)
  <2>1. \A e \in Endpoints : t \notin ToSet(k.epQueue[e])
    BY <1>5 DEF ObjectsInv, EPLinked, Linked
  <2>2. \A e \in Endpoints : \A u \in ToSet(k.epQueue[e]) : u \in Threads
    BY <1>4 DEF ToSet
  <2> QED BY <1>1, <1>2, <1>3, <1>4, <2>1, <2>2 DEF ObjectsInv, EPKinds
<1> QED BY <1>6, <1>7, <1>8, <1>9 DEF ObjectsInv

-----------------------------------------------------------------------------
(* Scheduling facts *)

\* The current thread is running, and in no ready queue.
Runs(k) ==
  /\ k.ksCurThread \in Threads
  /\ isRunnable(k, k.ksCurThread)
  /\ ~k.tcbQueued[k.ksCurThread]

\* The scheduler has nothing to do with a thread that is not runnable.
LEMMA StoppedFacts ==
  ASSUME NEW k, SchedInv(k, {}), NEW t \in Threads, ~isRunnable(k, t)
  PROVE  /\ ~k.tcbQueued[t] /\ k.ksSchedulerAction # t
         /\ k.ksSchedulerAction = ResumeCurrentThread => k.ksCurThread # t
BY DEF SchedInv, QueuesInv, SchedulerInv

\* The current thread is not the candidate.
LEMMA RunsFacts ==
  ASSUME NEW k, SchedInv(k, {}), Runs(k)
  PROVE  k.ksSchedulerAction # k.ksCurThread
BY DEF SchedInv, QueuesInv, SchedulerInv, Runs

\* A handler starts with a current thread that runs.
LEMMA EnterRuns ==
  ASSUME NEW k, SchedInv(k, {}), k.ksSchedulerAction = ResumeCurrentThread,
         k.ksCurThread \in Threads
  PROVE  Runs(k)
BY DEF SchedInv, QueuesInv, SchedulerInv, Runs

\* Runs is about scheduling.
LEMMA RunsSame ==
  ASSUME NEW k, NEW k1, Runs(k), SameScheduling(k, k1)
  PROVE  Runs(k1)
BY DEF Runs, SameScheduling, isRunnable

\* The state of another thread is none of the current thread's business.
LEMMA RunsRestated ==
  ASSUME NEW k \in KState, NEW t \in Threads, Runs(k), t # k.ksCurThread, NEW ts, NEW b,
         NEW k1, Restated(k, k1, t, ts, b), ~k1.tcbQueued[k.ksCurThread]
  PROVE  Runs(k1)
<1>1. k.tsType \in [Threads -> ThreadStates]
  BY DEF KState
<1>2. k1.ksCurThread = k.ksCurThread /\ k1.tsType = [k.tsType EXCEPT ![t] = ts]
  BY DEF Restated, Framed, SameFrame
<1> QED BY <1>1, <1>2 DEF Runs, isRunnable

\* setThreadState on another thread.
LEMMA SetStateRuns ==
  ASSUME NEW k \in KState, NEW t \in Threads, Runs(k), t # k.ksCurThread, NEW ts \in ThreadStates
  PROVE  Runs(setThreadState(k, t, ts))
<1>1. Restated(k, setThreadState(k, t, ts), t, ts, NotBlocking)
  BY SetStateEffect DEF StateStored
<1>2. ~setThreadState(k, t, ts).tcbQueued[k.ksCurThread]
  BY DEF setThreadState, scheduleTCB, KState, Runs
<1> QED BY <1>1, <1>2, RunsRestated

\* possibleSwitchTo queues its target or the candidate, not the current thread.
LEMMA SwitchQueued ==
  ASSUME NEW k \in KState, NEW t \in Threads, NEW u \in Threads, t # u,
         k.ksSchedulerAction # u, ~k.tcbQueued[u]
  PROVE  ~possibleSwitchTo(k, t).tcbQueued[u]
<1>1. CASE k.ksCurDomain # k.tcbDomain[t]
  <2>1. tcbSchedEnqueue(k, t).tcbQueued = [k.tcbQueued EXCEPT ![t] = TRUE]
    BY EnqueueEffect
  <2>2. k.tcbQueued \in [Threads -> BOOLEAN]
    BY DEF KState
  <2> QED BY <1>1, <2>1, <2>2 DEF possibleSwitchTo
<1>2. CASE k.ksCurDomain = k.tcbDomain[t] /\ k.ksSchedulerAction # ResumeCurrentThread
  <2> DEFINE k1 == rescheduleRequired(k)
  <2>1. k1 \in KState /\ ~k1.tcbQueued[u]
    BY RescheduleEffect DEF Requeued, Framed
  <2> HIDE DEF k1
  <2>2. tcbSchedEnqueue(k1, t).tcbQueued = [k1.tcbQueued EXCEPT ![t] = TRUE]
    BY <2>1, EnqueueEffect
  <2>3. k1.tcbQueued \in [Threads -> BOOLEAN]
    BY <2>1 DEF KState
  <2> QED BY <1>2, <2>1, <2>2, <2>3 DEF possibleSwitchTo, k1
<1>3. CASE k.ksCurDomain = k.tcbDomain[t] /\ k.ksSchedulerAction = ResumeCurrentThread
  BY <1>3 DEF possibleSwitchTo, KState
<1> QED BY <1>1, <1>2, <1>3

\* Waking another thread.
LEMMA WakeRuns ==
  ASSUME NEW k \in KState, SchedInv(k, {}), NEW t \in Threads, Runs(k), t # k.ksCurThread,
         NEW ts \in RunnableStates
  PROVE  Runs(possibleSwitchTo(setThreadState(k, t, ts), t))
<1> DEFINE k1 == setThreadState(k, t, ts)
           k2 == possibleSwitchTo(k1, t)
<1>1. ts \in ThreadStates
  BY DEF ThreadStates
<1>2. k1 \in KState /\ k1.ksSchedulerAction = k.ksSchedulerAction
  <2>1. StateStored(k, k1, t, ts, NotBlocking)
    BY <1>1, SetStateEffect
  <2> HIDE DEF k1
  <2> QED BY <2>1 DEF StateStored, Restated, Framed
<1>3. k1.ksCurThread = k.ksCurThread /\ Runs(k1)
  BY <1>1, SetStateEffect, SetStateRuns, ZenonT(40) DEF StateStored, Restated, Framed, SameFrame
<1>4. k.ksCurThread \in Threads /\ ~k1.tcbQueued[k.ksCurThread]
  BY <1>3 DEF Runs
<1>5. k1.ksSchedulerAction # k.ksCurThread
  BY <1>2, RunsFacts
<1>6. ~k2.tcbQueued[k.ksCurThread]
  <2> HIDE DEF k1
  <2> QED BY <1>2, <1>4, <1>5, SwitchQueued
<1>7. Restated(k, k2, t, ts, NotBlocking)
  <2>1. t # k.ksCurThread
    OBVIOUS
  <2> QED BY <2>1, WakeInv
<1> QED BY <1>6, <1>7, RunsRestated

-----------------------------------------------------------------------------
(* A thread leaves a wait queue *)

\* k1 is k after t has been taken off the queue it waits in.
Dequeued(k, k1, t) ==
  \/ k.tsType[t] \in EPBlocked /\ EPDequeued(k, k1, k.blocking[t].obj, t)
  \/ k.tsType[t] = "BlockedOnNotification" /\ NtfnDequeued(k, k1, k.blocking[t].obj, t)

\* k2 is k1 with t in state ts, out of every queue.
Released(k, k1, k2, t, ts) ==
  /\ Restated(k1, k2, t, ts, NotBlocking)
  /\ Consistent(k2)
  /\ k2.live = k.live
  /\ k2.replyCap = k.replyCap /\ k2.replyMaster = k.replyMaster
  /\ k2.tsType = [k.tsType EXCEPT ![t] = ts]
  /\ k2.ksCurThread = k.ksCurThread

\* What a Dequeued step leaves alone.
LEMMA DequeuedFacts ==
  ASSUME NEW k, NEW k1, NEW t, Dequeued(k, k1, t)
  PROVE  /\ SameBase(k, k1) /\ SameReplies(k, k1)
         /\ k.tsType[t] \in WaitStates /\ ~isRunnable(k, t)
BY DEF Dequeued, EPDequeued, NtfnDequeued, WaitStates, EPBlocked, isRunnable, RunnableStates

\* A thread released from its queue waits for nothing.
LEMMA ObjectsInvReleased ==
  ASSUME NEW k \in KState, ObjectsInv(k), NEW k1 \in KState, NEW k2, NEW t \in Threads, NEW ts,
         ts \notin WaitStates, Dequeued(k, k1, t), Restated(k1, k2, t, ts, NotBlocking)
  PROVE  ObjectsInv(k2)
<1>1. CASE k.tsType[t] \in EPBlocked /\ EPDequeued(k, k1, k.blocking[t].obj, t)
  <2>1. k.blocking[t].obj \in Endpoints
    BY <1>1 DEF ObjectsInv, ThreadsInv, BlockingOK
  <2> QED BY <1>1, <2>1, ObjectsInvEPReleased
<1>2. CASE k.tsType[t] = "BlockedOnNotification" /\ NtfnDequeued(k, k1, k.blocking[t].obj, t)
  <2>1. k.blocking[t].obj \in Notifications
    BY <1>2 DEF ObjectsInv, ThreadsInv, BlockingOK
  <2> QED BY <1>2, <2>1, ObjectsInvNtfnReleased
<1> QED BY <1>1, <1>2 DEF Dequeued

\* What follows from the new state of the released thread.
LEMMA ReleasedIntro ==
  ASSUME NEW k \in KState, Consistent(k), NEW k1 \in KState, NEW k2, NEW t \in Threads, NEW ts,
         ts \notin WaitStates, Dequeued(k, k1, t), Restated(k1, k2, t, ts, NotBlocking),
         SchedInv(k2, {})
  PROVE  Released(k, k1, k2, t, ts)
<1>1. SameBase(k, k1) /\ SameReplies(k, k1)
  BY DequeuedFacts
<1>2. ObjectsInv(k2)
  BY ObjectsInvReleased DEF Consistent
<1>3. SameObjects(k1, k2) /\ k2.asserts = k1.asserts /\ k2.ksCurThread = k1.ksCurThread
      /\ k2.tsType = [k1.tsType EXCEPT ![t] = ts]
  BY DEF Restated, Framed, SameFrame, SameSwitch
<1>4. Consistent(k2)
  BY <1>1, <1>2, <1>3 DEF Consistent, SameBase
<1> QED BY <1>1, <1>3, <1>4 DEF Released, SameBase, SameReplies, SameScheduling, SameObjects

\* A released thread is woken.
LEMMA WakeReleased ==
  ASSUME NEW k \in KState, Consistent(k), NEW k1 \in KState, NEW t \in Threads,
         NEW ts \in RunnableStates, Dequeued(k, k1, t)
  PROVE  LET k2 == possibleSwitchTo(setThreadState(k1, t, ts), t)
         IN  Released(k, k1, k2, t, ts) /\ (Runs(k) => Runs(k2))
<1> DEFINE k2 == possibleSwitchTo(setThreadState(k1, t, ts), t)
<1>1. SameBase(k, k1) /\ ~isRunnable(k, t) /\ ts \notin WaitStates
  BY DequeuedFacts DEF RunnableStates, WaitStates, EPBlocked
<1>2. SchedInv(k1, {}) /\ ~isRunnable(k1, t)
  BY <1>1, SchedInvSame DEF Consistent, SameBase, SameScheduling, isRunnable
<1>3. k1.ksSchedulerAction = ResumeCurrentThread => k1.ksCurThread # t
  BY <1>2, StoppedFacts
<1>4. Restated(k1, k2, t, ts, NotBlocking) /\ SchedInv(k2, {})
  BY <1>2, <1>3, WakeInv
<1>5. Runs(k) => Runs(k2)
  <2>1. ASSUME Runs(k) PROVE Runs(k2)
    <3>1. Runs(k1)
      BY <1>1, <2>1, RunsSame DEF SameBase
    <3>2. t # k1.ksCurThread
      BY <1>2, <3>1 DEF Runs
    <3> QED BY <1>2, <3>1, <3>2, WakeRuns
  <2> QED BY <2>1
<1> HIDE DEF k2
<1>6. Released(k, k1, k2, t, ts)
  BY <1>1, <1>4, ReleasedIntro
<1> QED BY <1>5, <1>6 DEF k2

\* A released thread is left waiting for a reply, or inactive.
LEMMA StopReleased ==
  ASSUME NEW k \in KState, Consistent(k), NEW k1 \in KState, NEW t \in Threads,
         NEW ts \in {"BlockedOnReply", "Inactive"}, Dequeued(k, k1, t)
  PROVE  LET k2 == setThreadState(k1, t, ts)
         IN  /\ Released(k, k1, k2, t, ts) /\ (Runs(k) => Runs(k2))
             /\ k2.ksSchedulerAction \in {k.ksSchedulerAction, ChooseNewThread}
<1> DEFINE k2 == setThreadState(k1, t, ts)
<1>1. SameBase(k, k1) /\ ~isRunnable(k, t) /\ ts \notin WaitStates
  BY DequeuedFacts DEF WaitStates, EPBlocked
<1>2. SchedInv(k1, {}) /\ ~isRunnable(k1, t) /\ k1.ksSchedulerAction = k.ksSchedulerAction
  BY <1>1, SchedInvSame DEF Consistent, SameBase, SameScheduling, isRunnable
<1>3. ts \in ThreadStates /\ ts \notin RunnableStates
  BY DEF ThreadStates, StoppedStates, RunnableStates
<1>4. Restated(k1, k2, t, ts, NotBlocking) /\ SchedInv(k2, {})
  BY <1>2, <1>3, SetStateInv
<1>5. k2.ksSchedulerAction \in {k.ksSchedulerAction, ChooseNewThread}
  <2>1. StateStored(k1, k2, t, ts, NotBlocking)
    BY <1>3, SetStateEffect
  <2> HIDE DEF k2
  <2> QED BY <1>2, <2>1 DEF StateStored
<1>6. Runs(k) => Runs(k2)
  <2>1. ASSUME Runs(k) PROVE Runs(k2)
    <3>1. Runs(k1)
      BY <1>1, <2>1, RunsSame DEF SameBase
    <3>2. t # k1.ksCurThread
      BY <1>2, <3>1 DEF Runs
    <3> QED BY <1>3, <3>1, <3>2, SetStateRuns
  <2> QED BY <2>1
<1> HIDE DEF k2
<1>7. Released(k, k1, k2, t, ts)
  BY <1>1, <1>4, ReleasedIntro
<1> QED BY <1>5, <1>6, <1>7 DEF k2

-----------------------------------------------------------------------------
(* Thread states and reply caps *)

\* A thread in no wait queue gets a state that is no wait in one.
LEMMA ConsistentRestated ==
  ASSUME NEW k \in KState, Consistent(k), NEW k1, NEW t \in Threads, NEW ts,
         Restated(k, k1, t, ts, NotBlocking), SchedInv(k1, {}), t \in k.live \/ ts = "Inactive",
         k.tsType[t] \notin WaitStates, ts \notin WaitStates,
         callerSlots(k, t) = {} \/ ts = "BlockedOnReply",
         ts # "Inactive" => k.replyMaster[t]
  PROVE  Consistent(k1)
<1>1. ObjectsInv(k1)
  BY ObjectsInvRestated DEF Consistent
<1> QED BY <1>1 DEF Consistent, Restated

\* What is known of a thread that is not inactive.
LEMMA ActiveFacts ==
  ASSUME NEW k, Consistent(k), NEW t \in Threads, k.tsType[t] # "Inactive"
  PROVE  t \in k.live /\ k.replyMaster[t]
BY DEF Consistent, ObjectsInv, ThreadsInv, LiveOK, RepliesOK

\* What is known of the current thread when it runs.
LEMMA RunningFacts ==
  ASSUME NEW k, Consistent(k), NEW t \in Threads, isRunnable(k, t)
  PROVE  /\ t \in k.live /\ k.replyMaster[t]
         /\ k.tsType[t] \notin WaitStates /\ k.tsType[t] # "BlockedOnReply"
         /\ k.tsType[t] # "BlockedOnReceive"
         /\ callerSlots(k, t) = {}
<1>1. /\ k.tsType[t] \notin WaitStates /\ k.tsType[t] # "BlockedOnReply"
      /\ k.tsType[t] # "BlockedOnReceive" /\ k.tsType[t] # "Inactive"
  BY DEF isRunnable, RunnableStates, WaitStates, EPBlocked
<1> QED BY <1>1, ActiveFacts, NoCaller DEF Consistent, ObjectsInv

\* cteDeleteOne on a slot that may hold a reply cap.
LEMMA DeleteOneInv ==
  ASSUME NEW k \in KState, Consistent(k), NEW slot \in ReplySlots
  PROVE  LET k1 == cteDeleteOne(k, slot)
         IN  /\ Consistent(k1) /\ k1 \in KState /\ SameBase(k, k1)
             /\ SameEPs(k, k1) /\ SameNtfns(k, k1)
             /\ k1.replyMaster = k.replyMaster /\ k1.tcbFault = k.tcbFault
             /\ k1.replyCap = [k.replyCap EXCEPT ![slot] = Null]
             /\ \A t \in Threads : (k.replyCap[slot] = t \/ callerSlots(k, t) = {}) => callerSlots(k1, t) = {}
<1> DEFINE k1 == cteDeleteOne(k, slot)
<1>1. /\ k1 \in KState /\ SameBase(k, k1) /\ SameEPs(k, k1) /\ SameNtfns(k, k1)
      /\ k1.replyMaster = k.replyMaster /\ k1.tcbFault = k.tcbFault
      /\ k1.replyCap = [k.replyCap EXCEPT ![slot] = Null]
  BY DEF KState, cteDeleteOne, SameBase, SameScheduling, SameEPs, SameNtfns
<1> HIDE DEF k1
<1>2. k.replyCap \in [ReplySlots -> Threads \cup {Null}]
  BY DEF KState
<1>3. k1.replyCap[slot] = Null /\ \A s \in ReplySlots \ {slot} : k1.replyCap[s] = k.replyCap[s]
  BY <1>1, <1>2
<1>4. SchedInv(k1, {}) /\ k1.asserts /\ k1.tsType = k.tsType
  BY <1>1, SchedInvSame DEF Consistent, SameBase, SameScheduling
<1>5. RepliesOK(k.tsType, k.replyCap, k.replyMaster)
  BY DEF Consistent, ObjectsInv, ThreadsInv
<1>6. Threads \subseteq ReplySlots
  BY DEF ReplySlots
<1>7. RepliesOK(k1.tsType, k1.replyCap, k1.replyMaster)
  BY <1>1, <1>3, <1>4, <1>5, <1>6 DEF RepliesOK
<1>8. LiveOK(k1)
  BY <1>1, <1>3, <1>6 DEF Consistent, ObjectsInv, ThreadsInv, LiveOK, SameBase, SameScheduling,
     SameEPs, SameNtfns
<1>9. ObjectsInv(k1)
  BY <1>1, <1>7, <1>8 DEF Consistent, ObjectsInv, ThreadsInv, SameBase, SameScheduling, SameEPs, SameNtfns
<1>10. \A t \in Threads : (k.replyCap[slot] = t \/ callerSlots(k, t) = {}) => callerSlots(k1, t) = {}
  <2>1. Null \notin Threads
    OBVIOUS
  <2> QED BY <1>3, <1>5, <2>1 DEF callerSlots, RepliesOK
<1> QED BY <1>1, <1>4, <1>9, <1>10 DEF Consistent, k1

\* The reply cap of a thread that waits for a reply is put in an empty caller slot.
LEMMA CallerCapInv ==
  ASSUME NEW k \in KState, Consistent(k), NEW sender \in Threads, NEW receiver \in Threads,
         k.tsType[sender] = "BlockedOnReply", callerSlots(k, sender) = {},
         k.replyCap[receiver] = Null, k.tsType[receiver] # "BlockedOnReceive",
         receiver \in k.live
  PROVE  Consistent([k EXCEPT !.replyCap[receiver] = sender])
<1> DEFINE k1 == [k EXCEPT !.replyCap[receiver] = sender]
<1>1. /\ SameBase(k, k1) /\ SameEPs(k, k1) /\ SameNtfns(k, k1)
      /\ k1.replyMaster = k.replyMaster /\ k1.replyCap = [k.replyCap EXCEPT ![receiver] = sender]
  BY DEF KState, SameBase, SameScheduling, SameEPs, SameNtfns
<1> HIDE DEF k1
<1>2. k.replyCap \in [ReplySlots -> Threads \cup {Null}] /\ Threads \subseteq ReplySlots
  BY DEF KState, ReplySlots
<1>3. k1.replyCap[receiver] = sender /\ \A s \in ReplySlots \ {receiver} : k1.replyCap[s] = k.replyCap[s]
  BY <1>1, <1>2
<1>4. SchedInv(k1, {}) /\ k1.asserts /\ k1.tsType = k.tsType
  BY <1>1, SchedInvSame DEF Consistent, SameBase, SameScheduling
<1>5. RepliesOK(k.tsType, k.replyCap, k.replyMaster)
  BY DEF Consistent, ObjectsInv, ThreadsInv
<1>6. \A s \in ReplySlots : k.replyCap[s] # sender
  BY DEF callerSlots
<1>7. RepliesOK(k1.tsType, k1.replyCap, k1.replyMaster)
  <2>1. \A s \in ReplySlots : k1.replyCap[s] # Null => k1.tsType[k1.replyCap[s]] = "BlockedOnReply"
    BY <1>3, <1>4, <1>5 DEF RepliesOK
  <2>2. \A s1, s2 \in ReplySlots : k1.replyCap[s1] = k1.replyCap[s2] /\ k1.replyCap[s1] # Null => s1 = s2
    BY <1>3, <1>5, <1>6 DEF RepliesOK
  <2>3. \A t \in Threads : k1.tsType[t] = "BlockedOnReceive" => k1.replyCap[t] = Null
    BY <1>2, <1>3, <1>4, <1>5 DEF RepliesOK
  <2> QED BY <1>1, <1>4, <1>5, <2>1, <2>2, <2>3 DEF RepliesOK
<1>8. LiveOK(k1)
  BY <1>1, <1>2, <1>3 DEF Consistent, ObjectsInv, ThreadsInv, LiveOK, SameBase, SameScheduling,
     SameEPs, SameNtfns
<1>9. ObjectsInv(k1)
  BY <1>1, <1>7, <1>8 DEF Consistent, ObjectsInv, ThreadsInv, SameBase, SameScheduling, SameEPs, SameNtfns
<1> QED BY <1>4, <1>9 DEF Consistent, k1

\* setupCallerCap, from the state it has put the sender in.
LEMMA SetupCallerCapInv ==
  ASSUME NEW k, NEW sender \in Threads, NEW receiver \in Threads,
         NEW k1, k1 = setThreadState(k, sender, "BlockedOnReply"), k1 \in KState, Consistent(k1),
         k1.tsType[sender] = "BlockedOnReply", callerSlots(k1, sender) = {},
         k1.replyCap[receiver] = Null, k1.tsType[receiver] # "BlockedOnReceive",
         receiver \in k1.live
  PROVE  Consistent(setupCallerCap(k, sender, receiver))
<1>1. k1.replyMaster[sender]
  BY ActiveFacts
<1>2. Assert_(k1, k1.replyMaster[sender] /\ k1.replyCap[receiver] = Null) = k1
  BY <1>1, AssertHolds DEF Consistent
<1>3. setupCallerCap(k, sender, receiver) = [k1 EXCEPT !.replyCap[receiver] = sender]
  BY <1>2 DEF setupCallerCap
<1>4. Consistent([k1 EXCEPT !.replyCap[receiver] = sender])
  BY CallerCapInv
<1> QED BY <1>3, <1>4

-----------------------------------------------------------------------------
(* Endpoints *)

\* The first thread in the queue of an endpoint waits there for what the state
\* of the endpoint says.
LEMMA EPHeadFacts ==
  ASSUME NEW k, KernelOK(k), NEW ep \in Endpoints, k.epState[ep] # "Idle"
  PROVE  LET t == Head(k.epQueue[ep])
         IN  /\ k.epQueue[ep] # <<>> /\ t \in Threads
             /\ k.tsType[t] \in EPBlocked /\ k.blocking[t].obj = ep
             /\ k.tsType[t] = IF k.epState[ep] = "Send" THEN "BlockedOnSend" ELSE "BlockedOnReceive"
<1> DEFINE t == Head(k.epQueue[ep])
<1>1. k.epQueue[ep] \in Seq(Threads) /\ k.epQueue[ep] # <<>>
  BY DEF KernelOK, OK, KState, ObjectsOK, EPStatesOK
<1>2. t \in ToSet(k.epQueue[ep]) /\ t \in Threads
  BY <1>1, HeadTailQueue
<1> HIDE DEF t
<1>3. k.tsType[t] \in EPBlocked /\ k.blocking[t].obj = ep
  BY <1>2 DEF KernelOK, Consistent, ObjectsInv, EPLinked, Linked
<1>4. k.tsType[t] = IF k.epState[ep] = "Send" THEN "BlockedOnSend" ELSE "BlockedOnReceive"
  BY <1>2 DEF KernelOK, Consistent, ObjectsInv, EPKinds
<1> QED BY <1>1, <1>2, <1>3, <1>4 DEF t

\* The partner of a transfer is off the queue.
LEMMA TransferDequeued ==
  ASSUME NEW k, KernelOK(k), NEW ep \in Endpoints, k.epState[ep] # "Idle", NEW x, NEW y \in BOOLEAN
  PROVE  LET t  == Head(k.epQueue[ep])
             k2 == doIPCTransfer(epDequeue(Assert_(k, k.epQueue[ep] # <<>>), ep, t), x, y)
         IN  k2 \in KState /\ Dequeued(k, k2, t)
<1> DEFINE t  == Head(k.epQueue[ep])
           k1 == epDequeue(k, ep, t)
           k2 == doIPCTransfer(k1, x, y)
<1>1. k.epQueue[ep] # <<>> /\ t \in Threads /\ k.tsType[t] \in EPBlocked /\ k.blocking[t].obj = ep
  BY EPHeadFacts
<1>2. k \in KState /\ k.asserts
  BY DEF KernelOK, OK, Consistent
<1>3. Assert_(k, k.epQueue[ep] # <<>>) = k
  BY <1>1, <1>2, AssertHolds
<1> HIDE DEF t
<1>4. OK(k1)
  BY <1>1, KeptEPDequeue DEF Kept, KernelOK
<1>5. EPDequeued(k, k2, ep, t)
  BY <1>1, <1>2, EPDequeueEffect
<1> HIDE DEF k1
<1>6. k2 \in KState
  BY <1>4, KeptTransfer DEF Kept, OK
<1> HIDE DEF k2
<1>7. Dequeued(k, k2, t)
  BY <1>1, <1>5 DEF Dequeued
<1> QED BY <1>3, <1>6, <1>7 DEF t, k1, k2

\* epBlock of the current thread.
LEMMA EPBlockInv ==
  ASSUME NEW k, KernelOK(k), Runs(k), NEW ep \in Endpoints, ep \in k.live,
         NEW ts \in EPBlocked, NEW b \in Blocking, b.obj = ep,
         NEW epst, epst = (IF ts = "BlockedOnSend" THEN "Send" ELSE "Recv"),
         k.epState[ep] \in {"Idle", epst},
         ts = "BlockedOnReceive" => k.replyCap[k.ksCurThread] = Null
  PROVE  Consistent(epBlock(k, ep, k.ksCurThread, ts, epst, b))
<1> DEFINE t  == k.ksCurThread
           k1 == scheduleTCB([k EXCEPT !.tsType[t] = ts, !.blocking[t] = b], t)
           k2 == [k1 EXCEPT !.epQueue[ep] = tcbEPAppend(t, @), !.epState[ep] = epst]
<1>1. k \in KState /\ SchedInv(k, {}) /\ ObjectsInv(k) /\ EPStatesOK(k) /\ Consistent(k)
  BY DEF KernelOK, OK, ObjectsOK, Consistent
<1>2. t \in Threads /\ ~k.tcbQueued[t] /\ k.ksSchedulerAction # t /\ isRunnable(k, t)
  BY <1>1, RunsFacts DEF Runs
<1>3. ts \in ThreadStates /\ ts \notin RunnableStates
  BY DEF EPBlocked, ThreadStates, StoppedStates, RunnableStates
<1> HIDE DEF t
<1>4. Restated(k, k1, t, ts, b) /\ SchedInv(k1, {})
  BY <1>1, <1>2, <1>3, BlockInv
<1> HIDE DEF k1
<1>5. k1 \in KState /\ k1.asserts
  BY <1>1, <1>4 DEF Restated, Framed, Consistent
<1>6. SameScheduling(k1, k2) /\ k2.asserts = k1.asserts
  BY <1>5 DEF KState, SameScheduling
<1>7. SchedInv(k2, {})
  BY <1>4, <1>6, SchedInvSame
<1>8. /\ t \in k.live /\ k.replyMaster[t] /\ k.tsType[t] \notin WaitStates
      /\ k.tsType[t] # "BlockedOnReply"
  BY <1>1, <1>2, RunningFacts
<1>9. ts = "BlockedOnReceive" => k.replyCap[t] = Null
  BY DEF t
<1>10. ObjectsInv(k2)
  BY <1>1, <1>2, <1>4, <1>5, <1>8, <1>9, ObjectsInvEPBlocked
<1>11. Consistent(k2)
  BY <1>5, <1>6, <1>7, <1>10 DEF Consistent
<1> QED BY <1>11 DEF epBlock, k1, t

\* sendIPC by the current thread.
LEMMA SendIPCInv ==
  ASSUME NEW k, KernelOK(k), Runs(k), NEW ep \in Endpoints, ep \in k.live,
         NEW blocking, NEW do_call \in BOOLEAN, NEW badge \in Badges, NEW canReply \in BOOLEAN
  PROVE  Consistent(sendIPC(k, blocking, do_call, badge, canReply, k.ksCurThread, ep))
<1> DEFINE thread == k.ksCurThread
           dest == Head(k.epQueue[ep])
           k0   == Assert_(k, k.epQueue[ep] # <<>>)
           k1   == epDequeue(k0, ep, dest)
           k2   == doIPCTransfer(k1, thread, do_call)
           k3   == possibleSwitchTo(setThreadState(k2, dest, "Running"), dest)
           info == [obj |-> ep, badge |-> badge, canReply |-> canReply, isCall |-> do_call]
<1>0. k \in KState /\ Consistent(k) /\ thread \in Threads /\ isRunnable(k, thread)
  BY DEF KernelOK, OK, Runs
<1>1. CASE k.epState[ep] = "Recv"
  <2>1. dest \in Threads /\ k.tsType[dest] = "BlockedOnReceive"
    BY <1>1, EPHeadFacts
  <2>2. k2 \in KState /\ Dequeued(k, k2, dest)
    BY <1>1, TransferDequeued
  <2> HIDE DEF dest, k2
  <2>3. Released(k, k2, k3, dest, "Running") /\ Runs(k3)
    BY <1>0, <2>1, <2>2, WakeReleased DEF RunnableStates
  <2> HIDE DEF k3
  <2>4. /\ k3 \in KState /\ Consistent(k3) /\ k3.ksCurThread = thread
        /\ k3.replyCap = k.replyCap /\ k3.live = k.live
        /\ k3.tsType = [k.tsType EXCEPT ![dest] = "Running"]
    BY <2>3 DEF Released, Restated, Framed
  <2>5. ~k3.tcbQueued[thread] /\ k3.ksSchedulerAction # thread /\ isRunnable(k3, thread)
    BY <2>3, <2>4, RunsFacts DEF Consistent, Runs
  <2>6. /\ thread \in k3.live /\ k3.replyMaster[thread] /\ k3.tsType[thread] \notin WaitStates
        /\ callerSlots(k3, thread) = {}
    BY <1>0, <2>4, <2>5, RunningFacts
  <2>7. ASSUME NEW ts \in {"BlockedOnReply", "Inactive"}
        PROVE  /\ Consistent(setThreadState(k3, thread, ts))
               /\ Restated(k3, setThreadState(k3, thread, ts), thread, ts, NotBlocking)
    <3>1. ts \in ThreadStates /\ ts \notin RunnableStates /\ ts \notin WaitStates
      BY DEF ThreadStates, StoppedStates, RunnableStates, WaitStates, EPBlocked
    <3>2. NotBlocking \in Blocking
      BY DEF NotBlocking, Blocking
    <3>3. SchedInv(k3, {})
      BY <2>4 DEF Consistent
    <3>4. LET k4 == setThreadState(k3, thread, ts)
          IN  Restated(k3, k4, thread, ts, NotBlocking) /\ SchedInv(k4, {})
      BY <1>0, <2>4, <2>5, <3>1, <3>2, <3>3, BlockInv DEF setThreadState
    <3> HIDE DEF thread
    <3> QED BY <1>0, <2>4, <2>6, <3>1, <3>4, ConsistentRestated
  <2>8. Consistent(setupCallerCap(k3, thread, dest))
    <3> DEFINE k4 == setThreadState(k3, thread, "BlockedOnReply")
    <3>1. Consistent(k4) /\ Restated(k3, k4, thread, "BlockedOnReply", NotBlocking)
      BY <2>7
    <3> HIDE DEF thread
    <3>2. /\ k4 \in KState /\ k4.tsType = [k3.tsType EXCEPT ![thread] = "BlockedOnReply"]
          /\ k4.replyCap = k3.replyCap /\ k4.live = k3.live
      BY <3>1 DEF Restated, Framed, SameFrame, SameSwitch, SameObjects
    <3>3. k.tsType \in [Threads -> ThreadStates] /\ thread # dest
      BY <1>0, <2>1 DEF KState, isRunnable, RunnableStates
    <3>4. k4.tsType[thread] = "BlockedOnReply" /\ k4.tsType[dest] = "Running"
      BY <1>0, <2>1, <2>4, <3>2, <3>3
    <3>5. callerSlots(k4, thread) = {}
      BY <2>6, <3>2 DEF callerSlots
    <3>6. k.replyCap[dest] = Null /\ dest \in k.live
      BY <1>0, <2>1 DEF Consistent, ObjectsInv, ThreadsInv, RepliesOK, LiveOK
    <3> HIDE DEF k4
    <3>7. k4 = setThreadState(k3, thread, "BlockedOnReply")
      BY DEF k4
    <3> QED BY <1>0, <2>1, <2>4, <3>1, <3>2, <3>4, <3>5, <3>6, <3>7, SetupCallerCapInv
  <2>9. Consistent(setThreadState(k3, thread, "Inactive"))
    BY <2>7
  <2> QED BY <1>1, <2>4, <2>8, <2>9 DEF sendIPC, k3, k2, dest
<1>2. CASE k.epState[ep] # "Recv"
  <2>1. info \in Blocking /\ info.obj = ep
    BY DEF Blocking
  <2>2. k.epState[ep] \in {"Idle", "Send"}
    BY <1>0, <1>2 DEF KState, EPStates
  <2> HIDE DEF info
  <2>3. Consistent(epBlock(k, ep, thread, "BlockedOnSend", "Send", info))
    BY <2>1, <2>2, EPBlockInv DEF EPBlocked
  <2> QED BY <1>0, <1>2, <2>3 DEF sendIPC, info
<1> QED BY <1>1, <1>2

-----------------------------------------------------------------------------
(* Receiving *)

\* A notification that nobody waits for changes state.
LEMMA NtfnStateInv ==
  ASSUME NEW k \in KState, Consistent(k), NEW k1, NEW n \in Notifications, NEW st, st # "Waiting",
         SameBase(k, k1), SameEPs(k, k1), SameReplies(k, k1), k1.ntfnQueue = k.ntfnQueue,
         k1.ntfnState = [k.ntfnState EXCEPT ![n] = st]
  PROVE  Consistent(k1)
<1>1. k.ntfnState \in [Notifications -> NtfnStates]
  BY DEF KState
<1>2. SchedInv(k1, {})
  BY SchedInvSame DEF Consistent, SameBase
<1>3. \A m \in Notifications : m \notin k1.live => k1.ntfnState[m] # "Waiting"
  BY <1>1 DEF Consistent, ObjectsInv, ThreadsInv, LiveOK, SameBase
<1>4. ObjectsInv(k1)
  BY <1>3 DEF Consistent, ObjectsInv, ThreadsInv, LiveOK, SameBase, SameEPs, SameReplies, SameScheduling
<1> QED BY <1>2, <1>4 DEF Consistent, SameBase

\* completeSignal, and the other places that take the signal of a notification.
LEMMA CompleteSignalInv ==
  ASSUME NEW k \in KState, Consistent(k), NEW n \in Notifications, k.ntfnState[n] = "Active"
  PROVE  /\ Consistent([k EXCEPT !.ntfnState[n] = "Idle"])
         /\ Consistent(completeSignal(k, n))
<1> DEFINE k1 == [k EXCEPT !.ntfnState[n] = "Idle"]
<1>1. /\ SameBase(k, k1) /\ SameEPs(k, k1) /\ SameReplies(k, k1)
      /\ k1.ntfnQueue = k.ntfnQueue /\ k1.ntfnState = [k.ntfnState EXCEPT ![n] = "Idle"]
  BY DEF KState, SameBase, SameEPs, SameReplies, SameScheduling
<1> HIDE DEF k1
<1>2. Consistent(k1)
  BY <1>1, NtfnStateInv
<1>3. Assert_(k, k.ntfnState[n] = "Active") = k
  BY AssertHolds DEF Consistent
<1> QED BY <1>2, <1>3 DEF completeSignal, k1

\* receiveIPC by the current thread, whose caller slot is empty.
LEMMA ReceiveIPCInv ==
  ASSUME NEW k, KernelOK(k), Runs(k), NEW ep \in Endpoints, ep \in k.live, NEW isBlocking,
         k.replyCap[k.ksCurThread] = Null
  PROVE  Consistent(receiveIPC(k, k.ksCurThread, ep, isBlocking))
<1> DEFINE thread == k.ksCurThread
           ntfn   == k.tcbBoundNotification[thread]
           sender == Head(k.epQueue[ep])
           info   == k.blocking[sender]
           k0     == Assert_(k, k.epQueue[ep] # <<>>)
           k1     == epDequeue(k0, ep, sender)
           k2     == doIPCTransfer(k1, sender, info.isCall)
<1>0. k \in KState /\ Consistent(k) /\ thread \in Threads /\ isRunnable(k, thread)
  BY DEF KernelOK, OK, Runs
<1>1. CASE ntfn # Null /\ k.ntfnState[ntfn] = "Active"
  <2>1. ntfn \in Notifications
    BY <1>0, <1>1 DEF KState
  <2> QED BY <1>0, <1>1, <2>1, CompleteSignalInv DEF receiveIPC
<1>2. CASE ~(ntfn # Null /\ k.ntfnState[ntfn] = "Active") /\ k.epState[ep] = "Send"
  <2>1. sender \in Threads /\ k.tsType[sender] = "BlockedOnSend"
    BY <1>2, EPHeadFacts
  <2>2. info.isCall \in BOOLEAN
    BY <1>0, <2>1 DEF KState, Blocking
  <2>3. k2 \in KState /\ Dequeued(k, k2, sender)
    BY <1>2, <2>2, TransferDequeued
  <2> HIDE DEF sender, k2
  <2>4. Consistent(possibleSwitchTo(setThreadState(k2, sender, "Running"), sender))
    BY <1>0, <2>1, <2>3, WakeReleased DEF Released, RunnableStates
  <2>5. Consistent(setThreadState(k2, sender, "Inactive"))
    BY <1>0, <2>1, <2>3, StopReleased DEF Released
  <2>6. Consistent(setupCallerCap(k2, sender, thread))
    <3> DEFINE k3 == setThreadState(k2, sender, "BlockedOnReply")
    <3>1. Released(k, k2, k3, sender, "BlockedOnReply")
      BY <1>0, <2>1, <2>3, StopReleased
    <3>2. k3 = setThreadState(k2, sender, "BlockedOnReply")
      OBVIOUS
    <3> HIDE DEF k3, thread
    <3>3. /\ k3 \in KState /\ Consistent(k3) /\ k3.live = k.live /\ k3.replyCap = k.replyCap
          /\ k3.tsType = [k.tsType EXCEPT ![sender] = "BlockedOnReply"]
      BY <3>1 DEF Released, Restated, Framed
    <3>4. k.tsType \in [Threads -> ThreadStates]
      BY <1>0 DEF KState
    <3>5. thread \in k.live /\ k.tsType[thread] # "BlockedOnReceive"
      BY <1>0, RunningFacts
    <3>6. callerSlots(k, sender) = {}
      BY <1>0, <2>1, NoCaller DEF Consistent, ObjectsInv
    <3>7. callerSlots(k3, sender) = {}
      BY <3>3, <3>6 DEF callerSlots
    <3>8. k3.tsType[sender] = "BlockedOnReply" /\ k3.tsType[thread] # "BlockedOnReceive"
      BY <1>0, <2>1, <3>3, <3>4, <3>5
    <3>9. k3.replyCap[thread] = Null /\ thread \in k3.live
      BY <3>3, <3>5 DEF thread
    <3> QED BY <1>0, <2>1, <3>2, <3>3, <3>7, <3>8, <3>9, SetupCallerCapInv
  <2> QED BY <1>2, <2>4, <2>5, <2>6 DEF receiveIPC, k2, sender
<1>3. CASE ~(ntfn # Null /\ k.ntfnState[ntfn] = "Active") /\ k.epState[ep] # "Send"
  <2> DEFINE b == [NotBlocking EXCEPT !.obj = ep]
  <2>1. b \in Blocking /\ b.obj = ep
    BY DEF Blocking, NotBlocking
  <2>2. k.epState[ep] \in {"Idle", "Recv"}
    BY <1>0, <1>3 DEF KState, EPStates
  <2> HIDE DEF b
  <2>3. Consistent(epBlock(k, ep, thread, "BlockedOnReceive", "Recv", b))
    BY <2>1, <2>2, EPBlockInv DEF EPBlocked
  <2> QED BY <1>0, <1>3, <2>3 DEF receiveIPC, b
<1> QED BY <1>1, <1>2, <1>3

\* receiveSignal by the current thread.
LEMMA ReceiveSignalInv ==
  ASSUME NEW k, KernelOK(k), Runs(k), NEW n \in Notifications, n \in k.live, NEW isBlocking
  PROVE  Consistent(receiveSignal(k, k.ksCurThread, n, isBlocking))
<1> DEFINE t  == k.ksCurThread
           b  == [NotBlocking EXCEPT !.obj = n]
           k1 == scheduleTCB([k EXCEPT !.tsType[t] = "BlockedOnNotification", !.blocking[t] = b], t)
           k2 == [k1 EXCEPT !.ntfnState[n] = "Waiting", !.ntfnQueue[n] = tcbEPAppend(t, @)]
<1>1. k \in KState /\ SchedInv(k, {}) /\ ObjectsInv(k) /\ Consistent(k)
  BY DEF KernelOK, OK, Consistent
<1>2. t \in Threads /\ ~k.tcbQueued[t] /\ k.ksSchedulerAction # t /\ isRunnable(k, t)
  BY <1>1, RunsFacts DEF Runs
<1>3. b \in Blocking /\ b.obj = n
  BY DEF Blocking, NotBlocking
<1> HIDE DEF t, b
<1>4. Restated(k, k1, t, "BlockedOnNotification", b) /\ SchedInv(k1, {})
  BY <1>1, <1>2, <1>3, BlockInv DEF ThreadStates, StoppedStates, RunnableStates
<1> HIDE DEF k1
<1>5. k1 \in KState /\ k1.asserts
  BY <1>1, <1>4 DEF Restated, Framed, Consistent
<1>6. SameScheduling(k1, k2) /\ k2.asserts = k1.asserts
  BY <1>5 DEF KState, SameScheduling
<1>7. SchedInv(k2, {})
  BY <1>4, <1>6, SchedInvSame
<1>8. /\ t \in k.live /\ k.replyMaster[t] /\ k.tsType[t] \notin WaitStates
      /\ k.tsType[t] # "BlockedOnReply"
  BY <1>1, <1>2, RunningFacts
<1>9. ObjectsInv(k2)
  BY <1>1, <1>2, <1>3, <1>4, <1>5, <1>8, ObjectsInvNtfnBlocked
<1>10. Consistent(k2)
  BY <1>5, <1>6, <1>7, <1>9 DEF Consistent
<1>11. k.ntfnState[n] = "Active" => Consistent([k EXCEPT !.ntfnState[n] = "Idle"])
  BY <1>1, CompleteSignalInv
<1> QED BY <1>1, <1>10, <1>11 DEF receiveSignal, k1, b, t

-----------------------------------------------------------------------------
(* Cancelling *)

\* cancelIPC leaves t outside every queue and without a caller.
Cancelled(k, k1, t) ==
  /\ Consistent(k1)
  /\ k1.tsType[t] \notin WaitStates
  /\ callerSlots(k1, t) = {}
  /\ isRunnable(k1, t) <=> isRunnable(k, t)
  /\ \A u \in Threads \ {t} : k1.tsType[u] = k.tsType[u]
  /\ k1.ksSchedulerAction \in {k.ksSchedulerAction, ChooseNewThread}
  /\ k1.ksCurThread = k.ksCurThread
  /\ k1.live = k.live
  /\ k1.replyMaster = k.replyMaster
  /\ k1.tcbBoundNotification = k.tcbBoundNotification

\* A released thread that was made inactive.
LEMMA ReleasedCancelled ==
  ASSUME NEW k \in KState, Consistent(k), NEW k1, NEW k2, NEW t \in Threads, Dequeued(k, k1, t),
         Released(k, k1, k2, t, "Inactive"),
         k2.ksSchedulerAction \in {k.ksSchedulerAction, ChooseNewThread}
  PROVE  Cancelled(k, k2, t)
<1>1. k.tsType[t] \in WaitStates /\ ~isRunnable(k, t) /\ SameBase(k, k1)
  BY DequeuedFacts
<1>2. k.tsType \in [Threads -> ThreadStates]
  BY DEF KState
<1>3. k2.tsType[t] = "Inactive" /\ \A u \in Threads \ {t} : k2.tsType[u] = k.tsType[u]
  BY <1>2 DEF Released
<1>4. callerSlots(k, t) = {}
  BY <1>1, NoCaller DEF Consistent, ObjectsInv, WaitStates, EPBlocked
<1>5. callerSlots(k2, t) = {}
  BY <1>4 DEF Released, callerSlots
<1>6. k2.tcbBoundNotification = k.tcbBoundNotification
  BY <1>1 DEF SameBase, Released, Restated, Framed, SameFrame, SameSwitch, SameObjects
<1>7. ~isRunnable(k2, t) /\ k2.tsType[t] \notin WaitStates
  BY <1>3 DEF isRunnable, RunnableStates, WaitStates, EPBlocked
<1> QED BY <1>1, <1>3, <1>5, <1>6, <1>7 DEF Cancelled, Released

\* Taking a thread off the queue of a notification, as cancelSignal and sendSignal do.
LEMMA NtfnDequeueEffect ==
  ASSUME NEW k, KernelOK(k), NEW n \in Notifications, NEW t \in Threads,
         k.tsType[t] = "BlockedOnNotification", k.blocking[t].obj = n
  PROVE  LET q  == tcbEPDequeue(t, k.ntfnQueue[n])
             k1 == [k EXCEPT !.ntfnQueue[n] = q, !.ntfnState[n] = IF q = <<>> THEN "Idle" ELSE @]
         IN  k1 \in KState /\ Dequeued(k, k1, t)
<1> DEFINE q  == tcbEPDequeue(t, k.ntfnQueue[n])
           k1 == [k EXCEPT !.ntfnQueue[n] = q, !.ntfnState[n] = IF q = <<>> THEN "Idle" ELSE @]
<1>1. k1 \in KState
  <2>1. OK(k)
    BY DEF KernelOK
  <2>2. Kept(k, k1)
    BY <2>1, KeptNtfnDequeue
  <2> HIDE DEF k1
  <2> QED BY <2>2 DEF Kept, OK
<1>2. k \in KState
  BY DEF KernelOK, OK
<1>3. NtfnDequeued(k, k1, n, t)
  BY <1>2 DEF KState, NtfnDequeued, SameBase, SameScheduling, SameEPs, SameReplies
<1> HIDE DEF k1
<1>4. Dequeued(k, k1, t)
  BY <1>3 DEF Dequeued
<1> QED BY <1>1, <1>4 DEF k1

\* cancelSignal: the notification has t in its queue, so it is waiting.
LEMMA CancelSignalInv ==
  ASSUME NEW k, KernelOK(k), NEW t \in Threads, k.tsType[t] = "BlockedOnNotification"
  PROVE  Cancelled(k, cancelSignal(k, t, k.blocking[t].obj), t)
<1> DEFINE n  == k.blocking[t].obj
           q  == tcbEPDequeue(t, k.ntfnQueue[n])
           k1 == [k EXCEPT !.ntfnQueue[n] = q, !.ntfnState[n] = IF q = <<>> THEN "Idle" ELSE @]
           k2 == setThreadState(k1, t, "Inactive")
<1>1. k \in KState /\ Consistent(k) /\ k.asserts /\ NtfnStatesOK(k)
  BY DEF KernelOK, OK, ObjectsOK, Consistent
<1>2. n \in Notifications
  BY <1>1 DEF Consistent, ObjectsInv, ThreadsInv, BlockingOK
<1>3. t \in ToSet(k.ntfnQueue[n])
  BY <1>1, <1>2 DEF Consistent, ObjectsInv, NtfnLinked, Linked
<1>4. k.ntfnState[n] = "Waiting"
  <2>1. k.ntfnQueue[n] \in Seq(Threads)
    BY <1>1, <1>2 DEF KState
  <2>2. k.ntfnQueue[n] # <<>>
    BY <1>3, <2>1, EmptyQueue
  <2> QED BY <1>1, <1>2, <2>2 DEF NtfnStatesOK
<1>5. Assert_(k, k.ntfnState[n] = "Waiting") = k
  BY <1>1, <1>4, AssertHolds
<1>6. k1 \in KState /\ Dequeued(k, k1, t)
  BY <1>2, NtfnDequeueEffect
<1>7. k2 = cancelSignal(k, t, n)
  BY <1>5 DEF cancelSignal
<1> HIDE DEF k1
<1>8. Released(k, k1, k2, t, "Inactive") /\ k2.ksSchedulerAction \in {k.ksSchedulerAction, ChooseNewThread}
  BY <1>1, <1>6, StopReleased
<1> HIDE DEF k2
<1>9. Cancelled(k, k2, t)
  BY <1>1, <1>6, <1>8, ReleasedCancelled
<1> QED BY <1>7, <1>9

\* blockedIPCCancel: the endpoint has t in its queue, so it is not idle.
LEMMA BlockedIPCCancelInv ==
  ASSUME NEW k, KernelOK(k), NEW t \in Threads, k.tsType[t] \in EPBlocked
  PROVE  Cancelled(k, blockedIPCCancel(k, t, k.blocking[t].obj), t)
<1> DEFINE ep == k.blocking[t].obj
           k1 == epDequeue(k, ep, t)
           k2 == setThreadState(k1, t, "Inactive")
<1>1. k \in KState /\ Consistent(k) /\ k.asserts /\ EPStatesOK(k)
  BY DEF KernelOK, OK, ObjectsOK, Consistent
<1>2. ep \in Endpoints
  BY <1>1 DEF Consistent, ObjectsInv, ThreadsInv, BlockingOK
<1>3. t \in ToSet(k.epQueue[ep])
  BY <1>1, <1>2 DEF Consistent, ObjectsInv, EPLinked, Linked
<1>4. k.epState[ep] # "Idle"
  <2>1. k.epQueue[ep] \in Seq(Threads)
    BY <1>1, <1>2 DEF KState
  <2>2. k.epQueue[ep] # <<>>
    BY <1>3, <2>1, EmptyQueue
  <2> QED BY <1>1, <1>2, <2>2 DEF EPStatesOK
<1>5. Assert_(k, k.epState[ep] # "Idle") = k
  BY <1>1, <1>4, AssertHolds
<1>6. k1 \in KState /\ Dequeued(k, k1, t)
  <2>1. k1 \in KState
    BY KeptEPDequeue DEF KernelOK, Kept, OK
  <2>2. EPDequeued(k, k1, ep, t)
    BY <1>1, <1>2, EPDequeueEffect
  <2> QED BY <2>1, <2>2 DEF Dequeued
<1>7. k2 = blockedIPCCancel(k, t, ep)
  BY <1>5 DEF blockedIPCCancel
<1> HIDE DEF k1
<1>8. Released(k, k1, k2, t, "Inactive") /\ k2.ksSchedulerAction \in {k.ksSchedulerAction, ChooseNewThread}
  BY <1>1, <1>6, StopReleased
<1> HIDE DEF k2
<1>9. Cancelled(k, k2, t)
  BY <1>1, <1>6, <1>8, ReleasedCancelled
<1> QED BY <1>7, <1>9

\* Recording or clearing a fault.
LEMMA FaultInv ==
  ASSUME NEW k, KernelOK(k), NEW t, NEW b \in BOOLEAN
  PROVE  LET k1 == [k EXCEPT !.tcbFault[t] = b]
         IN  KernelOK(k1) /\ SameCore(k, k1)
<1> DEFINE k1 == [k EXCEPT !.tcbFault[t] = b]
<1>1. SameCore(k, k1)
  BY DEF KernelOK, OK, KState, SameCore, SameBase, SameScheduling, SameEPs, SameNtfns, SameReplies
<1>2. OK(k1)
  BY KeptFault DEF KernelOK, Kept
<1> HIDE DEF k1
<1>3. Consistent(k1)
  BY <1>1, ConsistentSame DEF KernelOK
<1> QED BY <1>1, <1>2, <1>3 DEF KernelOK, k1

\* replyIPCCancel: the one reply cap of t is deleted.
LEMMA ReplyIPCCancelInv ==
  ASSUME NEW k, KernelOK(k), NEW t \in Threads, k.tsType[t] = "BlockedOnReply"
  PROVE  Cancelled(k, replyIPCCancel(k, t), t)
<1> DEFINE k1 == [k EXCEPT !.tcbFault[t] = FALSE]
           s  == CHOOSE x \in callerSlots(k1, t) : TRUE
           k2 == cteDeleteOne(k1, s)
<1>1. KernelOK(k1) /\ SameCore(k, k1)
  BY FaultInv
<1>2. replyIPCCancel(k, t) = IF callerSlots(k1, t) = {} THEN k1 ELSE k2
  BY DEF replyIPCCancel
<1> HIDE DEF k1
<1>3. k1 \in KState /\ Consistent(k1) /\ k1.tsType[t] = "BlockedOnReply"
  BY <1>1 DEF KernelOK, OK, SameCore, SameBase, SameScheduling
<1>4. /\ ~isRunnable(k, t) /\ ~isRunnable(k1, t)
      /\ k1.tsType[t] \notin WaitStates
  BY <1>3 DEF isRunnable, RunnableStates, WaitStates, EPBlocked
<1>5. CASE callerSlots(k1, t) = {}
  BY <1>1, <1>2, <1>3, <1>4, <1>5 DEF Cancelled, SameCore, SameBase, SameScheduling, SameReplies
<1>6. CASE callerSlots(k1, t) # {}
  <2>1. s \in ReplySlots /\ k1.replyCap[s] = t
    BY <1>6 DEF callerSlots
  <2> HIDE DEF s
  <2>2. /\ Consistent(k2) /\ SameBase(k1, k2) /\ k2.replyMaster = k1.replyMaster
        /\ callerSlots(k2, t) = {}
    BY <1>3, <2>1, DeleteOneInv
  <2> HIDE DEF k2
  <2>3. k2.tsType[t] \notin WaitStates /\ ~isRunnable(k2, t)
    BY <1>4, <2>2 DEF SameBase, SameScheduling, isRunnable
  <2>4. Cancelled(k, k2, t)
    BY <1>1, <1>4, <2>2, <2>3 DEF Cancelled, SameCore, SameBase, SameScheduling, SameReplies
  <2> QED BY <1>2, <1>6, <2>4
<1> QED BY <1>5, <1>6

\* cancelIPC takes a thread out of whatever it waits for.
LEMMA CancelIPCInv ==
  ASSUME NEW k, KernelOK(k), NEW t \in Threads
  PROVE  Cancelled(k, cancelIPC(k, t), t) /\ KernelOK(cancelIPC(k, t))
<1>1. OK(cancelIPC(k, t))
  BY KeptCancelIPC DEF KernelOK, Kept
<1>2. Cancelled(k, cancelIPC(k, t), t)
  <2>1. CASE k.tsType[t] \in EPBlocked
    BY <2>1, BlockedIPCCancelInv DEF cancelIPC, EPBlocked
  <2>2. CASE k.tsType[t] = "BlockedOnNotification"
    BY <2>2, CancelSignalInv DEF cancelIPC
  <2>3. CASE k.tsType[t] = "BlockedOnReply"
    BY <2>3, ReplyIPCCancelInv DEF cancelIPC
  <2>4. CASE k.tsType[t] \notin EPBlocked \cup {"BlockedOnNotification", "BlockedOnReply"}
    <3>1. cancelIPC(k, t) = k
      BY <2>4 DEF cancelIPC, EPBlocked
    <3>2. callerSlots(k, t) = {}
      BY <2>4, NoCaller DEF KernelOK, Consistent, ObjectsInv
    <3>3. k.tsType[t] \notin WaitStates
      BY <2>4 DEF WaitStates
    <3> QED BY <3>1, <3>2, <3>3 DEF Cancelled, KernelOK
  <2> QED BY <2>1, <2>2, <2>3, <2>4
<1> QED BY <1>1, <1>2 DEF KernelOK, Cancelled

\* suspend: t stops, and nothing knows it any more.
LEMMA SuspendInv ==
  ASSUME NEW k, KernelOK(k), NEW t \in Threads, k.ksSchedulerAction # t
  PROVE  LET k1 == suspend(k, t)
         IN  /\ KernelOK(k1) /\ k1.tsType[t] = "Inactive" /\ callerSlots(k1, t) = {}
             /\ k1.ksSchedulerAction \in {k.ksSchedulerAction, ChooseNewThread}
             /\ k1.ksCurThread = k.ksCurThread /\ k1.live = k.live
             /\ k1.tcbBoundNotification = k.tcbBoundNotification
             /\ \A u \in Threads \ {t} : k1.tsType[u] = k.tsType[u]
<1> DEFINE k1 == cancelIPC(k, t)
           k2 == tcbSchedDequeue(setThreadState(k1, t, "Inactive"), t)
<1>1. KernelOK(k1) /\ Cancelled(k, k1, t)
  BY CancelIPCInv
<1>2. k2 = suspend(k, t)
  BY DEF suspend
<1>3. OK(k2)
  BY <1>2, KeptSuspend DEF KernelOK, Kept
<1> HIDE DEF k1
<1>4. /\ k1 \in KState /\ Consistent(k1) /\ SchedInv(k1, {}) /\ k1.ksSchedulerAction # t
      /\ k1.tsType \in [Threads -> ThreadStates]
  <2>1. k1 \in KState /\ Consistent(k1) /\ k1.ksSchedulerAction \in {k.ksSchedulerAction, ChooseNewThread}
    BY <1>1 DEF KernelOK, OK, Cancelled
  <2>2. k1.tsType \in [Threads -> ThreadStates]
    BY <2>1 DEF KState
  <2> QED BY <2>1, <2>2 DEF Consistent
<1>5. /\ Restated(k1, k2, t, "Inactive", NotBlocking) /\ SchedInv(k2, {})
      /\ k2.ksSchedulerAction \in {k1.ksSchedulerAction, ChooseNewThread}
  BY <1>4, StopInv
<1> HIDE DEF k2
<1>6. "Inactive" \notin WaitStates
  BY DEF WaitStates, EPBlocked
<1>7. Consistent(k2)
  BY <1>1, <1>4, <1>5, <1>6, ConsistentRestated DEF Cancelled
<1>8. /\ k2.tsType = [k1.tsType EXCEPT ![t] = "Inactive"] /\ k2.replyCap = k1.replyCap
      /\ k2.live = k1.live /\ k2.tcbBoundNotification = k1.tcbBoundNotification
      /\ k2.ksCurThread = k1.ksCurThread
  BY <1>5 DEF Restated, Framed, SameFrame, SameSwitch, SameObjects
<1>9. k2.tsType[t] = "Inactive" /\ \A u \in Threads \ {t} : k2.tsType[u] = k1.tsType[u]
  BY <1>4, <1>8
<1>10. callerSlots(k2, t) = {}
  BY <1>1, <1>8 DEF Cancelled, callerSlots
<1>11. k2.ksSchedulerAction \in {k.ksSchedulerAction, ChooseNewThread}
  BY <1>1, <1>5 DEF Cancelled
<1> QED BY <1>1, <1>2, <1>3, <1>7, <1>8, <1>9, <1>10, <1>11 DEF Cancelled, KernelOK

\* setupReplyMaster for a TCB without a caller.
LEMMA ReplyMasterInv ==
  ASSUME NEW k, KernelOK(k), NEW t \in Threads, t \in k.live, callerSlots(k, t) = {}
  PROVE  LET k1 == setupReplyMaster(k, t)
         IN  /\ KernelOK(k1) /\ SameBase(k, k1) /\ k1.replyCap = k.replyCap
             /\ k1.replyMaster[t]
<1>1. OK(setupReplyMaster(k, t))
  BY KeptReplyMaster DEF KernelOK, Kept
<1>2. CASE k.replyMaster[t]
  BY <1>2 DEF setupReplyMaster, SameBase, SameScheduling
<1>3. CASE ~k.replyMaster[t]
  <2> DEFINE k1 == [k EXCEPT !.replyMaster[t] = TRUE]
  <2>1. k \in KState /\ k.asserts
    BY DEF KernelOK, OK, Consistent
  <2>2. setupReplyMaster(k, t) = k1
    BY <1>3, <2>1, AssertHolds DEF setupReplyMaster
  <2>3. /\ SameBase(k, k1) /\ SameEPs(k, k1) /\ SameNtfns(k, k1) /\ k1.replyCap = k.replyCap
        /\ k1.replyMaster = [k.replyMaster EXCEPT ![t] = TRUE]
    BY <2>1 DEF KState, SameBase, SameEPs, SameNtfns, SameScheduling
  <2>4. k.replyMaster \in [Threads -> BOOLEAN]
    BY <2>1 DEF KState
  <2> HIDE DEF k1
  <2>5. k1.replyMaster[t] /\ \A u \in Threads \ {t} : k1.replyMaster[u] = k.replyMaster[u]
    BY <2>3, <2>4
  <2>6. SchedInv(k1, {})
    BY <2>3, SchedInvSame DEF KernelOK, Consistent, SameBase
  <2>7. ObjectsInv(k1)
    <3>1. RepliesOK(k1.tsType, k1.replyCap, k1.replyMaster)
      BY <2>3, <2>5 DEF KernelOK, Consistent, ObjectsInv, ThreadsInv, RepliesOK, SameBase, SameScheduling
    <3>2. LiveOK(k1)
      BY <2>3, <2>5 DEF KernelOK, Consistent, ObjectsInv, ThreadsInv, LiveOK, SameBase, SameScheduling,
         SameEPs, SameNtfns
    <3> QED BY <2>3, <3>1, <3>2 DEF KernelOK, Consistent, ObjectsInv, ThreadsInv, SameBase,
            SameScheduling, SameEPs, SameNtfns
  <2>8. k1.asserts
    BY <2>1, <2>3 DEF SameBase
  <2> QED BY <1>1, <2>2, <2>3, <2>5, <2>6, <2>7, <2>8 DEF KernelOK, Consistent
<1> QED BY <1>2, <1>3

\* restart.
LEMMA RestartThreadInv ==
  ASSUME NEW k, KernelOK(k), NEW t \in Threads, t \in k.live
  PROVE  KernelOK(restart(k, t)) /\ restart(k, t).ksCurThread = k.ksCurThread
<1> DEFINE k1 == cancelIPC(k, t)
           k2 == setupReplyMaster(k1, t)
           k3 == possibleSwitchTo(tcbSchedEnqueue(setThreadState(k2, t, "Restart"), t), t)
<1>1. OK(restart(k, t)) /\ restart(k, t).ksCurThread = k.ksCurThread
  BY KeptRestart DEF KernelOK, Kept
<1>2. CASE ~isStopped(k, t)
  BY <1>1, <1>2 DEF restart
<1>3. CASE isStopped(k, t)
  <2>1. restart(k, t) = k3
    BY <1>3 DEF restart
  <2>2. ~isRunnable(k, t)
    BY <1>3 DEF isStopped, isRunnable, StoppedStates, RunnableStates
  <2>3. KernelOK(k1) /\ Cancelled(k, k1, t)
    BY CancelIPCInv
  <2> HIDE DEF k1
  <2>4. KernelOK(k2) /\ SameBase(k1, k2) /\ k2.replyCap = k1.replyCap /\ k2.replyMaster[t]
    BY <2>3, ReplyMasterInv DEF Cancelled
  <2> HIDE DEF k2
  <2>5. /\ k2.tsType = k1.tsType /\ k2.live = k.live /\ callerSlots(k2, t) = {}
        /\ k2.tsType[t] \notin WaitStates
    BY <2>3, <2>4 DEF SameBase, SameScheduling, Cancelled, callerSlots
  <2>6. ~isRunnable(k2, t)
    BY <2>2, <2>3, <2>5 DEF Cancelled, isRunnable
  <2>7. k2 \in KState /\ Consistent(k2) /\ SchedInv(k2, {})
    BY <2>4 DEF KernelOK, OK, Consistent
  <2>8. k2.ksSchedulerAction = ResumeCurrentThread => k2.ksCurThread # t
    BY <2>6, <2>7, StoppedFacts
  <2>9. Restated(k2, k3, t, "Restart", NotBlocking) /\ SchedInv(k3, {})
    BY <2>7, <2>8, RestartInv
  <2> HIDE DEF k3
  <2>10. "Restart" \notin WaitStates
    BY DEF WaitStates, EPBlocked
  <2>11. Consistent(k3)
    BY <2>4, <2>5, <2>7, <2>9, <2>10, ConsistentRestated
  <2> QED BY <1>1, <2>1, <2>11 DEF KernelOK
<1> QED BY <1>2, <1>3

-----------------------------------------------------------------------------
(* Signals *)

\* The first thread in the queue of a notification waits there.
LEMMA NtfnHeadFacts ==
  ASSUME NEW k, KernelOK(k), NEW n \in Notifications, k.ntfnState[n] = "Waiting"
  PROVE  LET t == Head(k.ntfnQueue[n])
         IN  /\ k.ntfnQueue[n] # <<>> /\ t \in Threads
             /\ k.tsType[t] = "BlockedOnNotification" /\ k.blocking[t].obj = n
<1> DEFINE t == Head(k.ntfnQueue[n])
<1>1. k.ntfnQueue[n] \in Seq(Threads) /\ k.ntfnQueue[n] # <<>>
  BY DEF KernelOK, OK, KState, ObjectsOK, NtfnStatesOK
<1>2. t \in ToSet(k.ntfnQueue[n]) /\ t \in Threads
  BY <1>1, HeadTailQueue
<1> HIDE DEF t
<1>3. k.tsType[t] = "BlockedOnNotification" /\ k.blocking[t].obj = n
  BY <1>2 DEF KernelOK, Consistent, ObjectsInv, NtfnLinked, Linked
<1> QED BY <1>1, <1>2, <1>3 DEF t

\* A stopped thread that waits in no queue and for no reply is woken.
LEMMA WakeConsistent ==
  ASSUME NEW k \in KState, Consistent(k), NEW t \in Threads, NEW ts \in RunnableStates,
         ~isRunnable(k, t), k.tsType[t] \notin WaitStates, callerSlots(k, t) = {},
         t \in k.live, k.replyMaster[t]
  PROVE  LET k1 == possibleSwitchTo(setThreadState(k, t, ts), t)
         IN  /\ Consistent(k1) /\ Restated(k, k1, t, ts, NotBlocking)
             /\ Runs(k) => Runs(k1)
<1> DEFINE k1 == possibleSwitchTo(setThreadState(k, t, ts), t)
<1>1. SchedInv(k, {})
  BY DEF Consistent
<1>2. k.ksSchedulerAction = ResumeCurrentThread => k.ksCurThread # t
  BY <1>1, StoppedFacts
<1>3. Restated(k, k1, t, ts, NotBlocking) /\ SchedInv(k1, {})
  BY <1>1, <1>2, WakeInv
<1>4. Runs(k) => Runs(k1)
  <2>1. Runs(k) => t # k.ksCurThread
    BY DEF Runs
  <2> QED BY <1>1, <2>1, WakeRuns
<1> HIDE DEF k1
<1>5. ts \notin WaitStates
  BY DEF RunnableStates, WaitStates, EPBlocked
<1>6. Consistent(k1)
  BY <1>3, <1>5, ConsistentRestated
<1> QED BY <1>3, <1>4, <1>6 DEF k1

\* sendSignal, from an invocation or an interrupt.
LEMMA SendSignalInv ==
  ASSUME NEW k, KernelOK(k), NEW n \in Notifications, NEW badge
  PROVE  Consistent(sendSignal(k, n, badge))
<1> DEFINE bound == k.ntfnBoundTCB[n]
           dest  == Head(k.ntfnQueue[n])
           k1    == Assert_(k, k.ntfnQueue[n] # <<>>)
           q     == tcbEPDequeue(dest, k1.ntfnQueue[n])
           k2    == [k1 EXCEPT !.ntfnQueue[n] = q, !.ntfnState[n] = IF q = <<>> THEN "Idle" ELSE @]
<1>0. k \in KState /\ Consistent(k) /\ k.asserts
  BY DEF KernelOK, OK, Consistent
<1>1. CASE k.ntfnState[n] = "Idle" /\ bound # Null /\ k.tsType[bound] = "BlockedOnReceive"
  <2> DEFINE c == cancelIPC(k, bound)
  <2>1. bound \in Threads
    BY <1>0, <1>1 DEF KState
  <2>2. sendSignal(k, n, badge) = possibleSwitchTo(setThreadState(c, bound, "Running"), bound)
    BY <1>1 DEF sendSignal
  <2> HIDE DEF bound
  <2>3. KernelOK(c) /\ Cancelled(k, c, bound)
    BY <2>1, CancelIPCInv
  <2>4. ~isRunnable(k, bound) /\ k.tsType[bound] # "Inactive"
    BY <1>1 DEF isRunnable, RunnableStates
  <2>5. bound \in k.live /\ k.replyMaster[bound]
    BY <1>0, <2>1, <2>4, ActiveFacts
  <2> HIDE DEF c
  <2>6. /\ c \in KState /\ Consistent(c) /\ ~isRunnable(c, bound) /\ c.tsType[bound] \notin WaitStates
        /\ callerSlots(c, bound) = {} /\ bound \in c.live /\ c.replyMaster[bound]
    BY <2>3, <2>4, <2>5 DEF KernelOK, OK, Cancelled
  <2> QED BY <2>1, <2>2, <2>6, WakeConsistent DEF RunnableStates
<1>2. CASE k.ntfnState[n] = "Idle" /\ ~(bound # Null /\ k.tsType[bound] = "BlockedOnReceive")
  <2> DEFINE a == ntfn_set_active(k, n, badge)
  <2>1. sendSignal(k, n, badge) = a
    BY <1>2 DEF sendSignal
  <2>2. /\ SameBase(k, a) /\ SameEPs(k, a) /\ SameReplies(k, a)
        /\ a.ntfnQueue = k.ntfnQueue /\ a.ntfnState = [k.ntfnState EXCEPT ![n] = "Active"]
    BY <1>0 DEF KState, ntfn_set_active, SameBase, SameScheduling, SameEPs, SameReplies
  <2> HIDE DEF a
  <2>3. Consistent(a)
    BY <1>0, <2>2, NtfnStateInv
  <2> QED BY <2>1, <2>3
<1>3. CASE k.ntfnState[n] = "Waiting"
  <2>1. /\ k.ntfnQueue[n] # <<>> /\ dest \in Threads
        /\ k.tsType[dest] = "BlockedOnNotification" /\ k.blocking[dest].obj = n
    BY <1>3, NtfnHeadFacts
  <2>2. k1 = k
    BY <1>0, <2>1, AssertHolds
  <2> HIDE DEF dest, k1
  <2>3. k2 \in KState /\ Dequeued(k, k2, dest)
    BY <2>1, <2>2, NtfnDequeueEffect
  <2> HIDE DEF k2
  <2>4. Consistent(possibleSwitchTo(setThreadState(k2, dest, "Running"), dest))
    BY <1>0, <2>1, <2>3, WakeReleased DEF Released, RunnableStates
  <2> QED BY <1>3, <2>4 DEF sendSignal, k2, k1, dest
<1>4. CASE k.ntfnState[n] = "Active"
  <2> DEFINE a == [k EXCEPT !.ntfnMsgIdentifier[n] = @ \cup badge]
  <2>1. sendSignal(k, n, badge) = a
    BY <1>4 DEF sendSignal
  <2>2. SameCore(k, a)
    BY <1>0 DEF KState, SameCore, SameBase, SameScheduling, SameEPs, SameNtfns, SameReplies
  <2> HIDE DEF a
  <2> QED BY <1>0, <2>1, <2>2, ConsistentSame
<1>5. k.ntfnState[n] \in {"Idle", "Waiting", "Active"}
  BY <1>0 DEF KState, NtfnStates
<1> QED BY <1>1, <1>2, <1>3, <1>4, <1>5

-----------------------------------------------------------------------------
(* Replies and faults *)

\* doReplyTransfer by the current thread, for a reply cap it holds.
LEMMA ReplyTransferInv ==
  ASSUME NEW k, KernelOK(k), Runs(k), NEW slot \in ReplySlots, NEW receiver \in Threads,
         k.replyCap[slot] = receiver, NEW x, NEW restartThread
  PROVE  LET k1 == doReplyTransfer(k, x, receiver, slot, restartThread)
         IN  KernelOK(k1) /\ Runs(k1) /\ k1.ksCurThread = k.ksCurThread /\ k1.live = k.live
<1> DEFINE a  == doIPCTransfer(k, x, FALSE)
           k2 == cteDeleteOne(a, slot)
           d  == cteDeleteOne(k, slot)
           k3 == [d EXCEPT !.tcbFault[receiver] = FALSE]
           r  == doReplyTransfer(k, x, receiver, slot, restartThread)
<1>1. k \in KState /\ Consistent(k) /\ k.asserts /\ OK(k)
  BY DEF KernelOK, OK, Consistent
<1>2. k.tsType[receiver] = "BlockedOnReply"
  BY <1>1 DEF Consistent, ObjectsInv, ThreadsInv, RepliesOK
<1>3. Assert_(k, k.tsType[receiver] = "BlockedOnReply") = k
  BY <1>1, <1>2, AssertHolds
<1>4. r = IF ~k.tcbFault[receiver]
          THEN possibleSwitchTo(setThreadState(k2, receiver, "Running"), receiver)
          ELSE IF restartThread
               THEN possibleSwitchTo(setThreadState(k3, receiver, "Restart"), receiver)
               ELSE setThreadState(k3, receiver, "Inactive")
  BY <1>3 DEF doReplyTransfer
<1>5. OK(r) /\ r.ksCurThread = k.ksCurThread
  BY <1>1, KeptReplyTransfer DEF Kept
<1> DEFINE Freed(c) == /\ c \in KState /\ Consistent(c) /\ SameBase(k, c)
                       /\ callerSlots(c, receiver) = {} /\ c.replyMaster[receiver]
<1>6. receiver \in k.live /\ k.replyMaster[receiver] /\ ~isRunnable(k, receiver)
  BY <1>1, <1>2, ActiveFacts DEF isRunnable, RunnableStates
<1>7. Freed(k2)
  <2>1. SameCore(k, a) /\ a \in KState
    <3>1. SameCore(k, a)
      BY <1>1 DEF KState, doIPCTransfer, SameCore, SameBase, SameScheduling, SameEPs, SameNtfns, SameReplies
    <3>2. OK(a)
      BY <1>1, KeptTransfer DEF Kept
    <3> QED BY <3>1, <3>2 DEF OK
  <2> HIDE DEF a
  <2>2. Consistent(a) /\ a.replyCap[slot] = receiver /\ a.replyMaster = k.replyMaster
    BY <1>1, <2>1, ConsistentSame DEF SameCore, SameReplies
  <2>3. /\ Consistent(k2) /\ k2 \in KState /\ SameBase(a, k2) /\ k2.replyMaster = a.replyMaster
        /\ callerSlots(k2, receiver) = {}
    BY <2>1, <2>2, DeleteOneInv
  <2> HIDE DEF k2
  <2>4. SameBase(k, k2)
    BY <2>1, <2>3 DEF SameCore, SameBase, SameScheduling
  <2> QED BY <1>6, <2>2, <2>3, <2>4
<1>8. Freed(k3)
  <2>1. /\ Consistent(d) /\ d \in KState /\ SameBase(k, d) /\ d.replyMaster = k.replyMaster
        /\ callerSlots(d, receiver) = {}
    BY <1>1, DeleteOneInv
  <2>2. OK(d)
    BY <1>1, KeptDeleteOne DEF Kept
  <2> HIDE DEF d
  <2>3. KernelOK(k3) /\ SameCore(d, k3)
    BY <2>1, <2>2, FaultInv DEF KernelOK
  <2> HIDE DEF k3
  <2>4. SameBase(k, k3) /\ k3.replyMaster = k.replyMaster /\ callerSlots(k3, receiver) = {}
    BY <2>1, <2>3 DEF SameCore, SameBase, SameScheduling, SameReplies, callerSlots
  <2> QED BY <1>6, <2>3, <2>4 DEF KernelOK, OK
<1> HIDE DEF k2, k3
<1>9. ASSUME NEW c, Freed(c)
      PROVE  /\ ~isRunnable(c, receiver) /\ c.tsType[receiver] \notin WaitStates
             /\ receiver \in c.live /\ Runs(c) /\ c.live = k.live
  BY <1>2, <1>6, <1>9, RunsSame DEF SameBase, SameScheduling, isRunnable, RunnableStates, WaitStates, EPBlocked
<1>10. ASSUME NEW c, Freed(c), NEW ts \in RunnableStates
       PROVE  LET w == possibleSwitchTo(setThreadState(c, receiver, ts), receiver)
              IN  Consistent(w) /\ Runs(w) /\ w.live = k.live
  <2> DEFINE w == possibleSwitchTo(setThreadState(c, receiver, ts), receiver)
  <2>1. Consistent(w) /\ Restated(c, w, receiver, ts, NotBlocking) /\ Runs(w)
    BY <1>9, <1>10, WakeConsistent
  <2> HIDE DEF w
  <2>2. w.live = k.live
    BY <1>9, <1>10, <2>1 DEF Restated, Framed, SameFrame, SameSwitch, SameObjects
  <2> QED BY <2>1, <2>2 DEF w
<1>11. LET w == setThreadState(k3, receiver, "Inactive")
       IN  Consistent(w) /\ Runs(w) /\ w.live = k.live
  <2> DEFINE w == setThreadState(k3, receiver, "Inactive")
  <2>1. "Inactive" \in ThreadStates /\ "Inactive" \notin RunnableStates /\ "Inactive" \notin WaitStates
    BY DEF ThreadStates, StoppedStates, RunnableStates, WaitStates, EPBlocked
  <2>2. SchedInv(k3, {})
    BY <1>8 DEF Consistent
  <2>3. Restated(k3, w, receiver, "Inactive", NotBlocking) /\ SchedInv(w, {})
    BY <1>8, <1>9, <2>1, <2>2, SetStateInv
  <2>4. receiver # k3.ksCurThread
    BY <1>8, <1>9 DEF Runs
  <2>5. Runs(w)
    BY <1>8, <1>9, <2>1, <2>4, SetStateRuns
  <2> HIDE DEF w
  <2>6. Consistent(w)
    BY <1>8, <1>9, <2>1, <2>3, ConsistentRestated
  <2>7. w.live = k.live
    BY <1>8, <1>9, <2>3 DEF Restated, Framed, SameFrame, SameSwitch, SameObjects
  <2> QED BY <2>5, <2>6, <2>7 DEF w
<1> HIDE DEF Freed
<1>12. Consistent(r) /\ Runs(r) /\ r.live = k.live
  <2>1. CASE ~k.tcbFault[receiver]
    BY <1>4, <1>7, <1>10, <2>1 DEF RunnableStates
  <2>2. CASE k.tcbFault[receiver] /\ restartThread
    BY <1>4, <1>8, <1>10, <2>2 DEF RunnableStates
  <2>3. CASE k.tcbFault[receiver] /\ ~restartThread
    BY <1>4, <1>11, <2>3
  <2> QED BY <2>1, <2>2, <2>3
<1> QED BY <1>5, <1>12 DEF KernelOK

\* handleReply: the caller is not the current thread, for it waits for the reply.
LEMMA HandleReplyInv ==
  ASSUME NEW k, KernelOK(k), Runs(k), NEW restartThread
  PROVE  LET k1 == handleReply(k, restartThread)
         IN  KernelOK(k1) /\ Runs(k1) /\ k1.ksCurThread = k.ksCurThread /\ k1.live = k.live
<1> DEFINE c == k.replyCap[k.ksCurThread]
<1>1. k \in KState /\ Consistent(k) /\ k.asserts /\ k.ksCurThread \in ReplySlots
  BY DEF KernelOK, OK, Consistent, Runs, ReplySlots
<1>2. CASE c = Null
  BY <1>2 DEF handleReply
<1>3. CASE c # Null
  <2>1. c \in Threads
    BY <1>1, <1>3 DEF KState
  <2>2. c # k.ksCurThread
    <3>1. k.tsType[c] = "BlockedOnReply"
      BY <1>1, <1>3 DEF Consistent, ObjectsInv, ThreadsInv, RepliesOK
    <3> QED BY <3>1 DEF Runs, isRunnable, RunnableStates
  <2>3. Assert_(k, c # k.ksCurThread) = k
    BY <1>1, <2>2, AssertHolds
  <2>4. handleReply(k, restartThread)
          = doReplyTransfer(k, k.ksCurThread, c, k.ksCurThread, restartThread)
    BY <1>3, <2>3 DEF handleReply
  <2> HIDE DEF c
  <2>5. k.replyCap[k.ksCurThread] = c
    BY DEF c
  <2> QED BY <1>1, <2>1, <2>4, <2>5, ReplyTransferInv
<1> QED BY <1>2, <1>3

\* handleFault of the current thread.
LEMMA HandleFaultInv ==
  ASSUME NEW k, KernelOK(k), Runs(k), NEW handler,
         handler # Null => /\ handler.ep \in Endpoints /\ handler.ep \in k.live
                           /\ handler.badge \in Badges
  PROVE  Consistent(handleFault(k, k.ksCurThread, handler))
<1> DEFINE t == k.ksCurThread
<1>1. k \in KState /\ Consistent(k) /\ SchedInv(k, {}) /\ t \in Threads /\ isRunnable(k, t)
      /\ ~k.tcbQueued[t]
  BY DEF KernelOK, OK, Consistent, Runs
<1>2. CASE handler = Null
  <2> DEFINE k1 == setThreadState(k, t, "Inactive")
  <2>1. k.ksSchedulerAction # t
    BY <1>1, RunsFacts
  <2>2. NotBlocking \in Blocking
    BY DEF NotBlocking, Blocking
  <2>3. /\ "Inactive" \in ThreadStates /\ "Inactive" \notin RunnableStates
        /\ "Inactive" \notin WaitStates
    BY DEF ThreadStates, StoppedStates, RunnableStates, WaitStates, EPBlocked
  <2>4. Restated(k, k1, t, "Inactive", NotBlocking) /\ SchedInv(k1, {})
    BY <1>1, <2>1, <2>2, <2>3, BlockInv DEF setThreadState
  <2> HIDE DEF k1, t
  <2>5. k.tsType[t] \notin WaitStates /\ callerSlots(k, t) = {}
    BY <1>1, RunningFacts
  <2>6. Consistent(k1)
    BY <1>1, <2>3, <2>4, <2>5, ConsistentRestated
  <2> QED BY <1>2, <2>6 DEF handleFault, k1, t
<1>3. CASE handler # Null
  <2> DEFINE k1 == [k EXCEPT !.tcbFault[t] = TRUE]
  <2>1. KernelOK(k1) /\ SameCore(k, k1)
    BY FaultInv
  <2>2. handleFault(k, t, handler) = sendIPC(k1, TRUE, TRUE, handler.badge, TRUE, t, handler.ep)
    BY <1>3 DEF handleFault
  <2> HIDE DEF k1
  <2>3. Runs(k1) /\ k1.ksCurThread = t /\ k1.live = k.live
    BY <2>1, RunsSame DEF SameCore, SameBase, SameScheduling
  <2> HIDE DEF t
  <2>4. Consistent(sendIPC(k1, TRUE, TRUE, handler.badge, TRUE, k1.ksCurThread, handler.ep))
    BY <1>3, <2>1, <2>3, SendIPCInv
  <2> QED BY <2>2, <2>3, <2>4 DEF t
<1> QED BY <1>2, <1>3

\* handleRecv by the current thread.
LEMMA HandleRecvInv ==
  ASSUME NEW k, KernelOK(k), Runs(k), NEW obj, obj \in k.live \cup {Null}, NEW isBlocking, NEW handler,
         handler # Null => /\ handler.ep \in Endpoints /\ handler.ep \in k.live
                           /\ handler.badge \in Badges
  PROVE  Consistent(handleRecv(k, obj, isBlocking, handler))
<1> DEFINE t == k.ksCurThread
<1>1. k \in KState /\ Consistent(k) /\ OK(k) /\ t \in Threads /\ t \in ReplySlots
  BY DEF KernelOK, OK, Runs, ReplySlots
<1>2. CASE obj \in Endpoints
  <2> DEFINE k1 == deleteCallerCap(k, t)
  <2>1. /\ Consistent(k1) /\ SameBase(k, k1) /\ k1.replyCap = [k.replyCap EXCEPT ![t] = Null]
    BY <1>1, DeleteOneInv DEF deleteCallerCap
  <2>2. OK(k1)
    BY <1>1, KeptDeleteOne DEF Kept, deleteCallerCap
  <2>3. handleRecv(k, obj, isBlocking, handler) = receiveIPC(k1, t, obj, isBlocking)
    BY <1>2 DEF handleRecv
  <2> HIDE DEF k1
  <2>4. k.replyCap \in [ReplySlots -> Threads \cup {Null}]
    BY <1>1 DEF KState
  <2>5. Runs(k1) /\ k1.ksCurThread = t /\ k1.live = k.live /\ k1.replyCap[t] = Null
    BY <1>1, <2>1, <2>4, RunsSame DEF SameBase, SameScheduling
  <2>6. obj \in k1.live
    BY <1>2, <2>5
  <2> HIDE DEF t
  <2>7. Consistent(receiveIPC(k1, k1.ksCurThread, obj, isBlocking))
    BY <1>2, <2>1, <2>2, <2>5, <2>6, ReceiveIPCInv DEF KernelOK
  <2> QED BY <2>3, <2>5, <2>7
<1>3. CASE obj \notin Endpoints /\ obj \in Notifications /\ k.ntfnBoundTCB[obj] \in {Null, t}
  <2>1. obj \in k.live
    BY <1>3
  <2>2. handleRecv(k, obj, isBlocking, handler) = receiveSignal(k, t, obj, isBlocking)
    BY <1>3 DEF handleRecv
  <2> QED BY <1>3, <2>1, <2>2, ReceiveSignalInv
<1>4. CASE obj \notin Endpoints /\ ~(obj \in Notifications /\ k.ntfnBoundTCB[obj] \in {Null, t})
  <2>1. handleRecv(k, obj, isBlocking, handler) = handleFault(k, t, handler)
    BY <1>4 DEF handleRecv
  <2> QED BY <2>1, HandleFaultInv
<1> QED BY <1>2, <1>3, <1>4

-----------------------------------------------------------------------------
(* Invocations *)

\* A handler starts here: the current thread runs, and goes on unless told otherwise.
Entered(k) ==
  /\ KernelOK(k)
  /\ k.ksCurThread \in Threads
  /\ k.ksSchedulerAction = ResumeCurrentThread

\* beginInvocation and finishInvocation move the current thread between two
\* runnable states.
LEMMA BeginInvocationInv ==
  ASSUME NEW k, Entered(k)
  PROVE  LET k1 == beginInvocation(k)
         IN  /\ Entered(k1) /\ Runs(k1)
             /\ Restated(k, k1, k.ksCurThread, "Restart", NotBlocking)
<1> DEFINE t  == k.ksCurThread
           k1 == beginInvocation(k)
<1>1. k \in KState /\ Consistent(k) /\ SchedInv(k, {}) /\ t \in Threads /\ OK(k)
  BY DEF Entered, KernelOK, OK, Consistent
<1>2. isRunnable(k, t)
  BY <1>1, EnterRuns DEF Entered, Runs
<1>3. "Restart" \in ThreadStates /\ "Restart" \in RunnableStates /\ "Restart" \notin WaitStates
  BY DEF ThreadStates, RunnableStates, WaitStates, EPBlocked
<1>4. k1 = setThreadState(k, t, "Restart")
  BY DEF beginInvocation
<1> HIDE DEF k1, t
<1>5. Restated(k, k1, t, "Restart", NotBlocking) /\ SchedInv(k1, {})
  BY <1>1, <1>2, <1>3, <1>4, SetStateInv
<1>6. k1.ksSchedulerAction = k.ksSchedulerAction
  <2>1. StateStored(k, k1, t, "Restart", NotBlocking)
    BY <1>1, <1>3, <1>4, SetStateEffect
  <2> QED BY <1>3, <2>1 DEF StateStored
<1>7. Consistent(k1)
  BY <1>1, <1>2, <1>3, <1>5, RunningFacts, ConsistentRestated
<1>8. OK(k1) /\ k1.ksCurThread = t
  BY <1>1, KeptInvocation DEF Kept, k1, t
<1>9. Entered(k1)
  BY <1>1, <1>6, <1>7, <1>8 DEF Entered, KernelOK
<1>10. Runs(k1)
  BY <1>5, <1>9, EnterRuns DEF Entered
<1> QED BY <1>5, <1>9, <1>10 DEF k1, t

\* finishInvocation, whatever the invocation has done to the current thread.
LEMMA FinishInvocationInv ==
  ASSUME NEW k \in KState, Consistent(k), k.ksCurThread \in Threads
  PROVE  Consistent(finishInvocation(k))
<1> DEFINE t  == k.ksCurThread
           k1 == setThreadState(k, t, "Running")
<1>1. CASE k.tsType[t] = "Restart"
  <2>1. SchedInv(k, {}) /\ isRunnable(k, t)
    BY <1>1 DEF Consistent, isRunnable, RunnableStates
  <2>2. "Running" \in ThreadStates /\ "Running" \in RunnableStates /\ "Running" \notin WaitStates
    BY DEF ThreadStates, RunnableStates, WaitStates, EPBlocked
  <2>3. Restated(k, k1, t, "Running", NotBlocking) /\ SchedInv(k1, {})
    BY <2>1, <2>2, SetStateInv
  <2> HIDE DEF k1
  <2>4. /\ t \in k.live /\ k.replyMaster[t] /\ k.tsType[t] \notin WaitStates
        /\ callerSlots(k, t) = {}
    BY <2>1, RunningFacts
  <2> HIDE DEF t
  <2>5. t \in Threads
    BY DEF t
  <2>6. Consistent(k1)
    BY <2>2, <2>3, <2>4, <2>5, ConsistentRestated
  <2> QED BY <1>1, <2>6 DEF finishInvocation, k1, t
<1>2. CASE k.tsType[t] # "Restart"
  BY <1>2 DEF finishInvocation
<1> QED BY <1>1, <1>2

-----------------------------------------------------------------------------
(* Functions of the scheduler, as invocations use them *)

\* A function that only schedules.
LEMMA ConsistentScheduled ==
  ASSUME NEW k, Consistent(k), NEW k1, SameObjects(k, k1), k1.tsType = k.tsType,
         k1.blocking = k.blocking, k1.asserts = k.asserts, SchedInv(k1, {})
  PROVE  Consistent(k1)
BY ObjectsInvSame DEF Consistent

\* rescheduleRequired.
LEMMA RescheduleInv ==
  ASSUME NEW k \in KState, Consistent(k)
  PROVE  /\ Consistent(rescheduleRequired(k)) /\ rescheduleRequired(k) \in KState
         /\ rescheduleRequired(k).ksCurThread = k.ksCurThread
<1> DEFINE k1 == rescheduleRequired(k)
<1>1. SchedInv(k1, {})
  BY SchedInvReschedule DEF Consistent, SchedInv, QueuesInv
<1>2. Requeued(k, k1)
  BY RescheduleEffect
<1> HIDE DEF k1
<1>3. Consistent(k1)
  BY <1>1, <1>2, ConsistentScheduled DEF Requeued, Framed, SameFrame, SameSwitch
<1> QED BY <1>2, <1>3 DEF k1, Requeued, Framed, SameFrame

\* Yield, and the invocations that change what the scheduler goes by.
LEMMA SchedulingInv ==
  ASSUME NEW k, Entered(k), Runs(k)
  PROVE  /\ Consistent(handleYield(k))
         /\ \A t \in Threads, p \in Prios : Consistent(setPriority(k, t, p))
         /\ HasDomainCap(k) =>
              \A t \in Threads, d \in Domains : Consistent(setDomain(k, t, d))
<1>1. /\ k \in KState /\ Consistent(k) /\ SchedInv(k, {}) /\ k.ksCurThread \in Threads
      /\ isRunnable(k, k.ksCurThread) /\ k.ksSchedulerAction = ResumeCurrentThread
  BY DEF Entered, KernelOK, OK, Consistent, Runs
<1>2. Consistent(handleYield(k))
  <2>1. Requeued(k, handleYield(k)) /\ SchedInv(handleYield(k), {})
    BY <1>1, YieldInv
  <2> QED BY <1>1, <2>1, ConsistentScheduled DEF Requeued, Framed, SameFrame, SameSwitch
<1>3. ASSUME NEW t \in Threads, NEW p \in Prios PROVE Consistent(setPriority(k, t, p))
  <2>1. Reparametrised(k, setPriority(k, t, p)) /\ SchedInv(setPriority(k, t, p), {})
    BY <1>1, SetPriorityInv
  <2> QED BY <1>1, <2>1, ConsistentScheduled DEF Reparametrised, Framed, SameFrame, SameSwitch
<1>4. ASSUME HasDomainCap(k), NEW t \in Threads, NEW d \in Domains
      PROVE  Consistent(setDomain(k, t, d))
  <2>1. Reparametrised(k, setDomain(k, t, d)) /\ SchedInv(setDomain(k, t, d), {})
    BY <1>1, <1>4, SetDomainInv
  <2> QED BY <1>1, <2>1, ConsistentScheduled DEF Reparametrised, Framed, SameFrame, SameSwitch
<1> QED BY <1>2, <1>3, <1>4

\* The timer interrupt.
LEMMA TimerInv ==
  ASSUME NEW k \in KState, Consistent(k), k.ksDomainTime > 0
  PROVE  Consistent(timerTick(k))
<1>1. Ticked(k, timerTick(k)) /\ SchedInv(timerTick(k), {})
  BY TimerTickInv DEF Consistent
<1> QED BY <1>1, ConsistentScheduled DEF Ticked

-----------------------------------------------------------------------------
(* Bindings and object lifetime *)

\* The two ends of a binding are set to nb and tb.
Rebound(k, k1, t, n, nb, tb) ==
  k1 = [k EXCEPT !.ntfnBoundTCB[n] = nb, !.tcbBoundNotification[t] = tb]

\* bindNotification and doUnbindNotification.
LEMMA BindingInv ==
  ASSUME NEW k \in KState, Consistent(k), NEW t \in Threads, NEW n \in Notifications,
         NEW nb \in Threads \cup {Null}, NEW tb \in Notifications \cup {Null},
         nb = Null \/ n \in k.live, tb = Null \/ t \in k.live,
         NEW k1, Rebound(k, k1, t, n, nb, tb)
  PROVE  /\ Consistent(k1) /\ SameScheduling(k, k1) /\ k1.live = k.live
         /\ k1.tcbBoundNotification[t] = tb /\ k1.ntfnBoundTCB[n] = nb
<1>1. /\ SameScheduling(k, k1) /\ SameEPs(k, k1) /\ SameNtfns(k, k1) /\ SameReplies(k, k1)
      /\ k1.live = k.live /\ k1.blocking = k.blocking /\ k1.asserts = k.asserts
      /\ k1.ntfnBoundTCB = [k.ntfnBoundTCB EXCEPT ![n] = nb]
      /\ k1.tcbBoundNotification = [k.tcbBoundNotification EXCEPT ![t] = tb]
  BY DEF Rebound, KState, SameScheduling, SameEPs, SameNtfns, SameReplies
<1>2. /\ k.ntfnBoundTCB \in [Notifications -> Threads \cup {Null}]
      /\ k.tcbBoundNotification \in [Threads -> Notifications \cup {Null}]
  BY DEF KState
<1>3. /\ k1.ntfnBoundTCB[n] = nb /\ k1.tcbBoundNotification[t] = tb
      /\ \A m \in Notifications \ {n} : k1.ntfnBoundTCB[m] = k.ntfnBoundTCB[m]
      /\ \A u \in Threads \ {t} : k1.tcbBoundNotification[u] = k.tcbBoundNotification[u]
  BY <1>1, <1>2
<1>4. LiveOK(k1)
  BY <1>1, <1>3 DEF Consistent, ObjectsInv, ThreadsInv, LiveOK, SameScheduling, SameEPs, SameNtfns, SameReplies
<1>5. ObjectsInv(k1)
  BY <1>1, <1>4 DEF Consistent, ObjectsInv, ThreadsInv, SameScheduling, SameEPs, SameNtfns, SameReplies
<1>6. SchedInv(k1, {})
  BY <1>1, SchedInvSame DEF Consistent
<1> QED BY <1>1, <1>3, <1>5, <1>6 DEF Consistent

\* unbindNotification and unbindMaybeNotification.
LEMMA UnbindInv ==
  ASSUME NEW k, KernelOK(k)
  PROVE  /\ \A t \in Threads : LET k1 == unbindNotification(k, t)
                               IN  /\ KernelOK(k1) /\ SameScheduling(k, k1) /\ k1.live = k.live
                                   /\ k1.tcbBoundNotification[t] = Null
         /\ \A n \in Notifications : LET k1 == unbindMaybeNotification(k, n)
                                     IN  /\ KernelOK(k1) /\ SameScheduling(k, k1) /\ k1.live = k.live
                                         /\ k1.ntfnBoundTCB[n] = Null
<1>1. k \in KState /\ Consistent(k) /\ OK(k)
  BY DEF KernelOK, OK
<1>2. SameScheduling(k, k)
  BY DEF SameScheduling
<1>3. ASSUME NEW t \in Threads
      PROVE  LET k1 == unbindNotification(k, t)
             IN  /\ KernelOK(k1) /\ SameScheduling(k, k1) /\ k1.live = k.live
                 /\ k1.tcbBoundNotification[t] = Null
  <2>1. CASE k.tcbBoundNotification[t] = Null
    BY <1>2, <2>1 DEF unbindNotification
  <2>2. CASE k.tcbBoundNotification[t] # Null
    <3> DEFINE n  == k.tcbBoundNotification[t]
               k1 == [k EXCEPT !.ntfnBoundTCB[n] = Null, !.tcbBoundNotification[t] = Null]
    <3>1. n \in Notifications
      BY <1>1, <2>2 DEF KState
    <3>2. unbindNotification(k, t) = k1
      BY <2>2 DEF unbindNotification, doUnbindNotification
    <3>3. OK(k1)
      BY <1>1, <3>2, KeptUnbind DEF Kept
    <3> HIDE DEF n
    <3>4. /\ Consistent(k1) /\ SameScheduling(k, k1) /\ k1.live = k.live
          /\ k1.tcbBoundNotification[t] = Null
      <4>1. Null \in Threads \cup {Null} /\ Null \in Notifications \cup {Null}
        OBVIOUS
      <4>2. Rebound(k, k1, t, n, Null, Null)
        BY DEF Rebound
      <4> HIDE DEF k1
      <4> QED BY <1>1, <3>1, <4>1, <4>2, BindingInv
    <3> QED BY <3>2, <3>3, <3>4 DEF KernelOK
  <2> QED BY <2>1, <2>2
<1>4. ASSUME NEW n \in Notifications
      PROVE  LET k1 == unbindMaybeNotification(k, n)
             IN  /\ KernelOK(k1) /\ SameScheduling(k, k1) /\ k1.live = k.live
                 /\ k1.ntfnBoundTCB[n] = Null
  <2>1. CASE k.ntfnBoundTCB[n] = Null
    BY <1>2, <2>1 DEF unbindMaybeNotification
  <2>2. CASE k.ntfnBoundTCB[n] # Null
    <3> DEFINE t  == k.ntfnBoundTCB[n]
               k1 == [k EXCEPT !.ntfnBoundTCB[n] = Null, !.tcbBoundNotification[t] = Null]
    <3>1. t \in Threads
      BY <1>1, <2>2 DEF KState
    <3>2. unbindMaybeNotification(k, n) = k1
      BY <2>2 DEF unbindMaybeNotification, doUnbindNotification
    <3>3. OK(k1)
      BY <1>1, <3>2, KeptUnbind DEF Kept
    <3> HIDE DEF t
    <3>4. /\ Consistent(k1) /\ SameScheduling(k, k1) /\ k1.live = k.live
          /\ k1.ntfnBoundTCB[n] = Null
      <4>1. Null \in Threads \cup {Null} /\ Null \in Notifications \cup {Null}
        OBVIOUS
      <4>2. Rebound(k, k1, t, n, Null, Null)
        BY DEF Rebound
      <4> HIDE DEF k1
      <4> QED BY <1>1, <3>1, <4>1, <4>2, BindingInv
    <3> QED BY <3>2, <3>3, <3>4 DEF KernelOK
  <2> QED BY <2>1, <2>2
<1> QED BY <1>3, <1>4

=============================================================================
