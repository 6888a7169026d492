--------------------------- MODULE KernelLockProofs ---------------------------
(***************************************************************************)
(* Proofs about the big kernel lock and the remote calls, for any number   *)
(* of cores: the nodes always make up a queue, the lock implements         *)
(* FIFOLock, and a remote call has the owner of the lock waiting for it.   *)
(***************************************************************************)
EXTENDS KernelLockProperties, SequenceTheorems, FiniteSetTheorems, TLAPS

-----------------------------------------------------------------------------
(* The inductive invariant *)

Calling == {"arrive", "barrier"}

Owners == {"kernel", "activate"}

\* A core outside the queue has the node that it released last for its predecessor.
Queued(c) == lock.next[c] # lock.node[c]

OwnNodes == \A c, d \in Cores : lock.node[c] = lock.node[d] => c = d

\* The node that belongs to no core.
FreeNode(s) == IF s = <<>> THEN lock.head ELSE lock.next[s[1]]

\* The queue, with each core in it once and no other core.
Chain(s) ==
  /\ s \in Seq(Cores) /\ IsQueue(s)
  /\ \A i, j \in DOMAIN s : s[i] = s[j] => i = j
  /\ \A c \in Cores : (\E i \in DOMAIN s : s[i] = c) <=> Queued(c)
  /\ \A c \in Cores : lock.node[c] # FreeNode(s)

\* Where a core is says whether it is in the queue, and what its node holds.
PlaceInv(c) ==
  /\ at(c) = "user" => lock.value[lock.node[c]] = "Granted"
  /\ at(c) # "user" => lock.value[lock.node[c]] = "Pending"
  /\ at(c) \in {"user", "exchange"} => ~Queued(c)
  /\ at(c) = "wait" => Queued(c)
  /\ at(c) \in Owners => Queued(c) /\ granted(c)

LockInv ==
  /\ OwnNodes
  /\ \E s : Chain(s)
  /\ \A c \in Cores : PlaceInv(c)

\* The core that makes a remote call, until the call is over.
Caller(c) ==
  /\ core[c].ret = "kernel"
  /\ \/ core[c].pc = "arrive"
     \/ core[c].pc = "barrier" /\ core[c].localsense = bar.globalsense

\* The cores that have not arrived at the barrier of the remote call.
Awaited == {c \in Cores : core[c].pc = "arrive"} \cup lock.ipi

CallInv ==
  /\ \A c \in lock.ipi : core[c].pc # "arrive"
  /\ bar.remoteCall = "none" => Awaited = {} /\ bar.count = 0
  /\ bar.remoteCall # "none" =>
       /\ Cardinality(Awaited) + bar.count = bar.totalCoreBarrier + 1
       /\ \E d \in Cores : Caller(d)
  /\ bar.remoteCall = "Stall" => \A c \in lock.ipi : core[c].cur = "thread"

\* A core that is stalled runs the idle thread until it is rescheduled.
StallInv ==
  /\ \A c \in Cores :
       /\ at(c) \in {"stallWait", "activate"} => core[c].cur = "idle"
       /\ at(c) # "kernel" => core[c].ipiReschedulePending = {}
       /\ core[c].asserts
  /\ \A c \in Cores : \A d \in core[c].ipiReschedulePending :
       core[d].cur = "idle" \/ (bar.remoteCall = "Stall" /\ d \in lock.ipi)

\* A core that cannot leave the barrier as it is now.
Held(c) == core[c].pc = "barrier" /\ core[c].localsense = bar.globalsense

\* Of two cores, both take part in every remote call: each is awaited at its barrier or is
\* held there, and only there.
BarrierInv ==
  TwoCores => \A c \in Cores :
    /\ bar.remoteCall # "none" => c \in Awaited \/ Held(c)
    /\ Held(c) => bar.remoteCall # "none" /\ c \notin lock.ipi

\* Where the exchange does not fail, a core stalled in a system call is in the queue.
ExchangeInv ==
  ~ExchangeMayFail => \A c \in Cores : at(c) = "stallWait" => Queued(c)

IInv == TypeOK /\ LockInv /\ CallInv /\ StallInv /\ BarrierInv /\ ExchangeInv

-----------------------------------------------------------------------------
(* The queue *)

\* A set of natural numbers that is not empty has a least element.
LEMMA Minimum ==
  ASSUME NEW S, S \subseteq Nat, S # {}
  PROVE  \E m \in S : \A x \in S : m <= x
<1> DEFINE R == OpToRel(<, Nat)
<1>1. IsWellFoundedOn(R, Nat)
  BY NatLessThanWellFounded
<1>2. ASSUME NEW x \in Nat, NEW y \in Nat, x < y PROVE <<x, y>> \in R
  BY <1>2 DEF OpToRel
<1> HIDE DEF R
<1>3. PICK m \in S : \A z \in S : ~ (<<z, m>> \in R)
  BY <1>1, WFMin, Zenon
<1>4. ASSUME NEW x \in S PROVE m <= x
  <2>1. m \in Nat /\ x \in Nat
    OBVIOUS
  <2>2. ~(x < m)
    BY <1>2, <1>3, <2>1
  <2> QED BY <2>1, <2>2
<1> QED BY <1>4

\* Two queues that end alike are the same: each core has a node of its own, so going back
\* from the head of the lock finds the same cores, and the first granted node ends both.
LEMMA QueueUnique ==
  ASSUME OwnNodes, NEW s \in Seq(Cores), NEW t \in Seq(Cores), IsQueue(s), IsQueue(t)
  PROVE  s = t
<1> DEFINE Differ == {k \in Nat : k < Len(s) /\ k < Len(t) /\ s[Len(s) - k] # t[Len(t) - k]}
<1>1. Len(s) \in Nat /\ Len(t) \in Nat /\ DOMAIN s = 1 .. Len(s) /\ DOMAIN t = 1 .. Len(t)
  OBVIOUS
<1>2. \A i \in 1 .. Len(s) : s[i] \in Cores
  OBVIOUS
<1>3. \A i \in 1 .. Len(t) : t[i] \in Cores
  OBVIOUS
<1>4. /\ \A i \in 1 .. Len(s) : /\ lock.value[lock.node[s[i]]] = "Pending"
                                /\ i = 1 => lock.value[lock.next[s[i]]] = "Granted"
                                /\ i # 1 => lock.next[s[i]] = lock.node[s[i - 1]]
      /\ \A i \in 1 .. Len(t) : /\ lock.value[lock.node[t[i]]] = "Pending"
                                /\ i = 1 => lock.value[lock.next[t[i]]] = "Granted"
                                /\ i # 1 => lock.next[t[i]] = lock.node[t[i - 1]]
  BY <1>1 DEF IsQueue
<1>5. /\ Len(s) = 0 => lock.value[lock.head] = "Granted"
      /\ Len(s) # 0 => lock.head = lock.node[s[Len(s)]]
      /\ Len(t) = 0 => lock.value[lock.head] = "Granted"
      /\ Len(t) # 0 => lock.head = lock.node[t[Len(t)]]
  BY DEF IsQueue
<1>6. Len(s) = 0 <=> Len(t) = 0
  BY <1>1, <1>4, <1>5
<1>7. Differ = {}
  <2> SUFFICES ASSUME Differ # {} PROVE FALSE
    OBVIOUS
  <2>1. PICK k \in Differ : \A j \in Differ : k <= j
    BY Minimum
  <2>2. k \in Nat /\ k < Len(s) /\ k < Len(t) /\ s[Len(s) - k] # t[Len(t) - k]
    BY <2>1
  <2>3. CASE k = 0
    BY <2>2, <2>3, <1>1, <1>2, <1>3, <1>5 DEF OwnNodes
  <2>4. CASE k # 0
    <3>1. k - 1 \in Nat /\ k - 1 < Len(s) /\ k - 1 < Len(t) /\ ~(k <= k - 1)
      BY <2>2, <2>4, <1>1
    <3>2. k - 1 \notin Differ
      BY <2>1, <3>1
    <3>3. s[Len(s) - (k - 1)] = t[Len(t) - (k - 1)]
      BY <3>1, <3>2
    <3> DEFINE i == Len(s) - (k - 1)
               j == Len(t) - (k - 1)
    <3>4. i \in 2 .. Len(s) /\ j \in 2 .. Len(t) /\ i - 1 = Len(s) - k /\ j - 1 = Len(t) - k
      BY <2>2, <2>4, <1>1
    <3> HIDE DEF i, j
    <3>5. lock.next[s[i]] = lock.node[s[i - 1]] /\ lock.next[t[j]] = lock.node[t[j - 1]]
      <4>1. i \in 1 .. Len(s) /\ i # 1 /\ j \in 1 .. Len(t) /\ j # 1
        BY <3>4, <1>1, SMTT(40)
      <4> QED BY <4>1, <1>4
    <3>6. s[i - 1] \in Cores /\ t[j - 1] \in Cores
      BY <3>4, <1>1, <1>2, <1>3
    <3>7. s[i - 1] = t[j - 1]
      BY <3>3, <3>5, <3>6 DEF OwnNodes, i, j
    <3> QED BY <3>4, <3>7, <2>2
  <2> QED BY <2>3, <2>4
<1>8. \A k \in Nat : k < Len(s) /\ k < Len(t) => s[Len(s) - k] = t[Len(t) - k]
  BY <1>7
<1> HIDE DEF Differ
<1>9. ~(Len(s) < Len(t))
  <2> SUFFICES ASSUME Len(s) < Len(t) PROVE FALSE
    OBVIOUS
  <2>1. Len(s) > 0
    BY <1>1, <1>6
  <2> DEFINE j == Len(t) - (Len(s) - 1)
  <2>2. /\ j \in 1 .. Len(t) /\ j # 1 /\ j - 1 \in 1 .. Len(t)
        /\ Len(s) - 1 \in Nat /\ Len(s) - (Len(s) - 1) = 1
    BY <1>1, <2>1
  <2>3. s[1] = t[j]
    <3>1. Len(s) - 1 < Len(s) /\ Len(s) - 1 < Len(t)
      BY <1>1
    <3> QED BY <2>2, <3>1, <1>8
  <2> HIDE DEF j
  <2>4. lock.value[lock.next[s[1]]] = "Granted"
    BY <2>1, <1>1, <1>4
  <2>5. lock.next[t[j]] = lock.node[t[j - 1]] /\ lock.value[lock.node[t[j - 1]]] = "Pending"
    BY <2>2, <1>4
  <2> QED BY <2>3, <2>4, <2>5
<1>10. ~(Len(t) < Len(s))
  <2> SUFFICES ASSUME Len(t) < Len(s) PROVE FALSE
    OBVIOUS
  <2>1. Len(t) > 0
    BY <1>1, <1>6
  <2> DEFINE j == Len(s) - (Len(t) - 1)
  <2>2. /\ j \in 1 .. Len(s) /\ j # 1 /\ j - 1 \in 1 .. Len(s)
        /\ Len(t) - 1 \in Nat /\ Len(t) - (Len(t) - 1) = 1
    BY <1>1, <2>1
  <2>3. t[1] = s[j]
    <3>1. Len(t) - 1 < Len(t) /\ Len(t) - 1 < Len(s)
      BY <1>1
    <3> QED BY <2>2, <3>1, <1>8
  <2> HIDE DEF j
  <2>4. lock.value[lock.next[t[1]]] = "Granted"
    BY <2>1, <1>1, <1>4
  <2>5. lock.next[s[j]] = lock.node[s[j - 1]] /\ lock.value[lock.node[s[j - 1]]] = "Pending"
    BY <2>2, <1>4
  <2> QED BY <2>3, <2>4, <2>5
<1>11. Len(s) = Len(t)
  <2>1. \A m, n \in Nat : ~(m < n) /\ ~(n < m) => m = n
    OBVIOUS
  <2> QED BY <2>1, <1>1, <1>9, <1>10
<1>12. \A i \in 1 .. Len(s) : s[i] = t[i]
  <2> TAKE i \in 1 .. Len(s)
  <2>1. Len(s) - i \in Nat /\ Len(s) - i < Len(s) /\ Len(s) - (Len(s) - i) = i
    BY <1>1
  <2> QED BY <2>1, <1>8, <1>11
<1> QED BY <1>1, <1>11, <1>12

\* A queue has no more members than there are cores.
LEMMA ChainBounded ==
  ASSUME NEW s, Chain(s)
  PROVE  s \in CoreSeqs
<1>1. s \in Seq(Cores) /\ \A i, j \in DOMAIN s : s[i] = s[j] => i = j
  BY DEF Chain
<1>2. Len(s) \in Nat /\ s \in [1 .. Len(s) -> Cores]
  BY <1>1
<1>3. s \in Injection(1 .. Len(s), Cores)
  BY <1>1, <1>2 DEF Injection, IsInjective
<1>4. Cardinality(1 .. Len(s)) <= Cardinality(Cores)
  BY <1>3, FS_Injection, LockAssumption
<1>5. Cardinality(1 .. Len(s)) = Len(s)
  BY <1>2, FS_Interval
<1>6. Cardinality(Cores) \in Nat
  BY FS_CardinalityType, LockAssumption
<1>7. Len(s) \in 0 .. Cardinality(Cores)
  BY <1>2, <1>4, <1>5, <1>6
<1> QED BY <1>2, <1>7 DEF CoreSeqs, BoundedSeq, SeqOf

\* The queue of the refinement mapping is the one the invariant speaks of.
LEMMA ChainIsQueue ==
  ASSUME OwnNodes, NEW s, Chain(s)
  PROVE  queue = s
<1>1. s \in CoreSeqs /\ s \in Seq(Cores) /\ IsQueue(s)
  BY ChainBounded DEF Chain
<1>2. queue \in CoreSeqs /\ IsQueue(queue)
  BY <1>1 DEF queue
<1>3. queue \in Seq(Cores)
  <2>1. PICK n \in 0 .. Cardinality(Cores) : queue \in [1 .. n -> Cores]
    BY <1>2 DEF CoreSeqs, BoundedSeq, SeqOf
  <2>2. Cardinality(Cores) \in Nat
    BY FS_CardinalityType, LockAssumption
  <2> QED BY <2>1, <2>2
<1> QED BY <1>1, <1>2, <1>3, QueueUnique

\* The same in one formula, which holds in every state.
LEMMA ChainsAreQueues == OwnNodes => \A q : Chain(q) => queue = q
BY ChainIsQueue

\* What is known of a queue, element by element.
LEMMA ChainFacts ==
  ASSUME NEW s, Chain(s)
  PROVE  /\ Len(s) \in Nat /\ DOMAIN s = 1 .. Len(s)
         /\ s = <<>> <=> Len(s) = 0
         /\ \A i \in 1 .. Len(s) :
              /\ s[i] \in Cores /\ Queued(s[i])
              /\ lock.value[lock.node[s[i]]] = "Pending"
              /\ i = 1 => lock.value[lock.next[s[i]]] = "Granted"
              /\ i # 1 => lock.next[s[i]] = lock.node[s[i - 1]]
         /\ Len(s) = 0 => lock.value[lock.head] = "Granted" /\ FreeNode(s) = lock.head
         /\ Len(s) # 0 => lock.head = lock.node[s[Len(s)]] /\ FreeNode(s) = lock.next[s[1]]
<1>1. s \in Seq(Cores) /\ IsQueue(s) /\ \A c \in Cores : (\E i \in DOMAIN s : s[i] = c) <=> Queued(c)
  BY DEF Chain
<1>2. Len(s) \in Nat /\ DOMAIN s = 1 .. Len(s) /\ (s = <<>> <=> Len(s) = 0)
  BY <1>1
<1>3. \A i \in 1 .. Len(s) : s[i] \in Cores
  BY <1>1
<1>4. \A i \in 1 .. Len(s) : Queued(s[i])
  BY <1>1, <1>2, <1>3
<1>5. \A i \in 1 .. Len(s) :
        /\ lock.value[lock.node[s[i]]] = "Pending"
        /\ i = 1 => lock.value[lock.next[s[i]]] = "Granted"
        /\ i # 1 => lock.next[s[i]] = lock.node[s[i - 1]]
  BY <1>1, <1>2 DEF IsQueue
<1>6. /\ Len(s) = 0 => lock.value[lock.head] = "Granted" /\ FreeNode(s) = lock.head
      /\ Len(s) # 0 => lock.head = lock.node[s[Len(s)]] /\ FreeNode(s) = lock.next[s[1]]
  BY <1>1, <1>2 DEF IsQueue, FreeNode
<1> QED BY <1>2, <1>3, <1>4, <1>5, <1>6

\* A core in the queue whose predecessor is granted is the first.
LEMMA GrantedFirst ==
  ASSUME NEW s, Chain(s), NEW c \in Cores, Queued(c), granted(c)
  PROVE  s # <<>> /\ s[1] = c
<1>1. PICK i \in DOMAIN s : s[i] = c
  BY DEF Chain
<1>2. i \in 1 .. Len(s) /\ Len(s) \in Nat
  BY <1>1, ChainFacts
<1>3. CASE i = 1
  BY <1>1, <1>2, <1>3, ChainFacts
<1>4. CASE i # 1
  <2>1. i - 1 \in 1 .. Len(s)
    BY <1>2, <1>4
  <2>2. lock.next[c] = lock.node[s[i - 1]] /\ lock.value[lock.node[s[i - 1]]] = "Pending"
    BY <1>1, <1>2, <1>4, <2>1, ChainFacts
  <2> QED BY <2>2 DEF granted
<1> QED BY <1>3, <1>4

\* The lock has one owner.
LEMMA MutualExclusion ==
  ASSUME LockInv, NEW c \in Cores, NEW d \in Cores, at(c) \in Owners, at(d) \in Owners
  PROVE  c = d
<1>1. PICK s : Chain(s)
  BY DEF LockInv
<1>2. Queued(c) /\ granted(c) /\ Queued(d) /\ granted(d)
  BY DEF LockInv, PlaceInv
<1> QED BY <1>1, <1>2, GrantedFirst

\* The step leaves the nodes of the lock alone.
SameNodes ==
  /\ lock'.value = lock.value /\ lock'.node = lock.node
  /\ lock'.next = lock.next /\ lock'.head = lock.head

\* A step that leaves the nodes of the lock alone leaves the queue as it is.
LEMMA ChainKept ==
  ASSUME NEW s, Chain(s), SameNodes
  PROVE  Chain(s)'
BY DEF Chain, SameNodes, IsQueue, Queued, FreeNode

\* clh_lock_acquire marks the node of a core that is not in the queue.
LEMMA ChainEnter ==
  ASSUME TypeOK, OwnNodes, NEW s, Chain(s), NEW c \in Cores, ~Queued(c),
         lock' = [lock EXCEPT !.value[lock.node[c]] = "Pending"]
  PROVE  /\ Chain(s)'
         /\ lock'.node = lock.node /\ lock'.next = lock.next
         /\ lock'.value[lock.node[c]] = "Pending"
         /\ \A n \in Nodes : n # lock.node[c] => lock'.value[n] = lock.value[n]
<1>1. /\ lock'.node = lock.node /\ lock'.next = lock.next /\ lock'.head = lock.head
      /\ lock'.value[lock.node[c]] = "Pending"
      /\ \A n \in Nodes : n # lock.node[c] => lock'.value[n] = lock.value[n]
  BY DEF TypeOK
<1>2. lock.node[c] # FreeNode(s) /\ FreeNode(s)' = FreeNode(s)
  BY <1>1 DEF Chain, FreeNode
<1>3. \A d \in Cores : lock.node[d] \in Nodes /\ lock.next[d] \in Nodes
  BY DEF TypeOK
<1>4. lock.head \in Nodes
  BY DEF TypeOK
<1>5. \A i \in DOMAIN s :
        /\ lock'.value[lock'.node[s[i]]] = "Pending"
        /\ IF i = 1 THEN lock'.value[lock'.next[s[i]]] = "Granted"
           ELSE lock'.next[s[i]] = lock'.node[s[i - 1]]
  <2> TAKE i \in DOMAIN s
  <2>1. i \in 1 .. Len(s) /\ Len(s) \in Nat /\ s[i] \in Cores
    BY ChainFacts
  <2>2. lock'.value[lock'.node[s[i]]] = "Pending"
    BY <2>1, <1>1, <1>3, ChainFacts
  <2>3. ASSUME i = 1 PROVE lock'.value[lock'.next[s[i]]] = "Granted"
    <3>1. lock.next[s[1]] = FreeNode(s)
      BY <2>1, <2>3, ChainFacts
    <3> QED BY <3>1, <2>1, <2>3, <1>1, <1>2, <1>3, ChainFacts
  <2>4. ASSUME i # 1 PROVE lock'.next[s[i]] = lock'.node[s[i - 1]]
    BY <2>1, <2>4, <1>1, ChainFacts
  <2> QED BY <2>2, <2>3, <2>4
<1>6. IF s = <<>> THEN lock'.value[lock'.head] = "Granted" ELSE lock'.head = lock'.node[s[Len(s)]]
  BY <1>1, <1>2, <1>4, ChainFacts
<1>7. IsQueue(s)'
  BY <1>5, <1>6 DEF IsQueue
<1>8. Chain(s)'
  BY <1>1, <1>2, <1>7 DEF Chain, Queued
<1> QED BY <1>1, <1>8

\* The exchange puts a core with a marked node at the end of the queue.
LEMMA ChainExchange ==
  ASSUME TypeOK, OwnNodes, NEW s, Chain(s), NEW c \in Cores, ~Queued(c),
         lock.value[lock.node[c]] = "Pending",
         lock' = [lock EXCEPT !.next[c] = lock.head, !.head = lock.node[c]]
  PROVE  /\ Chain(Append(s, c))'
         /\ lock'.node = lock.node /\ lock'.value = lock.value
         /\ Queued(c)' /\ \A d \in Cores : d # c => lock'.next[d] = lock.next[d]
<1> DEFINE t == Append(s, c)
<1>1. /\ lock'.node = lock.node /\ lock'.value = lock.value /\ lock'.head = lock.node[c]
      /\ lock'.next[c] = lock.head
      /\ \A d \in Cores : d # c => lock'.next[d] = lock.next[d]
  BY DEF TypeOK
<1>2. s \in Seq(Cores) /\ Len(s) \in Nat /\ DOMAIN s = 1 .. Len(s)
  BY ChainFacts DEF Chain
<1>3. /\ t \in Seq(Cores) /\ Len(t) = Len(s) + 1 /\ DOMAIN t = 1 .. Len(s) + 1 /\ t # <<>>
      /\ t[Len(s) + 1] = c /\ \A i \in 1 .. Len(s) : t[i] = s[i]
  BY <1>2
<1> HIDE DEF t
<1>4. \A i \in 1 .. Len(s) : s[i] \in Cores /\ s[i] # c
  BY ChainFacts
<1>5. lock.head # lock.node[c]
  <2>1. CASE Len(s) = 0
    BY <2>1, ChainFacts DEF Chain
  <2>2. CASE Len(s) # 0
    <3>1. Len(s) \in 1 .. Len(s)
      BY <1>2, <2>2
    <3>2. lock.head = lock.node[s[Len(s)]] /\ s[Len(s)] \in Cores /\ s[Len(s)] # c
      BY <2>2, <3>1, <1>4, ChainFacts
    <3> QED BY <3>2 DEF OwnNodes
  <2> QED BY <2>1, <2>2
<1>6. Queued(c)' /\ \A d \in Cores : d # c => (Queued(d)' <=> Queued(d))
  BY <1>1, <1>5 DEF Queued
<1>7. FreeNode(t)' = FreeNode(s)
  <2>1. CASE Len(s) = 0
    BY <2>1, <1>1, <1>3, ChainFacts DEF FreeNode
  <2>2. CASE Len(s) # 0
    <3>1. 1 \in 1 .. Len(s)
      BY <1>2, <2>2
    <3>2. t[1] = s[1] /\ s[1] \in Cores /\ s[1] # c /\ s # <<>>
      BY <3>1, <1>3, <1>4, <2>2, ChainFacts
    <3> QED BY <3>2, <1>1, <1>3 DEF FreeNode
  <2> QED BY <2>1, <2>2
<1>8. \A i \in DOMAIN t :
        /\ lock'.value[lock'.node[t[i]]] = "Pending"
        /\ IF i = 1 THEN lock'.value[lock'.next[t[i]]] = "Granted"
           ELSE lock'.next[t[i]] = lock'.node[t[i - 1]]
  <2> TAKE i \in DOMAIN t
  <2>1. CASE i \in 1 .. Len(s)
    <3>1. t[i] = s[i] /\ s[i] \in Cores /\ s[i] # c
      BY <2>1, <1>3, <1>4
    <3>2. i # 1 => t[i - 1] = s[i - 1]
      <4>1. i # 1 => i - 1 \in 1 .. Len(s)
        BY <2>1, <1>2
      <4> QED BY <4>1, <1>3
    <3> QED BY <3>1, <3>2, <2>1, <1>1, ChainFacts
  <2>2. CASE i = Len(s) + 1
    <3>1. t[i] = c
      BY <2>2, <1>3
    <3>2. CASE Len(s) = 0
      BY <3>1, <3>2, <2>2, <1>1, ChainFacts
    <3>3. CASE Len(s) # 0
      <4>1. Len(s) \in 1 .. Len(s) /\ i - 1 = Len(s) /\ i # 1
        BY <3>3, <2>2, <1>2
      <4>2. t[i - 1] = s[Len(s)] /\ lock.head = lock.node[s[Len(s)]]
        BY <4>1, <3>3, <1>3, ChainFacts
      <4> QED BY <3>1, <4>1, <4>2, <1>1
    <3> QED BY <3>2, <3>3
  <2> QED BY <2>1, <2>2, <1>2, <1>3
<1>9. IsQueue(t)'
  <2>1. lock'.head = lock'.node[t[Len(t)]]
    BY <1>1, <1>3
  <2> QED BY <2>1, <1>3, <1>8 DEF IsQueue
<1>10. \A i, j \in DOMAIN t : t[i] = t[j] => i = j
  <2>1. \A i, j \in 1 .. Len(s) : s[i] = s[j] => i = j
    BY <1>2 DEF Chain
  <2> QED BY <2>1, <1>2, <1>3, <1>4
<1>11. \A d \in Cores : (\E i \in DOMAIN t : t[i] = d) <=> Queued(d)'
  <2> TAKE d \in Cores
  <2>1. CASE d = c
    <3>1. Len(s) + 1 \in DOMAIN t
      BY <1>2, <1>3
    <3> QED BY <2>1, <3>1, <1>3, <1>6
  <2>2. CASE d # c
    <3>1. (\E i \in DOMAIN t : t[i] = d) <=> (\E i \in DOMAIN s : s[i] = d)
      BY <2>2, <1>2, <1>3
    <3> QED BY <2>2, <3>1, <1>6 DEF Chain
  <2> QED BY <2>1, <2>2
<1>12. \A d \in Cores : lock'.node[d] # FreeNode(t)'
  BY <1>1, <1>7 DEF Chain
<1>13. Chain(t)'
  BY <1>3, <1>9, <1>10, <1>11, <1>12 DEF Chain
<1> QED BY <1>1, <1>6, <1>13 DEF t

\* The first of the queue leaves it: the next one is granted the lock, and the core
\* takes over the free node.
LEMMA ChainRelease ==
  ASSUME TypeOK, OwnNodes, NEW s, Chain(s), NEW c \in Cores, Queued(c), granted(c),
         lock' = released(c)
  PROVE  /\ s # <<>> /\ Chain(Tail(s))' /\ OwnNodes'
         /\ lock'.next = lock.next /\ ~Queued(c)' /\ granted(c)'
         /\ \A d \in Cores : d # c => lock'.node[d] = lock.node[d]
         /\ lock'.value[lock.node[c]] = "Granted"
         /\ \A n \in Nodes : n # lock.node[c] => lock'.value[n] = lock.value[n]
<1> DEFINE t == Tail(s)
<1>1. /\ lock'.next = lock.next /\ lock'.head = lock.head
      /\ lock'.node[c] = lock.next[c]
      /\ \A d \in Cores : d # c => lock'.node[d] = lock.node[d]
      /\ lock'.value[lock.node[c]] = "Granted"
      /\ \A n \in Nodes : n # lock.node[c] => lock'.value[n] = lock.value[n]
  BY DEF TypeOK, released
<1>2. s \in Seq(Cores) /\ Len(s) \in Nat /\ DOMAIN s = 1 .. Len(s)
  BY ChainFacts DEF Chain
<1>3. s # <<>> /\ s[1] = c /\ Len(s) # 0
  BY GrantedFirst, ChainFacts
<1>4. /\ t \in Seq(Cores) /\ Len(t) = Len(s) - 1 /\ DOMAIN t = 1 .. Len(s) - 1
      /\ \A i \in 1 .. Len(s) - 1 : t[i] = s[i + 1]
  BY <1>2, <1>3
<1> HIDE DEF t
<1>5. \A i, j \in 1 .. Len(s) : s[i] = s[j] => i = j
  BY <1>2 DEF Chain
<1>6. \A i \in 1 .. Len(s) : s[i] \in Cores /\ (i # 1 => s[i] # c)
  BY <1>2, <1>3, <1>5, ChainFacts
<1>7. lock.next[c] = FreeNode(s) /\ \A d \in Cores : lock.node[d] # lock.next[c]
  BY <1>3 DEF Chain, FreeNode
<1>8. OwnNodes'
  BY <1>1, <1>7 DEF OwnNodes
<1>9. \A d \in Cores : d # c => lock.node[d] # lock.node[c]
  BY DEF OwnNodes
<1>10. \A d \in Cores : lock.node[d] \in Nodes /\ lock.next[d] \in Nodes
  BY DEF TypeOK
<1>11. ~Queued(c)' /\ \A d \in Cores : d # c => (Queued(d)' <=> Queued(d))
  BY <1>1 DEF Queued
<1>12. granted(c)'
  BY <1>1, <1>7, <1>10 DEF granted
<1>13. \A i \in DOMAIN t :
        /\ lock'.value[lock'.node[t[i]]] = "Pending"
        /\ IF i = 1 THEN lock'.value[lock'.next[t[i]]] = "Granted"
           ELSE lock'.next[t[i]] = lock'.node[t[i - 1]]
  <2> TAKE i \in DOMAIN t
  <2>1. i \in Nat /\ i + 1 \in 1 .. Len(s) /\ i + 1 # 1 /\ t[i] = s[i + 1] /\ (i + 1) - 1 = i
    BY <1>2, <1>4
  <2>2. s[i + 1] \in Cores /\ s[i + 1] # c
    BY <2>1, <1>6
  <2>3. lock'.value[lock'.node[t[i]]] = "Pending"
    <3>1. lock.value[lock.node[s[i + 1]]] = "Pending"
      BY <2>1, ChainFacts
    <3>2. lock'.node[t[i]] = lock.node[s[i + 1]] /\ lock.node[s[i + 1]] # lock.node[c]
      BY <2>1, <2>2, <1>1, <1>9
    <3> QED BY <3>1, <3>2, <2>2, <1>1, <1>10
  <2>4. lock'.next[t[i]] = lock.node[s[i]]
    <3>1. lock.next[s[i + 1]] = lock.node[s[(i + 1) - 1]]
      BY <2>1, ChainFacts
    <3> QED BY <3>1, <2>1, <1>1
  <2>5. CASE i = 1
    BY <2>3, <2>4, <2>5, <1>1, <1>3
  <2>6. CASE i # 1
    <3>1. i - 1 \in 1 .. Len(s) - 1 /\ i \in 1 .. Len(s) /\ (i - 1) + 1 = i
      BY <2>1, <2>6, <1>2, <1>4
    <3>2. t[i - 1] = s[i]
      <4>1. t[i - 1] = s[(i - 1) + 1]
        BY <3>1, <1>4
      <4> QED BY <4>1, <3>1
    <3>3. s[i] \in Cores /\ s[i] # c
      BY <3>1, <2>6, <1>6
    <3>4. lock'.node[s[i]] = lock.node[s[i]]
      BY <3>3, <1>1
    <3> QED BY <3>2, <3>4, <2>3, <2>4, <2>6
  <2> QED BY <2>3, <2>5, <2>6
<1>14. IF t = <<>> THEN lock'.value[lock'.head] = "Granted" ELSE lock'.head = lock'.node[t[Len(t)]]
  <2>0. lock.head = lock.node[s[Len(s)]]
    BY <1>3, ChainFacts
  <2>1. CASE Len(s) = 1
    <3>1. t = <<>>
      BY <2>1, <1>4
    <3> QED BY <2>0, <2>1, <3>1, <1>1, <1>3
  <2>2. CASE Len(s) # 1
    <3>1. Len(s) - 1 \in 1 .. Len(s) - 1 /\ Len(s) \in 1 .. Len(s) /\ (Len(s) - 1) + 1 = Len(s)
      BY <2>2, <1>2, <1>3
    <3>2. t[Len(t)] = s[Len(s)]
      <4>1. t[Len(s) - 1] = s[(Len(s) - 1) + 1]
        BY <3>1, <1>4
      <4> QED BY <4>1, <3>1, <1>4
    <3>3. s[Len(s)] \in Cores /\ s[Len(s)] # c
      BY <3>1, <2>2, <1>6
    <3>4. t # <<>>
      BY <1>4, <2>2, <1>2
    <3> QED BY <2>0, <3>2, <3>3, <3>4, <1>1
  <2> QED BY <2>1, <2>2
<1>15. IsQueue(t)'
  BY <1>13, <1>14 DEF IsQueue
<1>16. \A i, j \in DOMAIN t : t[i] = t[j] => i = j
  <2> TAKE i, j \in DOMAIN t
  <2> HAVE t[i] = t[j]
  <2>1. i \in Nat /\ j \in Nat /\ i + 1 \in 1 .. Len(s) /\ j + 1 \in 1 .. Len(s)
    BY <1>2, <1>4
  <2>2. s[i + 1] = s[j + 1]
    BY <1>4
  <2>3. i + 1 = j + 1
    BY <2>1, <2>2, <1>5
  <2> QED BY <2>1, <2>3
<1>17. \A d \in Cores : (\E i \in DOMAIN t : t[i] = d) <=> Queued(d)'
  <2> TAKE d \in Cores
  <2>1. CASE d = c
    <3>1. \A i \in DOMAIN t : t[i] # c
      <4> TAKE i \in DOMAIN t
      <4>1. i + 1 \in 1 .. Len(s) /\ i + 1 # 1
        BY <1>2, <1>4
      <4> QED BY <4>1, <1>4, <1>6
    <3> QED BY <2>1, <3>1, <1>11
  <2>2. CASE d # c
    <3>1. ASSUME NEW i \in DOMAIN s, s[i] = d PROVE \E j \in DOMAIN t : t[j] = d
      <4>1. i # 1 /\ i - 1 \in 1 .. Len(s) - 1 /\ (i - 1) + 1 = i
        BY <3>1, <2>2, <1>2, <1>3
      <4>2. t[i - 1] = s[(i - 1) + 1] /\ i - 1 \in DOMAIN t
        BY <4>1, <1>4
      <4> QED BY <4>1, <4>2, <3>1
    <3>2. ASSUME NEW i \in DOMAIN t, t[i] = d PROVE \E j \in DOMAIN s : s[j] = d
      <4>1. i + 1 \in DOMAIN s
        BY <1>2, <1>4
      <4> QED BY <4>1, <3>2, <1>4
    <3> QED BY <2>2, <3>1, <3>2, <1>11 DEF Chain
  <2> QED BY <2>1, <2>2
<1>18. FreeNode(t)' = lock.node[c]
  <2>1. CASE Len(s) = 1
    <3>1. t = <<>> /\ lock.head = lock.node[c]
      BY <2>1, <1>3, <1>4, ChainFacts
    <3> QED BY <3>1, <1>1 DEF FreeNode
  <2>2. CASE Len(s) # 1
    <3>1. 1 \in 1 .. Len(s) - 1 /\ 2 \in 1 .. Len(s) /\ t # <<>> /\ 1 + 1 = 2 /\ 2 - 1 = 1
      BY <2>2, <1>2, <1>3, <1>4
    <3>2. t[1] = s[2]
      BY <3>1, <1>4
    <3>3. lock.next[s[2]] = lock.node[s[1]]
      <4>1. lock.next[s[2]] = lock.node[s[2 - 1]]
        BY <3>1, ChainFacts
      <4> QED BY <4>1
    <3> QED BY <3>1, <3>2, <3>3, <1>1, <1>3 DEF FreeNode
  <2> QED BY <2>1, <2>2
<1>19. \A d \in Cores : lock'.node[d] # FreeNode(t)'
  BY <1>1, <1>7, <1>9, <1>18
<1>20. Chain(t)'
  BY <1>4, <1>15, <1>16, <1>17, <1>19 DEF Chain
<1> QED BY <1>1, <1>3, <1>8, <1>11, <1>12, <1>20 DEF t

-----------------------------------------------------------------------------
(* Steps of one core that are no part of a remote call *)

\* The types, field by field.
LEMMA Types ==
  ASSUME TypeOK
  PROVE  /\ lock.value \in [Nodes -> {"Granted", "Pending"}]
         /\ lock.node \in [Cores -> Nodes] /\ lock.next \in [Cores -> Nodes]
         /\ lock.head \in Nodes /\ lock.ipi \subseteq Cores
         /\ core \in [Cores -> CoreType]
         /\ bar.remoteCall \in {"none", "Stall", "Invalidate"} /\ bar.globalsense \in BOOLEAN
         /\ bar.totalCoreBarrier \in 0 .. Cardinality(Cores) - 1
         /\ bar.count \in 0 .. bar.totalCoreBarrier
BY DEF TypeOK

\* The step is one of core c, outside remote calls before and after.
Local(c) ==
  /\ bar' = bar /\ lock'.ipi = lock.ipi
  /\ \A d \in Cores \ {c} : core'[d] = core[d]
  /\ core[c].pc \notin Calling /\ core'[c].pc \notin Calling
  /\ core'[c].cur = core[c].cur /\ core'[c].asserts = core[c].asserts
  /\ core'[c].ipiReschedulePending = core[c].ipiReschedulePending

\* Such a step leaves every other core where it is.
LEMMA LocalPlaces ==
  ASSUME NEW c \in Cores, Local(c)
  PROVE  /\ at(c) = core[c].pc /\ at(c)' = core'[c].pc
         /\ \A d \in Cores \ {c} : at(d)' = at(d)
BY DEF Local, at, Calling

\* Such a step does not interfere with the remote call of another core.
LEMMA LocalCalls ==
  ASSUME IInv, NEW c \in Cores, Local(c),
         core'[c].pc \in {"stallWait", "activate"} => core[c].cur = "idle",
         core'[c].pc # "kernel" => core[c].ipiReschedulePending = {}
  PROVE  CallInv' /\ StallInv' /\ BarrierInv'
<1>1. Awaited' = Awaited
  BY DEF Awaited, Local, Calling
<1>2. \A d \in Cores : Caller(d) => Caller(d)'
  <2> SUFFICES ASSUME NEW d \in Cores, Caller(d) PROVE Caller(d)'
    OBVIOUS
  <2>1. d # c
    BY DEF Caller, Local, Calling
  <2> QED BY <2>1 DEF Caller, Local
<1>3. lock.ipi \subseteq Cores
  BY Types DEF IInv
<1>4. \A d \in Cores : core'[d].cur = core[d].cur
  BY DEF Local
<1>5. \A d \in lock'.ipi : core'[d].pc # "arrive"
  BY <1>3 DEF IInv, CallInv, Local, Calling
<1>6. CallInv'
  <2>1. bar'.remoteCall = "none" => Awaited' = {} /\ bar'.count = 0
    BY <1>1 DEF IInv, CallInv, Local
  <2>2. bar'.remoteCall # "none" =>
          /\ Cardinality(Awaited') + bar'.count = bar'.totalCoreBarrier + 1
          /\ \E d \in Cores : Caller(d)'
    BY <1>1, <1>2 DEF IInv, CallInv, Local
  <2>3. bar'.remoteCall = "Stall" => \A d \in lock'.ipi : core'[d].cur = "thread"
    BY <1>3, <1>4 DEF IInv, CallInv, Local
  <2> QED BY <1>5, <2>1, <2>2, <2>3 DEF CallInv
<1>7. StallInv'
  <2>1. ASSUME NEW d \in Cores
        PROVE  /\ at(d)' \in {"stallWait", "activate"} => core'[d].cur = "idle"
               /\ at(d)' # "kernel" => core'[d].ipiReschedulePending = {}
               /\ core'[d].asserts
    <3>1. CASE d = c
      BY <3>1, LocalPlaces DEF IInv, StallInv, Local
    <3>2. CASE d # c
      BY <3>2, LocalPlaces DEF IInv, StallInv, Local
    <3> QED BY <3>1, <3>2
  <2>2. ASSUME NEW d \in Cores, NEW e \in core'[d].ipiReschedulePending
        PROVE  core'[e].cur = "idle" \/ (bar'.remoteCall = "Stall" /\ e \in lock'.ipi)
    <3>1. e \in core[d].ipiReschedulePending
      BY <2>2 DEF Local
    <3>2. e \in Cores
      BY <3>1, Types DEF IInv, CoreType
    <3> QED BY <3>1, <3>2, <1>4 DEF IInv, StallInv, Local
  <2> QED BY <2>1, <2>2 DEF StallInv
<1>8. BarrierInv'
  <2>1. \A d \in Cores : Held(d)' <=> Held(d)
    BY DEF Held, Local, Calling
  <2> QED BY <2>1, <1>1 DEF IInv, BarrierInv, Local
<1> QED BY <1>6, <1>7, <1>8

\* clh_lock_acquire, as far as the exchange.
LEMMA EnterInv ==
  ASSUME IInv, NEW c \in Cores, NEW e \in {"syscall", "device", "reschedule"}, Enter(c, e)
  PROVE  IInv' /\ queue' = queue
<1>0. TypeOK /\ LockInv /\ OwnNodes
  BY DEF IInv, LockInv
<1>1. core[c].pc = "user" /\ core[c] \in CoreType
  BY Types DEF IInv, Enter
<1>2. /\ core'[c] = [core[c] EXCEPT !.pc = "exchange", !.entry = e, !.irqs = @ \ {e}]
      /\ \A d \in Cores \ {c} : core'[d] = core[d]
      /\ DOMAIN core' = Cores /\ core' = [d \in Cores |-> core'[d]]
  BY Types DEF IInv, Enter
<1>3. /\ core'[c] \in CoreType /\ core'[c].pc = "exchange" /\ core'[c].cur = core[c].cur
      /\ core'[c].asserts = core[c].asserts
      /\ core'[c].ipiReschedulePending = core[c].ipiReschedulePending
  <2>0. core[c].irqs \ {e} \in SUBSET {"remote", "reschedule"}
    BY <1>1 DEF CoreType
  <2>1. core'[c] \in CoreType
    BY <2>0, <1>1, <1>2 DEF CoreType
  <2>2. core'[c].pc = "exchange" /\ core'[c].cur = core[c].cur
    BY <1>1, <1>2 DEF CoreType
  <2>3. core'[c].ipiReschedulePending = core[c].ipiReschedulePending
    BY <1>1, <1>2 DEF CoreType
  <2>4. core'[c].asserts = core[c].asserts
    BY <1>1, <1>2, Zenon DEF CoreType
  <2> QED BY <2>1, <2>2, <2>3, <2>4
<1>4. lock' = [lock EXCEPT !.value[lock.node[c]] = "Pending"] /\ bar' = bar
  BY DEF Enter
<1>5. Local(c)
  BY <1>1, <1>2, <1>3, <1>4, <1>0 DEF Local, Calling, TypeOK
<1>6. TypeOK'
  <2>1. core' \in [Cores -> CoreType]
    BY <1>0, <1>2, <1>3, Types
  <2>2. lock' \in [value : [Nodes -> {"Granted", "Pending"}], node : [Cores -> Nodes],
                   next : [Cores -> Nodes], ipi : SUBSET Cores, head : Nodes]
    BY <1>0, <1>4 DEF TypeOK
  <2> QED BY <2>1, <2>2, <1>0, <1>4 DEF TypeOK
<1>7. /\ at(c) = "user" /\ at(c)' = "exchange" /\ \A d \in Cores \ {c} : at(d)' = at(d)
  BY <1>1, <1>3, <1>5, LocalPlaces
<1>8. ~Queued(c)
  BY <1>0, <1>7 DEF LockInv, PlaceInv
<1>9. PICK s : Chain(s)
  BY <1>0 DEF LockInv
<1>10. /\ Chain(s)'
       /\ lock'.node = lock.node /\ lock'.next = lock.next
       /\ lock'.value[lock.node[c]] = "Pending"
       /\ \A n \in Nodes : n # lock.node[c] => lock'.value[n] = lock.value[n]
  BY <1>0, <1>4, <1>8, <1>9, ChainEnter
<1>11. OwnNodes'
  BY <1>0, <1>10 DEF OwnNodes
<1>12. ASSUME NEW d \in Cores PROVE PlaceInv(d)'
  <2>1. Queued(d)' <=> Queued(d)
    BY <1>10 DEF Queued
  <2>2. CASE d = c
    BY <2>1, <2>2, <1>7, <1>8, <1>10 DEF PlaceInv, Owners
  <2>3. CASE d # c
    <3>1. lock.node[d] # lock.node[c] /\ lock.node[d] \in Nodes
      BY <2>3, <1>0, Types DEF OwnNodes
    <3>2. at(d) \in Owners => lock.next[d] # lock.node[c]
      <4> SUFFICES ASSUME at(d) \in Owners PROVE lock.next[d] # lock.node[c]
        OBVIOUS
      <4>1. Queued(d) /\ granted(d)
        BY <1>0 DEF LockInv, PlaceInv
      <4>2. s # <<>> /\ s[1] = d
        BY <4>1, <1>9, GrantedFirst
      <4>3. FreeNode(s) = lock.next[d]
        BY <4>2 DEF FreeNode
      <4> QED BY <4>3, <1>9 DEF Chain
    <3>3. lock.next[d] \in Nodes
      BY <1>0, Types
    <3>4. PlaceInv(d)
      BY <1>0 DEF LockInv
    <3> QED BY <2>1, <2>3, <3>1, <3>2, <3>3, <3>4, <1>7, <1>10 DEF PlaceInv, granted
  <2> QED BY <2>2, <2>3
<1>13. LockInv'
  BY <1>10, <1>11, <1>12 DEF LockInv
<1>14. core[c].ipiReschedulePending = {}
  BY <1>7 DEF IInv, StallInv
<1>15. CallInv' /\ StallInv' /\ BarrierInv'
  BY <1>3, <1>5, <1>14, LocalCalls
<1>16. ExchangeInv'
  BY <1>7, <1>10 DEF IInv, ExchangeInv, Queued
<1>17. queue = s /\ queue' = s
  <2>1. queue = s
    BY <1>0, <1>9, ChainIsQueue
  <2>2. queue' = s
    <3>1. (OwnNodes => \A q : Chain(q) => queue = q)'
      BY ChainsAreQueues, PTL
    <3> QED BY <3>1, <1>10, <1>11
  <2> QED BY <2>1, <2>2
<1> QED BY <1>6, <1>13, <1>15, <1>16, <1>17 DEF IInv

\* Typing of a step that changes one core.
LEMMA CoreTyped ==
  ASSUME TypeOK, NEW c \in Cores, NEW r \in CoreType, core' = [core EXCEPT ![c] = r]
  PROVE  /\ core' \in [Cores -> CoreType] /\ core'[c] = r
         /\ \A d \in Cores \ {c} : core'[d] = core[d]
BY Types

\* The nodes and the places of all cores stay the same.
LEMMA PlacesKept ==
  ASSUME LockInv, ExchangeInv, SameNodes, \A d \in Cores : at(d)' = at(d)
  PROVE  LockInv' /\ ExchangeInv' /\ queue' = queue
<1>1. OwnNodes'
  BY DEF LockInv, OwnNodes, SameNodes
<1>2. PICK s : Chain(s)
  BY DEF LockInv
<1>3. Chain(s)'
  BY <1>2, ChainKept
<1>4. ASSUME NEW d \in Cores PROVE PlaceInv(d)' /\ (Queued(d)' <=> Queued(d))
  <2>1. PlaceInv(d)
    BY DEF LockInv
  <2> QED BY <2>1 DEF PlaceInv, Queued, granted, SameNodes
<1>5. queue = s
  BY <1>2, ChainIsQueue DEF LockInv
<1>6. queue' = s
  <2>1. (OwnNodes => \A q : Chain(q) => queue = q)'
    BY ChainsAreQueues, PTL
  <2> QED BY <2>1, <1>1, <1>3
<1> QED BY <1>1, <1>3, <1>4, <1>5, <1>6 DEF LockInv, ExchangeInv

\* sel4_atomic_exchange: the core joins the queue.
LEMMA ExchangeStep ==
  ASSUME IInv, NEW c \in Cores, Exchange(c)
  PROVE  IInv' /\ Lock!Join(c)
<1>0. TypeOK /\ LockInv /\ OwnNodes
  BY DEF IInv, LockInv
<1>1. core[c].pc = "exchange" /\ core[c] \in CoreType
  BY <1>0, Types DEF Exchange
<1>2. core' = [core EXCEPT ![c] = [core[c] EXCEPT !.pc = "wait"]]
  BY DEF Exchange, Goto
<1>3. [core[c] EXCEPT !.pc = "wait"] \in CoreType
  BY <1>1 DEF CoreType
<1>4. /\ core' \in [Cores -> CoreType] /\ core'[c] = [core[c] EXCEPT !.pc = "wait"]
      /\ \A d \in Cores \ {c} : core'[d] = core[d]
  BY <1>0, <1>2, <1>3, CoreTyped
<1>5. lock' = [lock EXCEPT !.next[c] = lock.head, !.head = lock.node[c]] /\ bar' = bar
  BY DEF Exchange
<1>6. /\ core'[c].pc = "wait" /\ core'[c].cur = core[c].cur
      /\ core'[c].ipiReschedulePending = core[c].ipiReschedulePending
  BY <1>1, <1>4 DEF CoreType
<1>7. core'[c].asserts = core[c].asserts
  BY <1>1, <1>4, Zenon DEF CoreType
<1>8. Local(c)
  BY <1>0, <1>1, <1>4, <1>5, <1>6, <1>7 DEF Local, Calling, TypeOK
<1>9. TypeOK'
  BY <1>0, <1>4, <1>5 DEF TypeOK
<1>10. /\ at(c) = "exchange" /\ at(c)' = "wait" /\ \A d \in Cores \ {c} : at(d)' = at(d)
  BY <1>1, <1>6, <1>8, LocalPlaces
<1>11. ~Queued(c) /\ lock.value[lock.node[c]] = "Pending"
  BY <1>0, <1>10 DEF LockInv, PlaceInv
<1>12. PICK s : Chain(s)
  BY <1>0 DEF LockInv
<1>13. /\ Chain(Append(s, c))'
       /\ lock'.node = lock.node /\ lock'.value = lock.value
       /\ Queued(c)' /\ \A d \in Cores : d # c => lock'.next[d] = lock.next[d]
  BY <1>0, <1>5, <1>11, <1>12, ChainExchange
<1>14. OwnNodes'
  BY <1>0, <1>13 DEF OwnNodes
<1>15. ASSUME NEW d \in Cores PROVE PlaceInv(d)'
  <2>1. PlaceInv(d)
    BY <1>0 DEF LockInv
  <2>2. CASE d = c
    BY <2>1, <2>2, <1>10, <1>13 DEF PlaceInv, Owners
  <2>3. CASE d # c
    BY <2>1, <2>3, <1>10, <1>13 DEF PlaceInv, Queued, granted
  <2> QED BY <2>2, <2>3
<1>16. LockInv'
  BY <1>13, <1>14, <1>15 DEF LockInv
<1>17. core[c].ipiReschedulePending = {}
  BY <1>10 DEF IInv, StallInv
<1>18. CallInv' /\ StallInv' /\ BarrierInv'
  BY <1>6, <1>8, <1>17, LocalCalls
<1>19. ExchangeInv'
  BY <1>10, <1>13 DEF IInv, ExchangeInv, Queued
<1>20. queue = s
  BY <1>0, <1>12, ChainIsQueue
<1>21. queue' = Append(s, c)
  <2>1. (OwnNodes => \A q : Chain(q) => queue = q)'
    BY ChainsAreQueues, PTL
  <2> QED BY <2>1, <1>13, <1>14
<1>22. \A i \in DOMAIN queue : queue[i] # c
  BY <1>11, <1>12, <1>20 DEF Chain
<1> QED BY <1>9, <1>16, <1>18, <1>19, <1>20, <1>21, <1>22 DEF IInv, Lock!Join

\* The loops that wait for the lock end: the core is first in the queue.
LEMMA AcquireInv ==
  ASSUME IInv, NEW c \in Cores, Acquire(c) \/ StallAcquire(c)
  PROVE  IInv' /\ queue' = queue
<1>0. TypeOK /\ LockInv /\ OwnNodes
  BY DEF IInv, LockInv
<1>1. PICK p \in {"kernel", "activate"} :
        /\ core' = [core EXCEPT ![c] = [core[c] EXCEPT !.pc = p]]
        /\ core[c].pc = IF p = "kernel" THEN "wait" ELSE "stallWait"
  BY DEF Acquire, StallAcquire, Goto
<1>2. core[c] \in CoreType /\ granted(c) /\ lock' = lock /\ bar' = bar
  BY <1>0, Types DEF Acquire, StallAcquire
<1>3. [core[c] EXCEPT !.pc = p] \in CoreType
  BY <1>2 DEF CoreType
<1>4. /\ core' \in [Cores -> CoreType] /\ core'[c] = [core[c] EXCEPT !.pc = p]
      /\ \A d \in Cores \ {c} : core'[d] = core[d]
  BY <1>0, <1>1, <1>3, CoreTyped
<1>5. /\ core'[c].pc = p /\ core'[c].cur = core[c].cur
      /\ core'[c].ipiReschedulePending = core[c].ipiReschedulePending
  BY <1>2, <1>4 DEF CoreType
<1>6. core'[c].asserts = core[c].asserts
  BY <1>2, <1>4, Zenon DEF CoreType
<1>7. Local(c)
  BY <1>1, <1>2, <1>4, <1>5, <1>6 DEF Local, Calling
<1>8. TypeOK'
  BY <1>0, <1>2, <1>4 DEF TypeOK
<1>9. /\ at(c) = core[c].pc /\ at(c)' = p /\ \A d \in Cores \ {c} : at(d)' = at(d)
  BY <1>5, <1>7, LocalPlaces
<1>10. lock.value[lock.node[c]] = "Pending" /\ core[c].ipiReschedulePending = {}
  BY <1>0, <1>1, <1>9 DEF LockInv, PlaceInv, IInv, StallInv
<1>11. Queued(c)
  BY <1>2, <1>10 DEF granted, Queued
<1>12. SameNodes
  BY <1>2 DEF SameNodes
<1>13. PICK s : Chain(s)
  BY <1>0 DEF LockInv
<1>14. Chain(s)' /\ OwnNodes'
  BY <1>0, <1>2, <1>12, <1>13, ChainKept DEF OwnNodes
<1>15. ASSUME NEW d \in Cores PROVE PlaceInv(d)'
  <2>1. PlaceInv(d)
    BY <1>0 DEF LockInv
  <2>2. CASE d = c
    BY <2>2, <1>2, <1>9, <1>10, <1>11 DEF PlaceInv, Queued, granted
  <2>3. CASE d # c
    BY <2>1, <2>3, <1>2, <1>9 DEF PlaceInv, Queued, granted
  <2> QED BY <2>2, <2>3
<1>16. LockInv'
  BY <1>14, <1>15 DEF LockInv
<1>17. core'[c].pc \in {"stallWait", "activate"} => core[c].cur = "idle"
  BY <1>1, <1>5, <1>9 DEF IInv, StallInv
<1>18. CallInv' /\ StallInv' /\ BarrierInv'
  BY <1>7, <1>10, <1>17, LocalCalls
<1>19. ExchangeInv'
  BY <1>2, <1>9 DEF IInv, ExchangeInv, Queued
<1>20. queue' = queue
  <2>1. (OwnNodes => \A q : Chain(q) => queue = q)'
    BY ChainsAreQueues, PTL
  <2> QED BY <2>1, <1>0, <1>13, <1>14, ChainIsQueue
<1> QED BY <1>8, <1>16, <1>18, <1>19, <1>20 DEF IInv

-----------------------------------------------------------------------------
(* Giving back the lock *)

\* While its owner is not in doRemoteMaskOp, there is no remote call.
LEMMA NoCallInProgress ==
  ASSUME IInv, NEW c \in Cores, core[c].pc \in Owners
  PROVE  /\ at(c) = core[c].pc /\ bar.remoteCall = "none" /\ Awaited = {} /\ bar.count = 0
         /\ \A d \in Cores : at(d) \in Owners => d = c
<1>1. at(c) = core[c].pc
  BY DEF at, Owners
<1>2. \A d \in Cores : at(d) \in Owners => d = c
  BY <1>1, MutualExclusion DEF IInv
<1>3. bar.remoteCall = "none"
  <2> SUFFICES ASSUME bar.remoteCall # "none" PROVE FALSE
    OBVIOUS
  <2>1. PICK d \in Cores : Caller(d)
    BY DEF IInv, CallInv
  <2>2. at(d) = "kernel" /\ core[d].pc \in Calling
    BY <2>1 DEF Caller, at, Calling
  <2> QED BY <2>2, <1>2 DEF Calling, Owners
<1> QED BY <1>1, <1>2, <1>3 DEF IInv, CallInv

\* NODE_UNLOCK_IF_HELD: the owner leaves the queue.
LEMMA ReleaseInv ==
  ASSUME IInv, NEW c \in Cores, core[c].pc \in Owners, lock' = released(c), bar' = bar,
         core' \in [Cores -> CoreType],
         core'[c].pc = "user", core'[c].asserts, core'[c].ipiReschedulePending = {},
         \A d \in Cores \ {c} :
           /\ core'[d].pc = core[d].pc /\ core'[d].ret = core[d].ret
           /\ core'[d].cur = core[d].cur /\ core'[d].asserts = core[d].asserts
           /\ core'[d].localsense = core[d].localsense
           /\ core'[d].ipiReschedulePending = core[d].ipiReschedulePending
  PROVE  IInv' /\ Lock!Leave
<1>0. TypeOK /\ LockInv /\ OwnNodes
  BY DEF IInv, LockInv
<1>1. /\ at(c) \in Owners /\ bar.remoteCall = "none" /\ Awaited = {} /\ bar.count = 0
      /\ \A d \in Cores \ {c} : at(d) \notin Owners
  BY NoCallInProgress
<1>2. at(c)' = "user" /\ \A d \in Cores \ {c} : at(d)' = at(d)
  BY DEF at
<1>3. Queued(c) /\ granted(c)
  BY <1>0, <1>1 DEF LockInv, PlaceInv
<1>4. PICK s : Chain(s)
  BY <1>0 DEF LockInv
<1>5. /\ s # <<>> /\ Chain(Tail(s))' /\ OwnNodes'
      /\ lock'.next = lock.next /\ ~Queued(c)' /\ granted(c)'
      /\ \A d \in Cores : d # c => lock'.node[d] = lock.node[d]
      /\ \A n \in Nodes : n # lock.node[c] => lock'.value[n] = lock.value[n]
  BY <1>0, <1>3, <1>4, ChainRelease
<1>6. TypeOK'
  <2>1. lock' \in [value : [Nodes -> {"Granted", "Pending"}], node : [Cores -> Nodes],
                   next : [Cores -> Nodes], ipi : SUBSET Cores, head : Nodes]
    BY <1>0 DEF TypeOK, released
  <2> QED BY <2>1, <1>0 DEF TypeOK
<1>7. ASSUME NEW d \in Cores PROVE PlaceInv(d)'
  <2>1. CASE d = c
    BY <2>1, <1>2, <1>5 DEF PlaceInv, Queued, granted, Owners
  <2>2. CASE d # c
    <3>1. PlaceInv(d) /\ at(d) \notin Owners /\ at(d)' = at(d)
      BY <2>2, <1>0, <1>1, <1>2 DEF LockInv
    <3>2. lock'.node[d] = lock.node[d] /\ lock.node[d] # lock.node[c] /\ lock.node[d] \in Nodes
      BY <2>2, <1>0, <1>5, Types DEF OwnNodes
    <3> QED BY <3>1, <3>2, <1>5 DEF PlaceInv, Queued
  <2> QED BY <2>1, <2>2
<1>8. LockInv'
  BY <1>5, <1>7 DEF LockInv
<1>9. lock'.ipi = lock.ipi
  BY <1>0 DEF released, TypeOK
<1>10. Awaited' = {}
  BY <1>1, <1>9 DEF Awaited
<1>11. CallInv'
  <2>1. lock'.ipi = {}
    BY <1>10 DEF Awaited
  <2> QED BY <1>1, <1>10, <2>1 DEF CallInv
<1>12. \A d \in Cores : core'[d].ipiReschedulePending = {}
  BY <1>1, <1>2 DEF IInv, StallInv, Owners
<1>13. StallInv'
  <2>1. ASSUME NEW d \in Cores
        PROVE  (at(d)' \in {"stallWait", "activate"} => core'[d].cur = "idle") /\ core'[d].asserts
    BY <1>2 DEF IInv, StallInv
  <2> QED BY <2>1, <1>12 DEF StallInv
<1>14. BarrierInv'
  <2>1. \A d \in Cores : Held(d)' => Held(d)
    BY DEF Held
  <2> QED BY <2>1, <1>1 DEF IInv, BarrierInv
<1>15. ExchangeInv'
  BY <1>2, <1>5 DEF IInv, ExchangeInv, Queued
<1>16. queue = s
  BY <1>0, <1>4, ChainIsQueue
<1>17. queue' = Tail(s)
  <2>1. (OwnNodes => \A q : Chain(q) => queue = q)'
    BY ChainsAreQueues, PTL
  <2> QED BY <2>1, <1>5
<1> QED BY <1>5, <1>6, <1>8, <1>11, <1>13, <1>14, <1>15, <1>16, <1>17 DEF IInv, Lock!Leave

\* A core that has left the kernel.
UserCoreWith(i, x) == [UserCore EXCEPT !.irqs = i, !.cur = x]

\* Exit and StallExit leave a well-typed core, in user mode.
LEMMA UserCoreType ==
  ASSUME NEW i \in SUBSET {"remote", "reschedule"}, NEW x \in {"thread", "idle"}
  PROVE  /\ UserCoreWith(i, x) \in CoreType /\ UserCoreWith(i, x).pc = "user"
         /\ UserCoreWith(i, x).ipiReschedulePending = {} /\ UserCoreWith(i, x).asserts
<1>1. 0 \in 0 .. MaxRemote /\ {} \in SUBSET Cores /\ {} \in SUBSET {"remote", "reschedule"}
  BY LockAssumption
<1>2. UserCore \in CoreType
  BY <1>1 DEF UserCore, CoreType
<1>3. UserCoreWith(i, x) \in CoreType
  BY <1>2 DEF CoreType, UserCoreWith
<1> QED BY <1>3 DEF UserCore, UserCoreWith

\* The way out of the kernel, of an entry and of a stalled system call.
LEMMA ExitInv ==
  ASSUME IInv, NEW c \in Cores, Exit(c) \/ StallExit(c)
  PROVE  IInv' /\ Lock!Leave
<1>0. TypeOK /\ core \in [Cores -> CoreType] /\ core[c] \in CoreType
  BY Types DEF IInv
<1>1. /\ curAfter(c) \in {"thread", "idle"} /\ core[c].cur \in {"thread", "idle"}
      /\ core[c].irqs \in SUBSET {"remote", "reschedule"}
  BY <1>0 DEF curAfter, CoreType
<1>2. CASE Exit(c)
  <2> DEFINE r == UserCoreWith(core[c].irqs, curAfter(c))
             w(d) == IF d \in core[c].ipiReschedulePending
                     THEN [core[d] EXCEPT !.irqs = @ \cup {"reschedule"}] ELSE core[d]
  <2>1. /\ core' = [d \in Cores |-> IF d = c THEN r ELSE w(d)]
        /\ core[c].pc = "kernel" /\ lock' = released(c) /\ bar' = bar
    BY <1>2 DEF Exit, UserCoreWith
  <2>2. r \in CoreType /\ r.pc = "user" /\ r.ipiReschedulePending = {} /\ r.asserts
    BY <1>1, UserCoreType
  <2>4. ASSUME NEW d \in Cores
        PROVE  /\ w(d) \in CoreType /\ w(d).pc = core[d].pc /\ w(d).ret = core[d].ret
               /\ w(d).cur = core[d].cur /\ w(d).asserts = core[d].asserts
               /\ w(d).localsense = core[d].localsense
               /\ w(d).ipiReschedulePending = core[d].ipiReschedulePending
    <3> DEFINE u == [core[d] EXCEPT !.irqs = @ \cup {"reschedule"}]
    <3>1. core[d] \in CoreType
      BY <1>0
    <3>2. core[d].irqs \cup {"reschedule"} \in SUBSET {"remote", "reschedule"}
      BY <3>1 DEF CoreType
    <3>3. u \in CoreType
      BY <3>1, <3>2 DEF CoreType
    <3>4. /\ u.pc = core[d].pc /\ u.ret = core[d].ret /\ u.cur = core[d].cur
          /\ u.ipiReschedulePending = core[d].ipiReschedulePending
      BY <3>1 DEF CoreType
    <3>5. u.asserts = core[d].asserts /\ u.localsense = core[d].localsense
      BY <3>1, Zenon DEF CoreType
    <3> HIDE DEF u
    <3>6. w(d) = u \/ w(d) = core[d]
      BY DEF u
    <3> QED BY <3>1, <3>3, <3>4, <3>5, <3>6
  <2> HIDE DEF r, w
  <2>5. core' \in [Cores -> CoreType] /\ core'[c] = r /\ \A d \in Cores \ {c} : core'[d] = w(d)
    BY <2>1, <2>2, <2>4
  <2> QED BY <2>1, <2>2, <2>4, <2>5, ReleaseInv DEF Owners
<1>3. CASE StallExit(c)
  <2> DEFINE r == UserCoreWith(core[c].irqs, core[c].cur)
  <2>1. /\ core' = [core EXCEPT ![c] = r]
        /\ core[c].pc = "activate" /\ lock' = released(c) /\ bar' = bar
    BY <1>3 DEF StallExit, UserCoreWith
  <2>2. r \in CoreType /\ r.pc = "user" /\ r.ipiReschedulePending = {} /\ r.asserts
    BY <1>1, UserCoreType
  <2> HIDE DEF r
  <2>4. core' \in [Cores -> CoreType] /\ core'[c] = r /\ \A d \in Cores \ {c} : core'[d] = core[d]
    BY <1>0, <2>1, <2>2, CoreTyped
  <2> QED BY <2>1, <2>2, <2>4, ReleaseInv DEF Owners
<1> QED BY <1>2, <1>3

-----------------------------------------------------------------------------
(* Remote calls *)

\* handleIPI takes a core from those it has been sent to, to those that arrive.
LEMMA HandleIPIInv ==
  ASSUME IInv, NEW c \in Cores, NEW ret \in {"user", "exchange", "wait", "stallWait"},
         core[c].pc = ret, ret = "exchange" => ExchangeMayFail, HandleIPI(c, ret)
  PROVE  IInv' /\ queue' = queue
<1> DEFINE stall == bar.remoteCall = "Stall"
           inSyscall == clh_is_self_in_queue(c) /\ ~irqPath(c)
           ret1 == IF stall /\ inSyscall THEN "stallWait" ELSE ret
           cur1 == IF stall THEN "idle" ELSE core[c].cur
           irqs1 == IF ret = "user" THEN core[c].irqs \ {"remote"} ELSE core[c].irqs
           ok == core[c].asserts /\ (ret = "stallWait" => ~stall)
           r == [core[c] EXCEPT !.pc = "arrive", !.ret = ret1, !.cur = cur1,
                                !.irqs = irqs1, !.asserts = ok]
<1>0. TypeOK /\ LockInv /\ OwnNodes /\ core[c] \in CoreType
  BY Types DEF IInv, LockInv
<1>1. c \in lock.ipi /\ core' = [core EXCEPT ![c] = r] /\ bar' = bar
  BY DEF HandleIPI, clh_is_ipi_pending
<1>2. lock' = [lock EXCEPT !.ipi = @ \ {c}]
  BY DEF HandleIPI
<1>3. /\ ret1 \in {"user", "exchange", "wait", "kernel", "stallWait"}
      /\ cur1 \in {"thread", "idle"} /\ irqs1 \in SUBSET {"remote", "reschedule"}
      /\ ok \in BOOLEAN
  BY <1>0 DEF CoreType
<1>4. at(c) = ret
  BY DEF at
<1>5. ok
  <2>1. core[c].asserts
    BY DEF IInv, StallInv
  <2>2. ret = "stallWait" => core[c].cur = "idle"
    BY <1>4 DEF IInv, StallInv
  <2>3. stall => core[c].cur = "thread"
    BY <1>1 DEF IInv, CallInv
  <2> QED BY <2>1, <2>2, <2>3
<1>6. ret1 = ret \/ (ret1 = "stallWait" /\ stall /\ lock.value[lock.node[c]] = "Pending")
  BY DEF clh_is_self_in_queue
<1>7. cur1 = core[c].cur \/ cur1 = "idle"
  OBVIOUS
<1>8. stall => cur1 = "idle"
  OBVIOUS
<1> HIDE DEF ret1, cur1, irqs1, ok, inSyscall
<1>9. r \in CoreType
  BY <1>0, <1>3, ZenonT(40) DEF CoreType
<1>10. /\ r.pc = "arrive" /\ r.ret = ret1 /\ r.cur = cur1
       /\ r.ipiReschedulePending = core[c].ipiReschedulePending
  BY <1>0 DEF CoreType
<1>11. r.asserts
  BY <1>0, <1>5 DEF CoreType
<1> HIDE DEF r
<1>12. /\ core' \in [Cores -> CoreType] /\ core'[c] = r
       /\ \A d \in Cores \ {c} : core'[d] = core[d]
  BY <1>0, <1>1, <1>9, CoreTyped
<1>13. SameNodes /\ lock'.ipi = lock.ipi \ {c}
  BY <1>0, <1>2 DEF SameNodes, TypeOK
<1>14. TypeOK'
  BY <1>0, <1>1, <1>2, <1>12 DEF TypeOK
<1>15. at(c)' = ret1 /\ \A d \in Cores \ {c} : at(d)' = at(d)
  BY <1>10, <1>12 DEF at
<1>16. PICK s : Chain(s)
  BY <1>0 DEF LockInv
<1>17. Chain(s)' /\ OwnNodes'
  BY <1>0, <1>13, <1>16, ChainKept DEF OwnNodes, SameNodes
<1>18. ASSUME NEW d \in Cores PROVE PlaceInv(d)' /\ (Queued(d)' <=> Queued(d))
  <2>1. PlaceInv(d)
    BY <1>0 DEF LockInv
  <2>2. Queued(d)' <=> Queued(d)
    BY <1>13 DEF Queued, SameNodes
  <2>3. CASE at(d)' = at(d)
    BY <2>1, <2>3, <1>13 DEF PlaceInv, Queued, granted, SameNodes
  <2>4. CASE at(d)' # at(d)
    <3>1. d = c /\ at(d)' = "stallWait" /\ lock.value[lock.node[c]] = "Pending"
      BY <2>4, <1>4, <1>6, <1>15
    <3> QED BY <2>2, <3>1, <1>13 DEF PlaceInv, SameNodes, Owners
  <2> QED BY <2>2, <2>3, <2>4
<1>19. LockInv'
  BY <1>17, <1>18 DEF LockInv
<1>20. ExchangeInv'
  <2> SUFFICES ASSUME ~ExchangeMayFail, NEW d \in Cores, at(d)' = "stallWait" PROVE Queued(d)'
    BY DEF ExchangeInv
  <2>1. CASE at(d) = "stallWait"
    BY <2>1, <1>18 DEF IInv, ExchangeInv
  <2>2. CASE at(d) # "stallWait"
    <3>1. d = c /\ ret # "stallWait" /\ lock.value[lock.node[c]] = "Pending"
      BY <2>2, <1>4, <1>6, <1>15
    <3>2. ret = "wait"
      BY <3>1, <1>0, <1>4 DEF LockInv, PlaceInv
    <3> QED BY <3>1, <3>2, <1>0, <1>4, <1>18 DEF LockInv, PlaceInv
  <2> QED BY <2>1, <2>2
<1>21. Awaited' = Awaited
  BY <1>0, <1>1, <1>10, <1>12, <1>13, Types DEF Awaited
<1>22. \A d \in Cores : Caller(d) => Caller(d)'
  <2> SUFFICES ASSUME NEW d \in Cores, Caller(d) PROVE Caller(d)'
    OBVIOUS
  <2>1. d # c
    BY DEF Caller
  <2> QED BY <2>1, <1>1, <1>12 DEF Caller
<1>23. \A d \in lock'.ipi : d \in lock.ipi /\ d \in Cores /\ d # c /\ core'[d] = core[d]
  BY <1>0, <1>12, <1>13, Types
<1>24. CallInv'
  <2>1. \A d \in lock'.ipi : core'[d].pc # "arrive"
    BY <1>23 DEF IInv, CallInv
  <2>2. bar'.remoteCall = "none" => Awaited' = {} /\ bar'.count = 0
    BY <1>1, <1>21 DEF IInv, CallInv
  <2>3. bar'.remoteCall # "none" =>
          /\ Cardinality(Awaited') + bar'.count = bar'.totalCoreBarrier + 1
          /\ \E d \in Cores : Caller(d)'
    BY <1>1, <1>21, <1>22 DEF IInv, CallInv
  <2>4. bar'.remoteCall = "Stall" => \A d \in lock'.ipi : core'[d].cur = "thread"
    BY <1>1, <1>23 DEF IInv, CallInv
  <2> QED BY <2>1, <2>2, <2>3, <2>4 DEF CallInv
<1>25. StallInv'
  <2>1. ASSUME NEW d \in Cores
        PROVE  /\ at(d)' \in {"stallWait", "activate"} => core'[d].cur = "idle"
               /\ at(d)' # "kernel" => core'[d].ipiReschedulePending = {}
               /\ core'[d].asserts
    <3>1. CASE d = c
      <4>1. core[c].ipiReschedulePending = {}
        BY <1>4 DEF IInv, StallInv
      <4>2. ret1 \in {"stallWait", "activate"} => cur1 = "idle"
        BY <1>4, <1>6, <1>7, <1>8 DEF IInv, StallInv
      <4> QED BY <3>1, <4>1, <4>2, <1>10, <1>11, <1>12, <1>15
    <3>2. CASE d # c
      BY <3>2, <1>12, <1>15 DEF IInv, StallInv
    <3> QED BY <3>1, <3>2
  <2>2. ASSUME NEW d \in Cores, NEW e \in core'[d].ipiReschedulePending
        PROVE  core'[e].cur = "idle" \/ (bar'.remoteCall = "Stall" /\ e \in lock'.ipi)
    <3>1. e \in core[d].ipiReschedulePending
      BY <2>2, <1>10, <1>12
    <3>2. e \in Cores
      BY <3>1, <1>0, Types DEF CoreType
    <3>3. core[e].cur = "idle" \/ (bar.remoteCall = "Stall" /\ e \in lock.ipi)
      BY <3>1 DEF IInv, StallInv
    <3>4. CASE e = c
      BY <3>3, <3>4, <1>7, <1>8, <1>10, <1>12
    <3>5. CASE e # c
      BY <3>2, <3>3, <3>5, <1>1, <1>12, <1>13
    <3> QED BY <3>4, <3>5
  <2> QED BY <2>1, <2>2 DEF StallInv
<1>26. BarrierInv'
  <2>1. \A d \in Cores : Held(d)' => Held(d)
    BY <1>1, <1>10, <1>12 DEF Held
  <2>2. \A d \in Cores : Held(d) => Held(d)'
    BY <1>1, <1>12 DEF Held
  <2> QED BY <2>1, <2>2, <1>1, <1>13, <1>21 DEF IInv, BarrierInv
<1>27. queue' = queue
  <2>1. (OwnNodes => \A q : Chain(q) => queue = q)'
    BY ChainsAreQueues, PTL
  <2> QED BY <2>1, <1>0, <1>16, <1>17, ChainIsQueue
<1> QED BY <1>14, <1>19, <1>20, <1>24, <1>25, <1>26, <1>27 DEF IInv

\* An interrupt whose remote call has been handled before.
LEMMA SpuriousInv ==
  ASSUME IInv, NEW c \in Cores, SpuriousInterrupt(c)
  PROVE  IInv' /\ queue' = queue
<1> DEFINE r == [core[c] EXCEPT !.irqs = core[c].irqs \ {"remote"}]
<1>0. TypeOK /\ core[c] \in CoreType /\ core[c].pc = "user"
  BY Types DEF IInv, SpuriousInterrupt
<1>1. core' = [core EXCEPT ![c] = r] /\ lock' = lock /\ bar' = bar
  BY DEF SpuriousInterrupt
<1>2. core[c].irqs \ {"remote"} \in SUBSET {"remote", "reschedule"}
  BY <1>0 DEF CoreType
<1>3. r \in CoreType
  BY <1>0, <1>2 DEF CoreType
<1>4. r.pc = core[c].pc /\ r.cur = core[c].cur /\ r.ipiReschedulePending = core[c].ipiReschedulePending
  BY <1>0 DEF CoreType
<1>5. r.asserts = core[c].asserts
  BY <1>0, Zenon DEF CoreType
<1> HIDE DEF r
<1>6. /\ core' \in [Cores -> CoreType] /\ core'[c] = r
      /\ \A d \in Cores \ {c} : core'[d] = core[d]
  BY <1>0, <1>1, <1>3, CoreTyped
<1>7. TypeOK'
  BY <1>0, <1>1, <1>6 DEF TypeOK
<1>8. Local(c)
  BY <1>0, <1>1, <1>4, <1>5, <1>6 DEF Local, Calling
<1>9. \A d \in Cores : at(d)' = at(d)
  BY <1>4, <1>6, <1>8, LocalPlaces
<1>10. core[c].ipiReschedulePending = {}
  BY <1>0, <1>8, LocalPlaces DEF IInv, StallInv
<1>11. CallInv' /\ StallInv' /\ BarrierInv'
  BY <1>0, <1>4, <1>6, <1>8, <1>10, LocalCalls
<1>12. LockInv' /\ ExchangeInv' /\ queue' = queue
  BY <1>1, <1>9, PlacesKept DEF IInv, SameNodes
<1> QED BY <1>7, <1>11, <1>12 DEF IInv

\* Awaited is a finite set.
LEMMA AwaitedFinite ==
  ASSUME TypeOK
  PROVE  IsFiniteSet(Awaited) /\ Cardinality(Awaited) \in Nat
<1>1. Awaited \subseteq Cores
  BY Types DEF Awaited
<1>2. IsFiniteSet(Awaited)
  BY <1>1, FS_Subset, LockAssumption
<1> QED BY <1>2, FS_CardinalityType

\* ipi_wait: one core fewer is awaited, and the last one ends the call.
LEMMA ArriveInv ==
  ASSUME IInv, NEW c \in Cores, Arrive(c)
  PROVE  IInv' /\ queue' = queue
<1> DEFINE r == [core[c] EXCEPT !.pc = "barrier", !.localsense = bar.globalsense]
           last == bar.count = bar.totalCoreBarrier
<1>0. TypeOK /\ core[c] \in CoreType /\ core[c].pc = "arrive" /\ bar.globalsense \in BOOLEAN
  BY Types DEF IInv, Arrive
<1>1. core' = [core EXCEPT ![c] = r] /\ lock' = lock
  BY DEF Arrive
<1>2. r \in CoreType
  BY <1>0 DEF CoreType
<1>3. /\ r.pc = "barrier" /\ r.ret = core[c].ret /\ r.cur = core[c].cur
      /\ r.ipiReschedulePending = core[c].ipiReschedulePending
  BY <1>0 DEF CoreType
<1>4. r.asserts = core[c].asserts /\ r.localsense = bar.globalsense
  BY <1>0, Zenon DEF CoreType
<1> HIDE DEF r
<1>5. /\ core' \in [Cores -> CoreType] /\ core'[c] = r
      /\ \A d \in Cores \ {c} : core'[d] = core[d]
  BY <1>0, <1>1, <1>2, CoreTyped
<1>6. \A d \in Cores : at(d)' = at(d)
  BY <1>0, <1>3, <1>5 DEF at
<1>7. LockInv' /\ ExchangeInv' /\ queue' = queue
  BY <1>1, <1>6, PlacesKept DEF IInv, SameNodes
<1>8. c \in Awaited /\ c \notin lock.ipi /\ bar.remoteCall # "none"
  BY <1>0 DEF Awaited, IInv, CallInv
<1>9. Awaited' = Awaited \ {c}
  BY <1>0, <1>1, <1>3, <1>5, <1>8 DEF Awaited
<1>10. /\ IsFiniteSet(Awaited) /\ Cardinality(Awaited) \in Nat
       /\ Cardinality(Awaited) + bar.count = bar.totalCoreBarrier + 1
  BY <1>0, <1>8, AwaitedFinite DEF IInv, CallInv
<1>11. bar.count \in Nat /\ bar.totalCoreBarrier \in Nat /\ bar.count <= bar.totalCoreBarrier
  BY <1>0, Types, FS_CardinalityType, LockAssumption
<1>12. \A d \in lock.ipi : d \in Cores /\ d # c /\ core'[d] = core[d]
  BY <1>0, <1>5, <1>8, Types
<1>13. \A d \in Cores : /\ core'[d].cur = core[d].cur /\ core'[d].asserts = core[d].asserts
                        /\ core'[d].ipiReschedulePending = core[d].ipiReschedulePending
  BY <1>3, <1>4, <1>5
<1>14. ASSUME NEW d \in Cores
       PROVE  /\ at(d)' \in {"stallWait", "activate"} => core'[d].cur = "idle"
              /\ at(d)' # "kernel" => core'[d].ipiReschedulePending = {}
              /\ core'[d].asserts
  BY <1>6, <1>13 DEF IInv, StallInv
<1>15. \A d \in Cores : core[d].ipiReschedulePending \subseteq Cores
  BY <1>0, Types DEF CoreType
<1>16. CASE last
  <2>1. bar' = [NoCall EXCEPT !.globalsense = ~bar.globalsense]
    BY <1>16 DEF Arrive
  <2>2. /\ bar'.remoteCall = "none" /\ bar'.count = 0 /\ bar'.totalCoreBarrier = 0
        /\ DOMAIN bar' = DOMAIN NoCall
    BY <2>1 DEF NoCall
  <2>3. bar'.globalsense = (~bar.globalsense)
    BY <2>1 DEF NoCall
  <2>4. Awaited = {c}
    <3>1. Cardinality(Awaited) = 1
      BY <1>10, <1>11, <1>16
    <3>2. PICK x : Awaited = {x}
      BY <3>1, <1>10, FS_Singleton
    <3> QED BY <3>2, <1>8
  <2>5. lock.ipi = {} /\ Awaited' = {}
    BY <2>4, <1>8, <1>9 DEF Awaited
  <2>6. TypeOK'
    <3>1. Cardinality(Cores) - 1 \in Nat
      <4>1. Cardinality(Cores) \in Nat /\ Cardinality(Cores) # 0
        BY FS_CardinalityType, FS_EmptySet, LockAssumption
      <4> QED BY <4>1
    <3>2. bar' \in [remoteCall : {"none", "Stall", "Invalidate"}, globalsense : BOOLEAN,
                    totalCoreBarrier : 0 .. Cardinality(Cores) - 1,
                    count : 0 .. bar'.totalCoreBarrier]
      <4>1. bar' = [remoteCall |-> "none", totalCoreBarrier |-> 0, count |-> 0,
                    globalsense |-> ~bar.globalsense]
        BY <2>1 DEF NoCall
      <4>2. 0 \in 0 .. Cardinality(Cores) - 1 /\ 0 \in 0 .. bar'.totalCoreBarrier
        BY <3>1, <2>2
      <4> QED BY <4>1, <4>2
    <3> QED BY <3>2, <1>0, <1>1, <1>5 DEF TypeOK
  <2>7. CallInv'
    BY <2>2, <2>5, <1>1 DEF CallInv
  <2>8. StallInv'
    <3>1. ASSUME NEW d \in Cores, NEW e \in core'[d].ipiReschedulePending PROVE core'[e].cur = "idle"
      BY <3>1, <2>5, <1>13, <1>15 DEF IInv, StallInv
    <3> QED BY <3>1, <1>14 DEF StallInv
  <2>9. BarrierInv'
    <3> SUFFICES ASSUME TwoCores, NEW d \in Cores, core'[d].pc = "barrier"
                 PROVE  core'[d].localsense # bar'.globalsense
      BY <2>2 DEF BarrierInv, Held
    <3>1. core'[d].localsense = bar.globalsense
      <4>1. CASE d = c
        BY <4>1, <1>4, <1>5
      <4>2. CASE d # c
        <5>1. Held(d)
          BY <4>2, <2>4, <1>8 DEF IInv, BarrierInv
        <5> QED BY <4>2, <5>1, <1>5 DEF Held
      <4> QED BY <4>1, <4>2
    <3> QED BY <3>1, <2>3, <1>0
  <2> QED BY <2>6, <2>7, <2>8, <2>9, <1>7 DEF IInv
<1>17. CASE ~last
  <2>1. bar' = [bar EXCEPT !.count = @ + 1]
    BY <1>17 DEF Arrive
  <2>2. /\ bar'.remoteCall = bar.remoteCall /\ bar'.count = bar.count + 1
        /\ bar'.totalCoreBarrier = bar.totalCoreBarrier
    BY <2>1, <1>0 DEF TypeOK
  <2>3. bar'.globalsense = bar.globalsense
    BY <2>1, <1>0, Zenon DEF TypeOK
  <2>4. TypeOK'
    <3>1. bar.count + 1 \in 0 .. bar.totalCoreBarrier
      BY <1>11, <1>17
    <3>2. bar' \in [remoteCall : {"none", "Stall", "Invalidate"}, globalsense : BOOLEAN,
                    totalCoreBarrier : 0 .. Cardinality(Cores) - 1,
                    count : 0 .. bar'.totalCoreBarrier]
      BY <3>1, <2>1, <2>2, <1>0 DEF TypeOK
    <3> QED BY <3>2, <1>0, <1>1, <1>5 DEF TypeOK
  <2>5. Cardinality(Awaited') + bar'.count = bar'.totalCoreBarrier + 1
    <3>1. Cardinality(Awaited \ {c}) = Cardinality(Awaited) - 1
      BY <1>8, <1>10, FS_RemoveElement
    <3> QED BY <3>1, <2>2, <1>9, <1>10, <1>11
  <2>6. ASSUME NEW d \in Cores, Caller(d) PROVE Caller(d)'
    <3>1. CASE d = c
      BY <2>6, <3>1, <2>3, <1>3, <1>4, <1>5 DEF Caller
    <3>2. CASE d # c
      BY <2>6, <3>2, <2>3, <1>5 DEF Caller
    <3> QED BY <3>1, <3>2
  <2>7. CallInv'
    <3>1. \E d \in Cores : Caller(d)'
      BY <2>6, <1>8 DEF IInv, CallInv
    <3>2. \A d \in lock'.ipi : core'[d].pc # "arrive"
      BY <1>1, <1>12 DEF IInv, CallInv
    <3>3. bar'.remoteCall = "Stall" => \A d \in lock'.ipi : core'[d].cur = "thread"
      BY <2>2, <1>1, <1>12 DEF IInv, CallInv
    <3> QED BY <2>2, <2>5, <3>1, <3>2, <3>3, <1>8 DEF CallInv
  <2>8. StallInv'
    <3>1. ASSUME NEW d \in Cores, NEW e \in core'[d].ipiReschedulePending
          PROVE  core'[e].cur = "idle" \/ (bar'.remoteCall = "Stall" /\ e \in lock'.ipi)
      BY <3>1, <2>2, <1>1, <1>13, <1>15 DEF IInv, StallInv
    <3> QED BY <3>1, <1>14 DEF StallInv
  <2>9. BarrierInv'
    <3> SUFFICES ASSUME TwoCores, NEW d \in Cores
                 PROVE  /\ d \in Awaited' \/ Held(d)'
                        /\ Held(d)' => bar'.remoteCall # "none" /\ d \notin lock'.ipi
      BY DEF BarrierInv
    <3>1. CASE d = c
      BY <3>1, <2>2, <2>3, <1>1, <1>3, <1>4, <1>5, <1>8 DEF Held
    <3>2. CASE d # c
      <4>1. Held(d)' <=> Held(d)
        BY <3>2, <2>3, <1>5 DEF Held
      <4> QED BY <3>2, <4>1, <2>2, <1>1, <1>8, <1>9 DEF IInv, BarrierInv
    <3> QED BY <3>1, <3>2
  <2> QED BY <2>4, <2>7, <2>8, <2>9, <1>7 DEF IInv
<1> QED BY <1>16, <1>17

\* The core goes on where it was; the call it leaves is over.
LEMMA LeaveBarrierInv ==
  ASSUME IInv, NEW c \in Cores, LeaveBarrier(c)
  PROVE  IInv' /\ queue' = queue
<1> DEFINE r == [core[c] EXCEPT !.pc = core[c].ret, !.ret = "user", !.localsense = FALSE]
<1>0. TypeOK /\ core[c] \in CoreType /\ core[c].pc = "barrier"
  BY Types DEF IInv, LeaveBarrier
<1>1. /\ core' = [core EXCEPT ![c] = r] /\ lock' = lock /\ bar' = bar
      /\ core[c].localsense # bar.globalsense
  BY DEF LeaveBarrier
<1>2. core[c].ret \in {"user", "exchange", "wait", "kernel", "stallWait"}
  BY <1>0 DEF CoreType
<1>3. r \in CoreType
  BY <1>0, <1>2 DEF CoreType
<1>4. /\ r.pc = core[c].ret /\ r.cur = core[c].cur
      /\ r.ipiReschedulePending = core[c].ipiReschedulePending
  BY <1>0 DEF CoreType
<1>5. r.asserts = core[c].asserts
  BY <1>0, Zenon DEF CoreType
<1> HIDE DEF r
<1>6. /\ core' \in [Cores -> CoreType] /\ core'[c] = r
      /\ \A d \in Cores \ {c} : core'[d] = core[d]
  BY <1>0, <1>1, <1>3, CoreTyped
<1>7. TypeOK'
  BY <1>0, <1>1, <1>6 DEF TypeOK
<1>8. \A d \in Cores : at(d)' = at(d)
  BY <1>0, <1>2, <1>4, <1>6 DEF at
<1>9. LockInv' /\ ExchangeInv' /\ queue' = queue
  BY <1>1, <1>8, PlacesKept DEF IInv, SameNodes
<1>10. Awaited' = Awaited
  BY <1>0, <1>1, <1>2, <1>4, <1>6 DEF Awaited
<1>11. ASSUME NEW d \in Cores, Caller(d) PROVE Caller(d)'
  <2>1. d # c
    BY <1>0, <1>1, <1>11 DEF Caller
  <2> QED BY <2>1, <1>1, <1>6, <1>11 DEF Caller
<1>12. \A d \in Cores : /\ core'[d].cur = core[d].cur /\ core'[d].asserts = core[d].asserts
                        /\ core'[d].ipiReschedulePending = core[d].ipiReschedulePending
  BY <1>4, <1>5, <1>6
<1>13. lock.ipi \subseteq Cores /\ \A d \in Cores : core[d].ipiReschedulePending \subseteq Cores
  BY <1>0, Types DEF CoreType
<1>14. CallInv'
  <2>1. \A d \in lock'.ipi : core'[d].pc # "arrive"
    BY <1>1, <1>2, <1>4, <1>6, <1>13 DEF IInv, CallInv
  <2>2. bar'.remoteCall = "none" => Awaited' = {} /\ bar'.count = 0
    BY <1>1, <1>10 DEF IInv, CallInv
  <2>3. bar'.remoteCall # "none" =>
          /\ Cardinality(Awaited') + bar'.count = bar'.totalCoreBarrier + 1
          /\ \E d \in Cores : Caller(d)'
    BY <1>1, <1>10, <1>11 DEF IInv, CallInv
  <2>4. bar'.remoteCall = "Stall" => \A d \in lock'.ipi : core'[d].cur = "thread"
    BY <1>1, <1>12, <1>13 DEF IInv, CallInv
  <2> QED BY <2>1, <2>2, <2>3, <2>4 DEF CallInv
<1>15. StallInv'
  <2>1. ASSUME NEW d \in Cores
        PROVE  /\ at(d)' \in {"stallWait", "activate"} => core'[d].cur = "idle"
               /\ at(d)' # "kernel" => core'[d].ipiReschedulePending = {}
               /\ core'[d].asserts
    BY <1>8, <1>12 DEF IInv, StallInv
  <2>2. ASSUME NEW d \in Cores, NEW e \in core'[d].ipiReschedulePending
        PROVE  core'[e].cur = "idle" \/ (bar'.remoteCall = "Stall" /\ e \in lock'.ipi)
    BY <2>2, <1>1, <1>12, <1>13 DEF IInv, StallInv
  <2> QED BY <2>1, <2>2 DEF StallInv
<1>16. BarrierInv'
  <2>1. \A d \in Cores : Held(d)' <=> Held(d)
    BY <1>1, <1>2, <1>4, <1>6 DEF Held
  <2> QED BY <2>1, <1>1, <1>10 DEF IInv, BarrierInv
<1> QED BY <1>7, <1>9, <1>14, <1>15, <1>16 DEF IInv

\* doRemoteMaskOp: the owner of the lock begins a call, since there is none.
LEMMA RemoteMaskOpInv ==
  ASSUME IInv, NEW c \in Cores, NEW call \in {"Stall", "Invalidate"}, NEW mask \in SUBSET Cores,
         core[c].pc = "kernel", core[c].remotes < MaxRemote, mask # {}, c \notin mask,
         call = "Stall" => \A d \in mask : core[d].cur = "thread",
         doRemoteMaskOp(c, call, mask)
  PROVE  IInv' /\ queue' = queue
<1> DEFINE pend == IF call = "Stall" THEN core[c].ipiReschedulePending \cup mask
                   ELSE core[c].ipiReschedulePending
           r == [core[c] EXCEPT !.pc = "arrive", !.ret = "kernel", !.remotes = @ + 1,
                                !.ipiReschedulePending = pend]
           w(d) == IF d \in mask THEN [core[d] EXCEPT !.irqs = @ \cup {"remote"}] ELSE core[d]
<1>0. TypeOK /\ core \in [Cores -> CoreType] /\ core[c] \in CoreType
  BY Types DEF IInv
<1>1. /\ bar' = [bar EXCEPT !.remoteCall = call, !.totalCoreBarrier = Cardinality(mask)]
      /\ lock' = [lock EXCEPT !.ipi = @ \cup mask]
      /\ core' = [d \in Cores |-> IF d = c THEN r ELSE w(d)]
  BY DEF doRemoteMaskOp
<1>2. /\ bar.remoteCall = "none" /\ Awaited = {} /\ bar.count = 0
      /\ \A d \in Cores : at(d) \in Owners => d = c
  BY NoCallInProgress DEF Owners
<1>3. pend \in SUBSET Cores
  BY <1>0 DEF CoreType
<1>4. core[c].remotes + 1 \in 0 .. MaxRemote
  BY <1>0, LockAssumption DEF CoreType
<1>5. core[c].ipiReschedulePending \subseteq pend /\ pend \subseteq core[c].ipiReschedulePending \cup mask
  OBVIOUS
<1>6. call # "Stall" => pend = core[c].ipiReschedulePending
  OBVIOUS
<1> HIDE DEF pend
<1>7. r \in CoreType
  BY <1>0, <1>3, <1>4 DEF CoreType
<1>8. r.pc = "arrive" /\ r.ret = "kernel" /\ r.cur = core[c].cur /\ r.ipiReschedulePending = pend
  BY <1>0 DEF CoreType
<1>9. r.asserts = core[c].asserts
  BY <1>0, Zenon DEF CoreType
<1>10. ASSUME NEW d \in Cores
       PROVE  /\ w(d) \in CoreType /\ w(d).pc = core[d].pc /\ w(d).ret = core[d].ret
              /\ w(d).cur = core[d].cur /\ w(d).asserts = core[d].asserts
              /\ w(d).localsense = core[d].localsense
              /\ w(d).ipiReschedulePending = core[d].ipiReschedulePending
  <2> DEFINE u == [core[d] EXCEPT !.irqs = @ \cup {"remote"}]
  <2>1. core[d] \in CoreType
    BY <1>0
  <2>2. core[d].irqs \cup {"remote"} \in SUBSET {"remote", "reschedule"}
    BY <2>1 DEF CoreType
  <2>3. u \in CoreType
    BY <2>1, <2>2 DEF CoreType
  <2>4. /\ u.pc = core[d].pc /\ u.ret = core[d].ret /\ u.cur = core[d].cur
        /\ u.ipiReschedulePending = core[d].ipiReschedulePending
    BY <2>1 DEF CoreType
  <2>5. u.asserts = core[d].asserts /\ u.localsense = core[d].localsense
    BY <2>1, Zenon DEF CoreType
  <2> HIDE DEF u
  <2>6. w(d) = u \/ w(d) = core[d]
    BY DEF u
  <2> QED BY <2>1, <2>3, <2>4, <2>5, <2>6
<1> HIDE DEF r, w
<1>11. core' \in [Cores -> CoreType] /\ core'[c] = r /\ \A d \in Cores \ {c} : core'[d] = w(d)
  BY <1>1, <1>7, <1>10
<1>12. SameNodes /\ lock'.ipi = lock.ipi \cup mask
  BY <1>0, <1>1 DEF SameNodes, TypeOK
<1>13. \A d \in Cores : at(d)' = at(d)
  BY <1>8, <1>10, <1>11 DEF at
<1>14. LockInv' /\ ExchangeInv' /\ queue' = queue
  BY <1>12, <1>13, PlacesKept DEF IInv
<1>15. /\ bar'.remoteCall = call /\ bar'.totalCoreBarrier = Cardinality(mask) /\ bar'.count = bar.count
  BY <1>0, <1>1 DEF TypeOK
<1>16. /\ IsFiniteSet(mask) /\ Cardinality(mask) \in Nat
       /\ Cardinality(mask \cup {c}) = Cardinality(mask) + 1
       /\ Cardinality(mask) + 1 <= Cardinality(Cores) /\ Cardinality(Cores) \in Nat
  <2>1. IsFiniteSet(mask) /\ IsFiniteSet(Cores)
    BY FS_Subset, LockAssumption
  <2>2. Cardinality(mask) \in Nat /\ Cardinality(Cores) \in Nat
    BY <2>1, FS_CardinalityType
  <2>3. Cardinality(mask \cup {c}) = Cardinality(mask) + 1
    BY <2>1, FS_AddElement
  <2>4. mask \cup {c} \in SUBSET Cores
    OBVIOUS
  <2>5. Cardinality(mask \cup {c}) <= Cardinality(Cores)
    BY <2>1, <2>4, FS_Subset
  <2> QED BY <2>1, <2>2, <2>3, <2>5
<1>17. TypeOK'
  <2>1. Cardinality(mask) \in 0 .. Cardinality(Cores) - 1 /\ bar.count \in 0 .. Cardinality(mask)
    BY <1>2, <1>16
  <2>2. bar' \in [remoteCall : {"none", "Stall", "Invalidate"}, globalsense : BOOLEAN,
                  totalCoreBarrier : 0 .. Cardinality(Cores) - 1,
                  count : 0 .. bar'.totalCoreBarrier]
    BY <2>1, <1>0, <1>1, <1>15 DEF TypeOK
  <2>3. lock' \in [value : [Nodes -> {"Granted", "Pending"}], node : [Cores -> Nodes],
                   next : [Cores -> Nodes], ipi : SUBSET Cores, head : Nodes]
    BY <1>0, <1>1 DEF TypeOK
  <2> QED BY <2>2, <2>3, <1>11 DEF TypeOK
<1>18. lock.ipi = {} /\ \A d \in Cores : core[d].pc # "arrive"
  BY <1>2 DEF Awaited
<1>19. Awaited' = mask \cup {c}
  <2>1. {d \in Cores : core'[d].pc = "arrive"} = {c}
    BY <1>8, <1>10, <1>11, <1>18
  <2> QED BY <2>1, <1>12, <1>18 DEF Awaited
<1>20. CallInv'
  <2>1. \A d \in lock'.ipi : core'[d].pc # "arrive" /\ core'[d].cur = core[d].cur
    BY <1>10, <1>11, <1>12, <1>18
  <2>2. Caller(c)'
    BY <1>8, <1>11 DEF Caller
  <2>3. Cardinality(Awaited') + bar'.count = bar'.totalCoreBarrier + 1
    BY <1>2, <1>15, <1>16, <1>19
  <2>4. bar'.remoteCall = "Stall" => \A d \in lock'.ipi : core'[d].cur = "thread"
    BY <2>1, <1>12, <1>15, <1>18
  <2> QED BY <2>1, <2>2, <2>3, <2>4, <1>15 DEF CallInv
<1>21. StallInv'
  <2>1. ASSUME NEW d \in Cores
        PROVE  /\ at(d)' \in {"stallWait", "activate"} => core'[d].cur = "idle"
               /\ at(d)' # "kernel" => core'[d].ipiReschedulePending = {}
               /\ core'[d].asserts
    <3>1. CASE d = c
      <4>1. at(c)' = "kernel" /\ core[c].asserts
        BY <1>8, <1>11 DEF at, IInv, StallInv
      <4> QED BY <3>1, <4>1, <1>9, <1>11
    <3>2. CASE d # c
      BY <3>2, <1>10, <1>11, <1>13 DEF IInv, StallInv
    <3> QED BY <3>1, <3>2
  <2>2. ASSUME NEW d \in Cores, NEW e \in core'[d].ipiReschedulePending
        PROVE  core'[e].cur = "idle" \/ (bar'.remoteCall = "Stall" /\ e \in lock'.ipi)
    <3>1. d = c
      <4>1. at(d)' = "kernel"
        BY <2>1, <2>2
      <4> QED BY <4>1, <1>2, <1>13 DEF Owners
    <3>2. e \in pend /\ e \in Cores
      BY <2>2, <3>1, <1>3, <1>8, <1>11
    <3>3. core'[e].cur = core[e].cur
      BY <3>2, <1>8, <1>10, <1>11
    <3>4. CASE e \in core[c].ipiReschedulePending
      BY <3>3, <3>4, <1>2 DEF IInv, StallInv
    <3>5. CASE e \notin core[c].ipiReschedulePending
      BY <3>2, <3>5, <1>5, <1>6, <1>12, <1>15
    <3> QED BY <3>4, <3>5
  <2> QED BY <2>1, <2>2 DEF StallInv
<1>22. BarrierInv'
  <2>1. bar'.globalsense = bar.globalsense
    BY <1>0, <1>1, Zenon DEF TypeOK
  <2> SUFFICES ASSUME TwoCores, NEW d \in Cores
               PROVE  d \in Awaited' /\ ~Held(d)'
    BY DEF BarrierInv
  <2>2. d \in Awaited'
    <3>1. PICK e \in mask : e \in Cores /\ e # c
      OBVIOUS
    <3>2. d = c \/ d = e
      BY <3>1 DEF TwoCores
    <3> QED BY <3>1, <3>2, <1>19
  <2>3. CASE d = c
    BY <2>2, <2>3, <1>8, <1>11 DEF Held
  <2>4. CASE d # c
    <3>1. Held(d)' <=> Held(d)
      BY <2>1, <2>4, <1>10, <1>11 DEF Held
    <3> QED BY <2>2, <3>1, <1>2 DEF IInv, BarrierInv
  <2> QED BY <2>3, <2>4
<1> QED BY <1>14, <1>17, <1>20, <1>21, <1>22 DEF IInv

-----------------------------------------------------------------------------
(* The invariant *)

\* clh_lock_init establishes the invariant, and an empty first-come first-served queue.
LEMMA InitInv == Init => IInv /\ Lock!Init
<1> SUFFICES ASSUME Init PROVE IInv /\ Lock!Init
  OBVIOUS
<1>1. PICK own \in [Cores -> Nodes], n \in Nodes :
        /\ \A c, d \in Cores : own[c] # n /\ (c # d => own[c] # own[d])
        /\ lock = [value |-> [m \in Nodes |-> "Granted"], node |-> own, next |-> own,
                   ipi |-> {}, head |-> n]
  BY DEF Init
<1>2. bar = NoCall /\ core = [c \in Cores |-> UserCore]
  BY DEF Init
<1>3. UserCore \in CoreType
  <2>1. 0 \in 0 .. MaxRemote /\ {} \in SUBSET Cores /\ {} \in SUBSET {"remote", "reschedule"}
    BY LockAssumption
  <2> QED BY <2>1 DEF UserCore, CoreType
<1>4. TypeOK
  <2>1. 0 \in 0 .. Cardinality(Cores) - 1
    <3>1. Cardinality(Cores) \in Nat /\ Cardinality(Cores) # 0
      BY FS_CardinalityType, FS_EmptySet, LockAssumption
    <3> QED BY <3>1
  <2>2. bar \in [remoteCall : {"none", "Stall", "Invalidate"}, globalsense : BOOLEAN,
                 totalCoreBarrier : 0 .. Cardinality(Cores) - 1,
                 count : 0 .. bar.totalCoreBarrier]
    BY <2>1, <1>2 DEF NoCall
  <2>3. lock \in [value : [Nodes -> {"Granted", "Pending"}], node : [Cores -> Nodes],
                  next : [Cores -> Nodes], ipi : SUBSET Cores, head : Nodes]
    BY <1>1
  <2> QED BY <2>2, <2>3, <1>2, <1>3 DEF TypeOK
<1>5. \A c \in Cores : core[c] = UserCore /\ at(c) = "user"
  BY <1>2 DEF at, UserCore
<1>6. OwnNodes /\ \A c \in Cores : ~Queued(c) /\ lock.value[lock.node[c]] = "Granted"
  BY <1>1 DEF OwnNodes, Queued
<1>7. Chain(<<>>)
  BY <1>1, <1>6 DEF Chain, IsQueue, FreeNode
<1>8. LockInv
  BY <1>5, <1>6, <1>7 DEF LockInv, PlaceInv, Owners
<1>9. Awaited = {} /\ lock.ipi = {}
  BY <1>1, <1>5 DEF Awaited, UserCore
<1>10. CallInv
  BY <1>2, <1>9 DEF CallInv, NoCall
<1>11. StallInv
  <2>1. \A c \in Cores : core[c].ipiReschedulePending = {} /\ core[c].asserts
    BY <1>5 DEF UserCore
  <2> QED BY <2>1, <1>5 DEF StallInv
<1>12. BarrierInv /\ ExchangeInv
  BY <1>2, <1>5 DEF BarrierInv, Held, ExchangeInv, UserCore, NoCall
<1>13. queue = <<>>
  BY <1>6, <1>7, ChainIsQueue
<1> QED BY <1>4, <1>8, <1>10, <1>11, <1>12, <1>13 DEF IInv, Lock!Init

\* Every step keeps the invariant and is a step of FIFOLock, or leaves its queue alone.
LEMMA NextInv == IInv /\ [Next]_vars => IInv' /\ [Lock!Next]_queue
<1> SUFFICES ASSUME IInv, [Next]_vars PROVE IInv' /\ [Lock!Next]_queue
  OBVIOUS
<1>1. CASE UNCHANGED vars
  <2>1. core' = core /\ lock' = lock /\ bar' = bar
    BY <1>1 DEF vars
  <2>2. TypeOK' /\ CallInv' /\ StallInv' /\ BarrierInv'
    BY <2>1 DEF IInv, TypeOK, CallInv, StallInv, BarrierInv, at, Awaited, Caller, Held
  <2>3. \A d \in Cores : at(d)' = at(d)
    BY <2>1 DEF at
  <2>4. LockInv' /\ ExchangeInv' /\ queue' = queue
    BY <2>1, <2>3, PlacesKept DEF IInv, SameNodes
  <2> QED BY <2>2, <2>4 DEF IInv
<1>2. ASSUME NEW c \in Cores, Entry(c) PROVE IInv' /\ queue' = queue
  <2>1. PICK e \in {"syscall", "device", "reschedule"} : Enter(c, e)
    BY <1>2 DEF Entry, Syscall, Interrupt, Reschedule
  <2> QED BY <2>1, EnterInv
<1>3. ASSUME NEW c \in Cores, KernelStep(c) PROVE IInv' /\ [Lock!Next]_queue
  <2>1. CASE Exchange(c)
    BY <2>1, ExchangeStep DEF Lock!Next
  <2>2. CASE ExchangeFails(c)
    BY <2>2, HandleIPIInv DEF ExchangeFails
  <2>3. CASE Acquire(c) \/ StallAcquire(c)
    BY <2>3, AcquireInv
  <2>4. CASE WaitHandleIPI(c)
    BY <2>4, HandleIPIInv DEF WaitHandleIPI
  <2>5. CASE StallHandleIPI(c)
    BY <2>5, HandleIPIInv DEF StallHandleIPI
  <2>6. CASE Exit(c) \/ StallExit(c)
    BY <2>6, ExitInv DEF Lock!Next
  <2>7. CASE Arrive(c)
    BY <2>7, ArriveInv
  <2>8. CASE LeaveBarrier(c)
    BY <2>8, LeaveBarrierInv
  <2> QED BY <1>3, <2>1, <2>2, <2>3, <2>4, <2>5, <2>6, <2>7, <2>8 DEF KernelStep
<1>4. ASSUME NEW c \in Cores, RemoteRequest(c) PROVE IInv' /\ queue' = queue
  <2>1. ASSUME NEW d \in Cores, remoteTCBStall(c, d) PROVE IInv' /\ queue' = queue
    <3>1. /\ core[c].pc = "kernel" /\ core[c].remotes < MaxRemote /\ {d} # {} /\ c \notin {d}
          /\ \A x \in {d} : core[x].cur = "thread"
          /\ doRemoteMaskOp(c, "Stall", {d}) /\ {d} \in SUBSET Cores
      BY <2>1 DEF remoteTCBStall
    <3> QED BY <3>1, RemoteMaskOpInv
  <2>2. ASSUME NEW mask \in SUBSET Cores, RemoteCall(c, mask) PROVE IInv' /\ queue' = queue
    <3>1. /\ core[c].pc = "kernel" /\ core[c].remotes < MaxRemote /\ mask # {} /\ c \notin mask
          /\ doRemoteMaskOp(c, "Invalidate", mask)
      BY <2>2 DEF RemoteCall
    <3> QED BY <3>1, RemoteMaskOpInv
  <2> QED BY <1>4, <2>1, <2>2 DEF RemoteRequest
<1>5. ASSUME NEW c \in Cores, IPI(c) PROVE IInv' /\ queue' = queue
  <2>1. CASE RemoteInterrupt(c)
    BY <2>1, HandleIPIInv DEF RemoteInterrupt
  <2>2. CASE SpuriousInterrupt(c)
    BY <2>2, SpuriousInv
  <2> QED BY <1>5, <2>1, <2>2 DEF IPI
<1> QED BY <1>1, <1>2, <1>3, <1>4, <1>5 DEF Next

\* The inductive invariant of the big lock and the remote calls.
LEMMA SpecInv == Spec => []IInv
<1>1. Init => IInv
  BY InitInv
<1>2. IInv /\ [Next]_vars => IInv'
  BY NextInv
<1> QED BY <1>1, <1>2, PTL DEF Spec

-----------------------------------------------------------------------------
(* What is proved *)

\* The variables keep their types; the barrier of ipi_wait counts no more arrivals than
\* the remote call has targets, for any number of cores.
THEOREM LockTypeCorrect == Spec => []TypeOK
<1>1. IInv => TypeOK
  BY DEF IInv
<1> QED BY <1>1, SpecInv, PTL

\* The big kernel lock is mutually exclusive for any number of cores: whoever runs
\* kernel code after clh_lock_acquire, or after the loop of ipiStallCoreCallback, is the
\* first of the queue that the nodes make up, also where the exchange fails on Arm.
THEOREM LockExclusive == Spec => []OwnerFirst
<1>1. IInv => OwnerFirst
  <2> SUFFICES ASSUME IInv PROVE OwnerFirst
    OBVIOUS
  <2>1. PICK s : Chain(s)
    BY DEF IInv, LockInv
  <2>2. s \in CoreSeqs /\ IsQueue(s)
    BY <2>1, ChainBounded DEF Chain
  <2>3. ASSUME NEW c \in Cores, at(c) \in {"kernel", "activate"} PROVE s # <<>> /\ s[1] = c
    <3>1. Queued(c) /\ granted(c)
      BY <2>3 DEF IInv, LockInv, PlaceInv, Owners
    <3> QED BY <2>1, <3>1, GrantedFirst
  <2> QED BY <2>2, <2>3 DEF OwnerFirst
<1> QED BY <1>1, SpecInv, PTL

\* The CLH lock of lock.h implements a queue in which cores join at the end and leave
\* at the front: it is first come, first served.
THEOREM LockFirstComeFirstServed == Spec => LockOrder
<1>1. Init => Lock!Init
  BY InitInv
<1>2. IInv /\ [Next]_vars => [Lock!Next]_queue
  BY NextInv
<1> QED BY <1>1, <1>2, SpecInv, PTL DEF Spec, LockOrder

\* As long as a core has a remote call to answer, the owner of the lock waits in
\* doRemoteMaskOp, so a callback changes its core's scheduler state undisturbed.
THEOREM CallbacksSynchronous == Spec => []CallsSynchronous
<1>1. IInv => CallsSynchronous
  <2> SUFFICES ASSUME IInv, lock.ipi # {} PROVE \E d \in Cores : at(d) = "kernel" /\ core[d].pc \in {"arrive", "barrier"}
    BY DEF CallsSynchronous
  <2>1. bar.remoteCall # "none"
    BY DEF IInv, CallInv, Awaited
  <2>2. PICK d \in Cores : Caller(d)
    BY <2>1 DEF IInv, CallInv
  <2> QED BY <2>2 DEF Caller, at
<1> QED BY <1>1, SpecInv, PTL

\* The assertion of ipiStallCoreCallback holds: a core stalled in a system call is not
\* stalled again before it has had the lock.
THEOREM IPIAssertionsHold == Spec => []NoIPIAssertionFails
<1>1. IInv => NoIPIAssertionFails
  BY DEF IInv, StallInv, NoIPIAssertionFails
<1> QED BY <1>1, SpecInv, PTL

\* After remoteTCBStall has returned, the stalled core runs its idle thread until the
\* caller gives back the lock, wherever the stall has met it.
THEOREM StalledThreadsStay == Spec => []StalledThread
<1>1. IInv => StalledThread
  <2> SUFFICES ASSUME IInv, NEW c \in Cores, core[c].pc = "kernel",
                      NEW d \in core[c].ipiReschedulePending
               PROVE  core[d].cur = "idle"
    BY DEF StalledThread
  <2>1. bar.remoteCall = "none"
    BY NoCallInProgress DEF Owners
  <2> QED BY <2>1 DEF IInv, StallInv
<1> QED BY <1>1, SpecInv, PTL

\* Of two cores, a target of a remote call is not held up in the loop of ipi_wait by an
\* earlier call, however long it stays there: the sense cannot be flipped without it.  (Of
\* three, the code does not guarantee it.)
THEOREM TargetsReachable ==
  ASSUME TwoCores
  PROVE  Spec => []TargetsAnswer
<1>1. IInv => TargetsAnswer
  <2> SUFFICES ASSUME IInv, NEW c \in lock.ipi, core[c].pc = "barrier"
               PROVE  core[c].localsense # bar.globalsense
    BY DEF TargetsAnswer
  <2>1. c \in Cores
    BY Types DEF IInv
  <2> QED BY <2>1 DEF IInv, BarrierInv, Held
<1> QED BY <1>1, SpecInv, PTL

\* Where the exchange cannot fail (x86, RISC-V), a core that goes on waiting in
\* ipiStallCoreCallback is in the queue.  (On Arm it need not be.)
THEOREM StalledInQueue ==
  ASSUME ~ExchangeMayFail
  PROVE  Spec => []WaitsInQueue
<1>1. IInv => WaitsInQueue
  <2> SUFFICES ASSUME IInv, NEW c \in Cores, core[c].pc = "stallWait"
               PROVE  \E i \in DOMAIN queue : queue[i] = c
    BY DEF WaitsInQueue
  <2>1. PICK s : Chain(s)
    BY DEF IInv, LockInv
  <2>2. queue = s
    BY <2>1, ChainIsQueue DEF IInv, LockInv
  <2>3. Queued(c)
    BY DEF IInv, ExchangeInv, at
  <2> QED BY <2>1, <2>2, <2>3 DEF Chain
<1> QED BY <1>1, SpecInv, PTL

=============================================================================
