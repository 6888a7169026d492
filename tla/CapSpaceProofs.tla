---------------------------- MODULE CapSpaceProofs ----------------------------
(***************************************************************************)
(* Proofs about the mapping database, deletion and Retype, for any memory, *)
(* any objects and any number of caps.                                     *)
(***************************************************************************)
EXTENDS CapSpaceProperties, Induction

-----------------------------------------------------------------------------
(* Powers of two *)

\* The values that the recursive function of BIT takes.
Powers(n, f) ==
  /\ f \in [0 .. n -> Nat]
  /\ f[0] = 1
  /\ \A i \in 1 .. n : f[i] = 2 * f[i - 1]

\* BIT(n) is the last of them.
LEMMA BitPowers ==
  ASSUME NEW n \in Nat
  PROVE  \E f : Powers(n, f) /\ BIT(n) = f[n]
<1> DEFINE F == [p \in (1 .. n) \X Nat |-> 2 * p[2]]
           rhs(f) == [i \in 0 .. n |-> IF i = 0 THEN 1 ELSE 2 * f[i - 1]]
           bit == CHOOSE f : f = rhs(f)
<1>1. F \in [(1 .. n) \X Nat -> Nat]
  OBVIOUS
<1>2. \A i \in 1 .. n : \A x \in Nat : F[<<i, x>>] = 2 * x
  OBVIOUS
<1> HIDE DEF F
<1>3. PICK g \in [0 .. n -> Nat] : Recursion(n, F, 1, g)
  BY <1>1, Iterates
<1>4. g = rhs(g)
  <2>1. \A i \in 0 .. n : i # 0 => i \in 1 .. n /\ i - 1 \in 0 .. n
    OBVIOUS
  <2>2. \A i \in 0 .. n : i # 0 => F[<<i, g[i - 1]>>] = 2 * g[i - 1]
    BY <2>1, <1>2
  <2> QED BY <1>3, <2>2 DEF Recursion
<1>5. bit = rhs(bit)
  <2> HIDE DEF rhs
  <2> QED BY <1>4
<1>6. BIT(n) = bit[n]
  BY DEF BIT
<1> HIDE DEF bit
<1>7. bit[0] = 1 /\ \A i \in 1 .. n : bit[i] = 2 * bit[i - 1]
  <2>1. \A i \in 0 .. n : bit[i] = IF i = 0 THEN 1 ELSE 2 * bit[i - 1]
    BY <1>5
  <2>2. 0 \in 0 .. n /\ \A i \in 1 .. n : i \in 0 .. n /\ i # 0
    OBVIOUS
  <2> QED BY <2>1, <2>2
<1>8. \A i \in 0 .. n : bit[i] \in Nat
  <2> DEFINE G == {i \in Nat : bit[i] \in Nat}
  <2>1. 0 \in G
    BY <1>7
  <2>2. ASSUME NEW i \in 1 .. n, i - 1 \in G PROVE i \in G
    <3>1. bit[i - 1] \in Nat /\ bit[i] = 2 * bit[i - 1]
      BY <2>2, <1>7
    <3> QED BY <3>1
  <2>3. \A i \in 0 .. n : i \in G
    <3> HIDE DEF G
    <3> QED BY <2>1, <2>2, UpTo
  <2> QED BY <2>3
<1>9. bit \in [0 .. n -> Nat]
  <2>1. bit = [i \in 0 .. n |-> bit[i]]
    BY <1>5
  <2> QED BY <1>8, <2>1
<1> QED BY <1>6, <1>7, <1>9 DEF Powers

\* A power of two is positive.
LEMMA BitType ==
  ASSUME NEW n \in Nat
  PROVE  BIT(n) \in Nat /\ BIT(n) >= 1
<1>1. PICK f : Powers(n, f) /\ BIT(n) = f[n]
  BY BitPowers
<1> DEFINE G == {i \in Nat : i <= n => f[i] \in Nat /\ f[i] >= 1}
<1>2. 0 \in G
  BY <1>1 DEF Powers
<1>3. ASSUME NEW i \in 1 .. n, i - 1 \in G PROVE i \in G
  <2>1. f[i] = 2 * f[i - 1] /\ f[i - 1] \in Nat /\ f[i - 1] >= 1
    BY <1>1, <1>3 DEF Powers
  <2> QED BY <2>1
<1>4. n \in G
  <2> HIDE DEF G
  <2>1. n \in 0 .. n
    OBVIOUS
  <2> QED BY <1>2, <1>3, <2>1, UpTo
<1> QED BY <1>1, <1>4

\* A power of two is a multiple of the smaller ones.
LEMMA BitMultiple ==
  ASSUME NEW a \in Nat, NEW b \in Nat, a <= b
  PROVE  \E k \in Nat : k >= 1 /\ BIT(b) = k * BIT(a)
<1>1. PICK f : Powers(a, f) /\ BIT(a) = f[a]
  BY BitPowers
<1>2. PICK g : Powers(b, g) /\ BIT(b) = g[b]
  BY BitPowers
<1> DEFINE G == {i \in Nat : f[i] = g[i]}
<1>3. 0 \in G
  BY <1>1, <1>2 DEF Powers
<1>4. ASSUME NEW i \in 1 .. a, i - 1 \in G PROVE i \in G
  <2>1. i \in 1 .. b /\ i \in Nat
    OBVIOUS
  <2>2. f[i] = 2 * f[i - 1]
    BY <1>1 DEF Powers
  <2>3. g[i] = 2 * g[i - 1]
    BY <1>2, <2>1 DEF Powers
  <2>4. f[i - 1] = g[i - 1]
    BY <1>4
  <2> QED BY <2>1, <2>2, <2>3, <2>4
<1>5. g[a] = BIT(a)
  <2>1. a \in G
    <3> HIDE DEF G
    <3>1. a \in 0 .. a
      OBVIOUS
    <3> QED BY <1>3, <1>4, <3>1, UpTo
  <2> QED BY <1>1, <2>1
<1> DEFINE m == BIT(a)
           H == {i \in Nat : \E k \in Nat : k >= 1 /\ g[a + i] = k * m}
<1>6. m \in Nat /\ m >= 1
  BY BitType
<1> HIDE DEF m
<1>7. 0 \in H
  <2>1. 1 \in Nat /\ 1 >= 1 /\ g[a + 0] = 1 * m
    BY <1>5, <1>6 DEF m
  <2> QED BY <2>1
<1>8. ASSUME NEW i \in 1 .. b - a, i - 1 \in H PROVE i \in H
  <2>1. PICK k \in Nat : k >= 1 /\ g[a + (i - 1)] = k * m
    BY <1>8
  <2>2. a + i \in 1 .. b /\ (a + i) - 1 = a + (i - 1)
    OBVIOUS
  <2>3. g[a + i] = 2 * g[a + (i - 1)]
    BY <1>2, <2>2 DEF Powers
  <2>4. g[a + i] = (2 * k) * m /\ 2 * k \in Nat /\ 2 * k >= 1
    BY <1>6, <2>1, <2>3
  <2> QED BY <2>4
<1>9. b - a \in H
  <2> HIDE DEF H
  <2>1. b - a \in Nat /\ b - a \in 0 .. b - a
    OBVIOUS
  <2> QED BY <1>7, <1>8, <2>1, UpTo
<1>10. a + (b - a) = b
  OBVIOUS
<1> QED BY <1>2, <1>9, <1>10 DEF m

\* Two multiples of m that are less than m apart.
LEMMA Multiples ==
  ASSUME NEW m \in Nat, m >= 1, NEW x \in Nat, NEW y \in Nat, x * m < y * m + m
  PROVE  x * m <= y * m
<1>1. x <= y
  <2> SUFFICES ASSUME x >= y + 1 PROVE FALSE
    OBVIOUS
  <2>1. (x - (y + 1)) * m >= 0
    OBVIOUS
  <2>2. (x - (y + 1)) * m = x * m - y * m - m
    OBVIOUS
  <2> QED BY <2>1, <2>2
<1>2. (y - x) * m >= 0
  BY <1>1
<1>3. (y - x) * m = y * m - x * m
  OBVIOUS
<1> QED BY <1>2, <1>3
\* Division rounds down.
LEMMA RoundDown ==
  ASSUME NEW x \in Nat, NEW m \in Nat, m >= 1
  PROVE  x \div m \in Nat /\ m * (x \div m) <= x /\ x < m * (x \div m) + m
<1>1. x \div m \in Int /\ x % m \in 0 .. m - 1 /\ x = m * (x \div m) + (x % m)
  OBVIOUS
<1>2. x \div m >= 0
  <2> SUFFICES ASSUME x \div m <= -1 PROVE FALSE
    BY <1>1
  <2> DEFINE q == x \div m
  <2>1. q \in Int /\ q <= -1
    BY <1>1
  <2> HIDE DEF q
  <2>2. m * (-1 - q) >= 0 /\ m * (-1 - q) = -m - m * q
    BY <2>1
  <2> QED BY <1>1, <2>1, <2>2 DEF q
<1>3. m * (x \div m) \in Int
  BY <1>1
<1> QED BY <1>1, <1>2, <1>3

\* The addresses of the memory map.
LEMMA BootMemory ==
  /\ UntypedSize \in Nat /\ UntypedSize >= 1 /\ RootSize \in Nat /\ RootSize >= 4 /\ BIT(0) = 1
  /\ RootCNode \in Nat /\ InitTCB < RootCNode /\ InitTCB = UntypedSize
<1>1. UntypedSize \in Nat /\ UntypedSize >= 1 /\ RootSize \in Nat /\ RootSize >= 1
  BY MemoryMap, BitType DEF UntypedSize, RootSize
<1>2. BIT(0) = 1
  BY BitPowers DEF Powers
<1>3. BIT(2) = 4
  <2>1. PICK f : Powers(2, f) /\ BIT(2) = f[2]
    BY BitPowers
  <2>2. f[0] = 1 /\ \A i \in 1 .. 2 : f[i] = 2 * f[i - 1]
    BY <2>1 DEF Powers
  <2>3. f[1] = 2
    BY <2>2
  <2>4. f[2] = 4
    BY <2>2, <2>3
  <2> QED BY <2>1, <2>4
<1>4. RootSize >= 4
  <2>1. PICK k \in Nat : k >= 1 /\ RootSize = k * BIT(2)
    BY MemoryMap, BitMultiple DEF RootSize
  <2> QED BY <1>3, <2>1
<1>5. RootCNode \in Nat /\ InitTCB < RootCNode
  <2>1. UntypedSize \div RootSize \in Nat /\ UntypedSize < RootSize * (UntypedSize \div RootSize) + RootSize
    BY <1>1, RoundDown
  <2> DEFINE q == UntypedSize \div RootSize
  <2> HIDE DEF q
  <2>2. RootCNode = RootSize * (q + 1)
    BY DEF RootCNode, q
  <2>3. q \in Nat /\ UntypedSize < RootSize * q + RootSize
    BY <2>1 DEF q
  <2>4. RootSize * (q + 1) = RootSize * q + RootSize /\ RootSize * q \in Nat
    BY <1>1, <2>3
  <2> QED BY <1>1, <2>2, <2>3, <2>4 DEF InitTCB
<1> QED BY <1>1, <1>2, <1>4, <1>5 DEF InitTCB

-----------------------------------------------------------------------------
(* Caps and the memory they name *)

UntypedCaps  == [type : {"untyped"}, ptr : Nat, bits : Nat, free : Nat]
EndpointCaps == [type : {"endpoint"}, ptr : Nat, bits : {0}, badge : Nat]
CNodeCaps    == [type : {"cnode"}, ptr : Nat, bits : Nat]
ThreadCaps   == [type : {"thread"}, ptr : Nat, bits : {0}]
ZombieCaps   == [type : {"zombie"}, ptr : Nat, bits : Nat, num : Nat, ztype : {"cnode", "tcb"}]

RealCaps == UntypedCaps \cup EndpointCaps \cup CNodeCaps \cup ThreadCaps \cup ZombieCaps

Caps == {NullCap} \cup RealCaps

Objects == {"endpoint", "thread", "cnode"}

\* The first address behind the memory of a cap.
end(k) == k.ptr + BIT(k.bits)

\* The memory of b is part of that of a.
inside(a, b) == a.ptr <= b.ptr /\ end(b) <= end(a)

meets(a, b) == a.ptr < end(b) /\ b.ptr < end(a)

\* The fields of a cap.
LEMMA CapFields ==
  ASSUME NEW k \in RealCaps
  PROVE  /\ k.ptr \in Nat /\ k.bits \in Nat /\ BIT(k.bits) \in Nat /\ BIT(k.bits) >= 1
         /\ end(k) \in Nat /\ k.ptr < end(k)
         /\ k.type \in {"untyped", "endpoint", "thread", "cnode", "zombie"} /\ k.type # "null"
         /\ k.type = "untyped" <=> k \in UntypedCaps
         /\ k.type = "endpoint" <=> k \in EndpointCaps
         /\ k.type = "cnode" <=> k \in CNodeCaps
         /\ k.type = "thread" <=> k \in ThreadCaps
         /\ k.type = "zombie" <=> k \in ZombieCaps
<1>1. /\ k.ptr \in Nat /\ k.bits \in Nat
      /\ k.type \in {"untyped", "endpoint", "thread", "cnode", "zombie"}
  BY DEF RealCaps, UntypedCaps, EndpointCaps, CNodeCaps, ThreadCaps, ZombieCaps
<1>2. BIT(k.bits) \in Nat /\ BIT(k.bits) >= 1
  BY <1>1, BitType
<1>3. end(k) \in Nat /\ k.ptr < end(k)
  BY <1>1, <1>2 DEF end
<1>4. /\ k.type = "untyped" <=> k \in UntypedCaps
      /\ k.type = "endpoint" <=> k \in EndpointCaps
      /\ k.type = "cnode" <=> k \in CNodeCaps
      /\ k.type = "thread" <=> k \in ThreadCaps
      /\ k.type = "zombie" <=> k \in ZombieCaps
  BY DEF RealCaps, UntypedCaps, EndpointCaps, CNodeCaps, ThreadCaps, ZombieCaps
<1> QED BY <1>1, <1>2, <1>3, <1>4

\* A cap is null by its type.
LEMMA NullType ==
  ASSUME NEW k \in Caps
  PROVE  /\ k = NullCap <=> k.type = "null"
         /\ k \in RealCaps <=> k.type # "null"
<1>1. NullCap.type = "null"
  BY DEF NullCap
<1>2. k \in RealCaps => k.type # "null"
  BY CapFields
<1> QED BY <1>1, <1>2 DEF Caps

\* Inclusion of memory, as numbers.
LEMMA RegionInside ==
  ASSUME NEW a \in RealCaps, NEW b \in RealCaps
  PROVE  region(b) \subseteq region(a) <=> inside(a, b)
<1>1. /\ a.ptr \in Nat /\ BIT(a.bits) \in Nat /\ BIT(a.bits) >= 1
      /\ b.ptr \in Nat /\ BIT(b.bits) \in Nat /\ BIT(b.bits) >= 1
  BY CapFields
<1>2. region(b) \subseteq region(a) => inside(a, b)
  <2>1. b.ptr \in region(b) /\ b.ptr + BIT(b.bits) - 1 \in region(b)
    BY <1>1 DEF region
  <2> QED BY <1>1, <2>1 DEF region, inside, end
<1>3. inside(a, b) => region(b) \subseteq region(a)
  BY <1>1 DEF region, inside, end
<1> QED BY <1>2, <1>3

\* Overlap of memory, as numbers.
LEMMA RegionMeets ==
  ASSUME NEW a \in RealCaps, NEW b \in RealCaps
  PROVE  region(a) \cap region(b) # {} <=> meets(a, b)
<1>1. /\ a.ptr \in Nat /\ BIT(a.bits) \in Nat /\ BIT(a.bits) >= 1
      /\ b.ptr \in Nat /\ BIT(b.bits) \in Nat /\ BIT(b.bits) >= 1
  BY CapFields
<1>2. ASSUME region(a) \cap region(b) # {} PROVE meets(a, b)
  <2>1. PICK x : x \in region(a) /\ x \in region(b)
    BY <1>2
  <2> QED BY <1>1, <2>1 DEF region, meets, end
<1>3. ASSUME meets(a, b) PROVE region(a) \cap region(b) # {}
  <2>1. CASE a.ptr <= b.ptr
    <3>1. b.ptr \in region(a) /\ b.ptr \in region(b)
      BY <1>1, <1>3, <2>1 DEF region, meets, end
    <3> QED BY <3>1
  <2>2. CASE ~(a.ptr <= b.ptr)
    <3>1. a.ptr \in region(a) /\ a.ptr \in region(b)
      BY <1>1, <1>3, <2>2 DEF region, meets, end
    <3> QED BY <3>1
  <2> QED BY <2>1, <2>2
<1> QED BY <1>2, <1>3

\* b is a cap into the untyped memory a, or to the same object as a.
Kin(a, b) ==
  \/ a.type = "untyped" /\ inside(a, b)
  \/ a.type \in Objects /\ b.type = a.type /\ b.ptr = a.ptr /\ b.bits = a.bits

\* sameRegionAs, as numbers.
LEMMA SameRegion ==
  ASSUME NEW a \in RealCaps, NEW b \in RealCaps
  PROVE  /\ sameRegionAs(a, b) <=> Kin(a, b)
         /\ sameObjectAs(a, b) <=> a.type # "untyped" /\ Kin(a, b)
<1>1. /\ a.type \in {"untyped", "endpoint", "thread", "cnode", "zombie"} /\ b.type # "null"
      /\ region(b) \subseteq region(a) <=> inside(a, b)
  BY CapFields, RegionInside
<1>2. sameRegionAs(a, b) <=> Kin(a, b)
  BY <1>1 DEF sameRegionAs, Kin, Objects
<1> QED BY <1>2 DEF sameObjectAs

\* Nothing is like a null cap.
LEMMA NullRegion ==
  ASSUME NEW a \in Caps, NEW b \in Caps, a = NullCap \/ b = NullCap
  PROVE  ~sameRegionAs(a, b) /\ ~sameObjectAs(a, b)
<1>1. NullCap.type = "null"
  BY DEF NullCap
<1>2. ~sameRegionAs(a, b)
  BY <1>1 DEF sameRegionAs
<1> QED BY <1>2 DEF sameObjectAs

\* Being kin is transitive.
LEMMA KinTrans ==
  ASSUME NEW a \in RealCaps, NEW b \in RealCaps, NEW d \in RealCaps, Kin(a, b), Kin(b, d)
  PROVE  Kin(a, d)
<1>1. a.ptr \in Nat /\ b.ptr \in Nat /\ d.ptr \in Nat /\ end(a) \in Nat /\ end(b) \in Nat /\ end(d) \in Nat
  BY CapFields
<1>2. CASE a.type = "untyped"
  <2>1. inside(a, b)
    BY <1>2 DEF Kin, Objects
  <2>2. inside(b, d)
    BY <1>1 DEF Kin, inside, end
  <2>3. inside(a, d)
    BY <1>1, <2>1, <2>2 DEF inside
  <2> QED BY <1>2, <2>3 DEF Kin
<1>3. CASE a.type # "untyped"
  BY <1>3 DEF Kin, Objects
<1> QED BY <1>2, <1>3

\* Caps to one object are kin of each other.
LEMMA KinSym ==
  ASSUME NEW a \in RealCaps, NEW b \in RealCaps, Kin(a, b), a.type # "untyped"
  PROVE  Kin(b, a) /\ b.type = a.type /\ a.type \in Objects
BY DEF Kin, Objects

\* The memory of kin overlaps.
LEMMA KinMeets ==
  ASSUME NEW a \in RealCaps, NEW b \in RealCaps, Kin(a, b)
  PROVE  meets(a, b) /\ inside(a, b)
<1>1. /\ a.ptr \in Nat /\ b.ptr \in Nat /\ end(a) \in Nat /\ end(b) \in Nat
      /\ a.ptr < end(a) /\ b.ptr < end(b)
  BY CapFields
<1>2. inside(a, b)
  BY <1>1 DEF Kin, inside, end
<1> QED BY <1>1, <1>2 DEF inside, meets

-----------------------------------------------------------------------------
(* The structure of the mapping database *)

Links == Slots \cup {Null}

Databases ==
  [cap : [Slots -> Caps], next : [Slots -> Links], prev : [Slots -> Links],
   revocable : SUBSET Slots, firstBadged : SUBSET Slots, asserts : BOOLEAN]

used(c) == {s \in Slots : c.cap[s].type # "null"}

\* Doubly linked lists of the slots in use.
Linked(c) ==
  \A s \in Slots :
    /\ s \notin used(c) =>
         c.next[s] = Null /\ c.prev[s] = Null /\ s \notin c.revocable /\ s \notin c.firstBadged
    /\ c.next[s] # Null => c.next[s] \in used(c) /\ c.prev[c.next[s]] = s
    /\ c.prev[s] # Null => c.prev[s] \in used(c) /\ c.next[c.prev[s]] = s

\* The lists can be laid out one after another: rank is the place of a slot.
Ordered(c, rank) ==
  /\ rank \in [Slots -> Nat]
  /\ \A s, t \in used(c) : rank[s] = rank[t] => s = t
  /\ \A s \in used(c) : c.next[s] # Null =>
       /\ rank[s] < rank[c.next[s]]
       /\ \A x \in used(c) : ~(rank[s] < rank[x] /\ rank[x] < rank[c.next[s]])

\* What is kin to a cap before it follows it in its list, with only kin in between.
Chained(c, rank) ==
  \A u, s, x \in used(c) : rank[u] < rank[s] /\ Kin(c.cap[u], c.cap[s]) =>
    /\ rank[u] <= rank[x] /\ rank[x] < rank[s] => c.next[x] # Null
    /\ rank[u] < rank[x] /\ rank[x] <= rank[s] => c.prev[x] # Null /\ Kin(c.cap[u], c.cap[x])

\* A cap into untyped memory comes after the untyped cap and lies below its free index, or it
\* is the untyped that the other was copied or made from.
Covered(c, rank) ==
  \A u, s \in used(c) : u # s /\ c.cap[u].type = "untyped" /\ inside(c.cap[u], c.cap[s]) =>
    \/ rank[u] < rank[s] /\ end(c.cap[s]) <= c.cap[u].ptr + c.cap[u].free
    \/ rank[s] < rank[u] /\ c.cap[s].type = "untyped" /\ inside(c.cap[s], c.cap[u])

\* Caps whose memory overlaps are kin.
Nested(c) ==
  \A s, t \in used(c) : s # t /\ meets(c.cap[s], c.cap[t]) =>
    Kin(c.cap[s], c.cap[t]) \/ Kin(c.cap[t], c.cap[s])

\* The original cap of an endpoint comes before all others.
OriginalFirst(c, rank) ==
  \A p, s \in used(c) :
    /\ p # s /\ p \in c.revocable /\ Kin(c.cap[p], c.cap[s])
    /\ c.cap[p].type = "endpoint" /\ c.cap[p].badge = 0
    => rank[p] < rank[s]

\* A cap with a badge comes right behind one with the same badge, unless it is marked as the first.
BadgesRun(c) ==
  \A s \in used(c) :
    c.cap[s].type = "endpoint" /\ c.cap[s].badge # 0 /\ s \notin c.firstBadged =>
      /\ c.prev[s] # Null
      /\ c.cap[c.prev[s]].type = "endpoint" /\ c.cap[c.prev[s]].badge = c.cap[s].badge

\* A cap names memory that there is.
Proper(k) ==
  /\ \A x \in Nat : k.ptr <= x /\ x < end(k) => x \in Slots
  /\ k.type = "untyped" => /\ k.free <= BIT(k.bits) /\ end(k) <= UntypedSize
                           /\ \E i \in Nat : k.ptr = i * BIT(k.bits)
  /\ k.type = "zombie" => k.num <= BIT(k.bits)

Sized(c) ==
  \A s \in used(c) : Proper(c.cap[s]) /\ (c.cap[s].type = "untyped" => s \in c.revocable)

Structure(c, rank) ==
  /\ c \in Databases
  /\ Linked(c) /\ Ordered(c, rank) /\ Chained(c, rank) /\ Covered(c, rank)
  /\ Nested(c) /\ OriginalFirst(c, rank) /\ BadgesRun(c) /\ Sized(c)

\* Every cap is in a slot of an object that some cap leads to.
Held(c) == \A s \in used(c) : \E t \in used(c) : s \in storage(c.cap[t])

\* The fields of a database.
LEMMA DatabaseFields ==
  ASSUME NEW c \in Databases
  PROVE  /\ c.cap \in [Slots -> Caps] /\ c.next \in [Slots -> Links] /\ c.prev \in [Slots -> Links]
         /\ c.revocable \subseteq Slots /\ c.firstBadged \subseteq Slots /\ c.asserts \in BOOLEAN
         /\ \A s \in Slots : c.cap[s] \in Caps /\ c.next[s] \in Links /\ c.prev[s] \in Links
         /\ \A s \in Slots : s \in used(c) <=> c.cap[s] # NullCap
         /\ \A s \in used(c) : s \in Slots /\ c.cap[s] \in RealCaps
         /\ Null \notin Slots
<1>1. /\ c.cap \in [Slots -> Caps] /\ c.next \in [Slots -> Links] /\ c.prev \in [Slots -> Links]
      /\ c.revocable \subseteq Slots /\ c.firstBadged \subseteq Slots /\ c.asserts \in BOOLEAN
  BY DEF Databases
<1>2. \A s \in Slots : c.cap[s] \in Caps /\ c.next[s] \in Links /\ c.prev[s] \in Links
  BY <1>1
<1>3. \A s \in Slots : s \in used(c) <=> c.cap[s] # NullCap
  BY <1>2, NullType DEF used
<1>4. \A s \in used(c) : s \in Slots /\ c.cap[s] \in RealCaps
  BY <1>2, <1>3 DEF used, Caps
<1>5. Null \notin Slots
  BY MemoryMap
<1> QED BY <1>1, <1>2, <1>3, <1>4, <1>5

-----------------------------------------------------------------------------
(* Caps that change places *)

flip(a, b, s) == IF s = a THEN b ELSE IF s = b THEN a ELSE s

\* d is c with the slots a and b exchanged.
Flipped(c, a, b, d) ==
  /\ d \in Databases
  /\ \A s \in Slots :
       /\ d.cap[s] = c.cap[flip(a, b, s)]
       /\ d.next[s] = flip(a, b, c.next[flip(a, b, s)])
       /\ d.prev[s] = flip(a, b, c.prev[flip(a, b, s)])
       /\ s \in d.revocable <=> flip(a, b, s) \in c.revocable
       /\ s \in d.firstBadged <=> flip(a, b, s) \in c.firstBadged

\* Exchanging two slots everywhere keeps the structure.
LEMMA FlippedStructure ==
  ASSUME NEW c, NEW rank, Structure(c, rank), NEW a \in Slots, NEW b \in Slots, NEW d, Flipped(c, a, b, d)
  PROVE  Structure(d, [s \in Slots |-> rank[flip(a, b, s)]])
<1> DEFINE f(s) == flip(a, b, s)
           new == [s \in Slots |-> rank[f(s)]]
<1>0. c \in Databases /\ d \in Databases /\ Null \notin Slots
  BY MemoryMap DEF Structure, Flipped
<1>1. /\ \A s \in Slots : f(s) \in Slots /\ f(f(s)) = s
      /\ f(Null) = Null /\ \A s \in Links : f(s) \in Links /\ f(f(s)) = s /\ (f(s) = Null <=> s = Null)
      /\ \A s, t \in Links : f(s) = f(t) => s = t
  BY <1>0 DEF flip, Links
<1> HIDE DEF f
<1>2. /\ \A s \in Slots : d.cap[s] = c.cap[f(s)] /\ d.next[s] = f(c.next[f(s)]) /\ d.prev[s] = f(c.prev[f(s)])
      /\ \A s \in Slots : (s \in d.revocable <=> f(s) \in c.revocable) /\ (s \in d.firstBadged <=> f(s) \in c.firstBadged)
  BY DEF Flipped, f
<1>3. /\ \A s \in used(d) : s \in Slots /\ f(s) \in used(c)
      /\ \A s \in used(c) : s \in Slots /\ f(s) \in used(d)
      /\ \A s \in Slots : s \in used(d) <=> f(s) \in used(c)
  BY <1>1, <1>2 DEF used
<1>4. \A s \in Slots : c.next[s] \in Links /\ c.prev[s] \in Links /\ s \in Links
  BY <1>0, DatabaseFields DEF Links
<1>5. \A s \in Slots : new[s] = rank[f(s)]
  OBVIOUS
<1>6. Linked(d)
  <2> SUFFICES ASSUME NEW s \in Slots
               PROVE  /\ s \notin used(d) => d.next[s] = Null /\ d.prev[s] = Null
                                             /\ s \notin d.revocable /\ s \notin d.firstBadged
                      /\ d.next[s] # Null => d.next[s] \in used(d) /\ d.prev[d.next[s]] = s
                      /\ d.prev[s] # Null => d.prev[s] \in used(d) /\ d.next[d.prev[s]] = s
    BY DEF Linked
  <2> DEFINE t == f(s)
  <2>1. /\ t \notin used(c) => c.next[t] = Null /\ c.prev[t] = Null /\ t \notin c.revocable /\ t \notin c.firstBadged
        /\ c.next[t] # Null => c.next[t] \in used(c) /\ c.prev[c.next[t]] = t
        /\ c.prev[t] # Null => c.prev[t] \in used(c) /\ c.next[c.prev[t]] = t
    BY <1>1 DEF Structure, Linked
  <2>2. s \notin used(d) => d.next[s] = Null /\ d.prev[s] = Null /\ s \notin d.revocable /\ s \notin d.firstBadged
    BY <1>1, <1>2, <1>3, <2>1
  <2>3. ASSUME d.next[s] # Null PROVE d.next[s] \in used(d) /\ d.prev[d.next[s]] = s
    <3>1. d.next[s] = f(c.next[t]) /\ c.next[t] # Null
      BY <1>1, <1>2, <2>3
    <3>2. c.next[t] \in used(c) /\ c.prev[c.next[t]] = t /\ c.next[t] \in Slots
      BY <1>3, <2>1, <3>1
    <3>3. d.next[s] \in used(d) /\ d.next[s] \in Slots /\ f(d.next[s]) = c.next[t]
      BY <1>1, <1>3, <3>1, <3>2
    <3>4. d.prev[d.next[s]] = f(c.prev[c.next[t]])
      BY <1>2, <3>3
    <3> QED BY <1>1, <3>2, <3>3, <3>4
  <2>4. ASSUME d.prev[s] # Null PROVE d.prev[s] \in used(d) /\ d.next[d.prev[s]] = s
    <3>1. d.prev[s] = f(c.prev[t]) /\ c.prev[t] # Null
      BY <1>1, <1>2, <2>4
    <3>2. c.prev[t] \in used(c) /\ c.next[c.prev[t]] = t /\ c.prev[t] \in Slots
      BY <1>3, <2>1, <3>1
    <3>3. d.prev[s] \in used(d) /\ d.prev[s] \in Slots /\ f(d.prev[s]) = c.prev[t]
      BY <1>1, <1>3, <3>1, <3>2
    <3>4. d.next[d.prev[s]] = f(c.next[c.prev[t]])
      BY <1>2, <3>3
    <3> QED BY <1>1, <3>2, <3>3, <3>4
  <2> QED BY <2>2, <2>3, <2>4
<1>7. Ordered(d, new)
  <2>1. new \in [Slots -> Nat]
    BY <1>1 DEF Structure, Ordered
  <2>2. \A s, t \in used(d) : new[s] = new[t] => s = t
    BY <1>1, <1>3, <1>4, <1>5 DEF Structure, Ordered
  <2>3. ASSUME NEW s \in used(d), d.next[s] # Null
        PROVE  /\ new[s] < new[d.next[s]]
               /\ \A x \in used(d) : ~(new[s] < new[x] /\ new[x] < new[d.next[s]])
    <3>1. s \in Slots /\ f(s) \in used(c) /\ c.next[f(s)] \in Links
      BY <1>3, <1>4, <1>1
    <3>2. d.next[s] = f(c.next[f(s)]) /\ c.next[f(s)] # Null /\ f(d.next[s]) = c.next[f(s)] /\ d.next[s] \in Slots
      BY <1>0, <1>1, <1>2, <2>3, <3>1 DEF Links
    <3>3. /\ rank[f(s)] < rank[c.next[f(s)]]
          /\ \A x \in used(c) : ~(rank[f(s)] < rank[x] /\ rank[x] < rank[c.next[f(s)]])
      BY <3>1, <3>2 DEF Structure, Ordered
    <3>4. \A x \in used(d) : f(x) \in used(c) /\ new[x] = rank[f(x)]
      BY <1>3, <1>5
    <3>5. new[s] = rank[f(s)] /\ new[d.next[s]] = rank[c.next[f(s)]]
      BY <1>5, <3>1, <3>2
    <3> QED BY <3>3, <3>4, <3>5
  <2> QED BY <2>1, <2>2, <2>3 DEF Ordered
<1>8. \A s \in used(d) : d.cap[s] = c.cap[f(s)] /\ new[s] = rank[f(s)] /\ f(s) \in used(c)
  BY <1>2, <1>3
<1> HIDE DEF new
<1>9. Chained(d, new)
  <2> SUFFICES ASSUME NEW u \in used(d), NEW s \in used(d), NEW x \in used(d), new[u] < new[s],
                      Kin(d.cap[u], d.cap[s])
               PROVE  /\ new[u] <= new[x] /\ new[x] < new[s] => d.next[x] # Null
                      /\ new[u] < new[x] /\ new[x] <= new[s] => d.prev[x] # Null /\ Kin(d.cap[u], d.cap[x])
    BY DEF Chained
  <2>1. /\ rank[f(u)] <= rank[f(x)] /\ rank[f(x)] < rank[f(s)] => c.next[f(x)] # Null
        /\ rank[f(u)] < rank[f(x)] /\ rank[f(x)] <= rank[f(s)] =>
             c.prev[f(x)] # Null /\ Kin(c.cap[f(u)], c.cap[f(x)])
    BY <1>8 DEF Structure, Chained
  <2>2. /\ d.next[x] = Null <=> c.next[f(x)] = Null
        /\ d.prev[x] = Null <=> c.prev[f(x)] = Null
    BY <1>1, <1>2, <1>3, <1>4
  <2> QED BY <1>8, <2>1, <2>2
<1>10. \A s, t \in used(d) : f(s) = f(t) => s = t
  BY <1>1, <1>3, <1>4
<1>11. Covered(d, new)
  <2> SUFFICES ASSUME NEW u \in used(d), NEW s \in used(d), u # s, d.cap[u].type = "untyped",
                      inside(d.cap[u], d.cap[s])
               PROVE  \/ new[u] < new[s] /\ end(d.cap[s]) <= d.cap[u].ptr + d.cap[u].free
                      \/ new[s] < new[u] /\ d.cap[s].type = "untyped" /\ inside(d.cap[s], d.cap[u])
    BY DEF Covered
  <2>1. f(u) # f(s) /\ f(u) \in used(c) /\ f(s) \in used(c)
    BY <1>8, <1>10
  <2> QED BY <1>8, <2>1 DEF Structure, Covered
<1>12. Nested(d)
  <2> SUFFICES ASSUME NEW s \in used(d), NEW t \in used(d), s # t, meets(d.cap[s], d.cap[t])
               PROVE  Kin(d.cap[s], d.cap[t]) \/ Kin(d.cap[t], d.cap[s])
    BY DEF Nested
  <2>1. f(s) # f(t) /\ f(s) \in used(c) /\ f(t) \in used(c)
    BY <1>8, <1>10
  <2> QED BY <1>8, <2>1 DEF Structure, Nested
<1>13. OriginalFirst(d, new)
  <2> SUFFICES ASSUME NEW p \in used(d), NEW s \in used(d), p # s, p \in d.revocable, Kin(d.cap[p], d.cap[s]),
                      d.cap[p].type = "endpoint", d.cap[p].badge = 0
               PROVE  new[p] < new[s]
    BY DEF OriginalFirst
  <2>1. f(p) # f(s) /\ f(p) \in used(c) /\ f(s) \in used(c) /\ f(p) \in c.revocable
    BY <1>2, <1>3, <1>8, <1>10
  <2> QED BY <1>8, <2>1 DEF Structure, OriginalFirst
<1>14. Sized(d)
  <2> SUFFICES ASSUME NEW s \in used(d)
               PROVE  Proper(d.cap[s]) /\ (d.cap[s].type = "untyped" => s \in d.revocable)
    BY DEF Sized
  <2>1. Proper(c.cap[f(s)]) /\ (c.cap[f(s)].type = "untyped" => f(s) \in c.revocable)
    BY <1>8 DEF Structure, Sized
  <2> QED BY <1>2, <1>3, <1>8, <2>1
<1>15. BadgesRun(d)
  <2> SUFFICES ASSUME NEW s \in used(d), d.cap[s].type = "endpoint", d.cap[s].badge # 0, s \notin d.firstBadged
               PROVE  /\ d.prev[s] # Null
                      /\ d.cap[d.prev[s]].type = "endpoint" /\ d.cap[d.prev[s]].badge = d.cap[s].badge
    BY DEF BadgesRun
  <2>1. s \in Slots /\ f(s) \in used(c) /\ d.cap[s] = c.cap[f(s)] /\ f(s) \notin c.firstBadged /\ f(s) \in Slots
    BY <1>1, <1>2, <1>3
  <2>2. /\ c.prev[f(s)] # Null
        /\ c.cap[c.prev[f(s)]].type = "endpoint" /\ c.cap[c.prev[f(s)]].badge = c.cap[f(s)].badge
    BY <2>1 DEF Structure, BadgesRun
  <2>3. c.prev[f(s)] \in Slots /\ d.prev[s] = f(c.prev[f(s)])
    BY <1>2, <1>4, <2>1, <2>2 DEF Links
  <2>4. d.prev[s] \in Slots /\ d.cap[d.prev[s]] = c.cap[c.prev[f(s)]]
    BY <1>1, <1>2, <2>3
  <2> QED BY <1>0, <2>1, <2>2, <2>4
<1>16. Structure(d, new)
  BY <1>0, <1>6, <1>7, <1>9, <1>11, <1>12, <1>13, <1>14, <1>15 DEF Structure
<1> QED BY <1>16 DEF new, f


\* No cap is its own neighbour, and no two caps follow each other.
LEMMA NoLoops ==
  ASSUME NEW c, NEW rank, Structure(c, rank)
  PROVE  /\ \A s \in Slots : c.next[s] # s /\ c.prev[s] # s
         /\ \A s, t \in Slots : c.next[s] = t => c.next[t] # s
         /\ \A s, t \in Slots : (c.next[s] = t <=> c.prev[t] = s)
<1>0. c \in Databases /\ Null \notin Slots
  BY MemoryMap DEF Structure
<1>1. \A s \in Slots : c.next[s] # Null => c.next[s] \in used(c) /\ c.prev[c.next[s]] = s /\ s \in used(c)
  BY DEF Structure, Linked
<1>2. \A s \in Slots : c.prev[s] # Null => c.prev[s] \in used(c) /\ c.next[c.prev[s]] = s /\ s \in used(c)
  BY DEF Structure, Linked
<1>3. \A s \in used(c) : s \in Slots /\ rank[s] \in Nat /\ (c.next[s] # Null => rank[s] < rank[c.next[s]])
  BY DEF Structure, Ordered, used
<1>4. \A s, t \in Slots : (c.next[s] = t <=> c.prev[t] = s)
  BY <1>0, <1>1, <1>2
<1>5. \A s \in Slots : c.next[s] # s
  BY <1>0, <1>1, <1>3
<1>6. \A s, t \in Slots : c.next[s] = t => c.next[t] # s
  BY <1>0, <1>1, <1>3
<1> QED BY <1>4, <1>5, <1>6

\* The flag sets after two slots have changed places.
LEMMA Relabelled ==
  ASSUME NEW S, S \subseteq Slots, NEW a \in Slots, NEW b \in Slots
  PROVE  relabel(S, a, b) \subseteq Slots /\ \A s \in Slots : s \in relabel(S, a, b) <=> flip(a, b, s) \in S
BY DEF relabel, flip

\* cteSwap exchanges the two slots, neighbours or not, even if one of them is empty.
LEMMA SwapFlipped ==
  ASSUME NEW c, NEW rank, Structure(c, rank), NEW a \in Slots, NEW b \in Slots, a # b
  PROVE  /\ Flipped(c, a, b, cteSwap(c, c.cap[a], a, c.cap[b], b))
         /\ cteSwap(c, c.cap[a], a, c.cap[b], b).asserts = c.asserts
<1> DEFINE nextA == setNext(c.next, c.prev[a], b)
           prevA == setPrev(c.prev, c.next[a], b)
           nextB == [nextA EXCEPT ![a] = nextA[b], ![b] = c.next[a]]
           prevB == [prevA EXCEPT ![a] = prevA[b], ![b] = c.prev[a]]
           N == setNext(nextB, prevA[b], a)
           P == setPrev(prevB, nextA[b], a)
           K == [c.cap EXCEPT ![a] = c.cap[b], ![b] = c.cap[a]]
           d == cteSwap(c, c.cap[a], a, c.cap[b], b)
<1>1. c \in Databases /\ Null \notin Slots
  BY MemoryMap DEF Structure
<1>2. /\ c.cap \in [Slots -> Caps] /\ c.next \in [Slots -> Links] /\ c.prev \in [Slots -> Links]
      /\ c.revocable \subseteq Slots /\ c.firstBadged \subseteq Slots /\ c.asserts \in BOOLEAN
      /\ \A s \in Slots : c.cap[s] \in Caps /\ c.next[s] \in Links /\ c.prev[s] \in Links
  BY <1>1, DatabaseFields
<1>3. /\ \A s \in Slots : c.next[s] # s /\ c.prev[s] # s
      /\ \A s, t \in Slots : c.next[s] = t => c.next[t] # s
      /\ \A s, t \in Slots : (c.next[s] = t <=> c.prev[t] = s)
  BY NoLoops
<1>4. d = [c EXCEPT !.cap = K, !.next = N, !.prev = P,
                    !.revocable = relabel(c.revocable, a, b), !.firstBadged = relabel(c.firstBadged, a, b)]
  BY <1>1 DEF cteSwap, Databases
<1>5. nextA \in [Slots -> Links] /\ prevA \in [Slots -> Links]
  BY <1>2 DEF setNext, setPrev, Links
<1>6. \A s \in Slots : nextA[s] = IF s = c.prev[a] THEN b ELSE c.next[s]
  BY <1>1, <1>2 DEF setNext, Links
<1>7. \A s \in Slots : prevA[s] = IF s = c.next[a] THEN b ELSE c.prev[s]
  BY <1>1, <1>2 DEF setPrev, Links
<1> HIDE DEF nextA, prevA
<1>8. nextB \in [Slots -> Links] /\ prevB \in [Slots -> Links]
  BY <1>2, <1>5
<1>9. \A s \in Slots : /\ nextB[s] = IF s = b THEN c.next[a] ELSE IF s = a THEN nextA[b] ELSE nextA[s]
                       /\ prevB[s] = IF s = b THEN c.prev[a] ELSE IF s = a THEN prevA[b] ELSE prevA[s]
  BY <1>2, <1>5
<1> HIDE DEF nextB, prevB
<1>10. N \in [Slots -> Links] /\ P \in [Slots -> Links]
  BY <1>8 DEF setNext, setPrev, Links
<1>11. \A s \in Slots : N[s] = IF s = prevA[b] THEN a ELSE nextB[s]
  BY <1>1, <1>5, <1>8 DEF setNext, Links
<1>12. \A s \in Slots : P[s] = IF s = nextA[b] THEN a ELSE prevB[s]
  BY <1>1, <1>5, <1>8 DEF setPrev, Links
<1> HIDE DEF N, P
<1>13. K \in [Slots -> Caps] /\ \A s \in Slots : K[s] = c.cap[flip(a, b, s)]
  BY <1>2 DEF flip
<1> HIDE DEF K
<1>14. /\ relabel(c.revocable, a, b) \subseteq Slots /\ relabel(c.firstBadged, a, b) \subseteq Slots
       /\ \A s \in Slots : /\ s \in relabel(c.revocable, a, b) <=> flip(a, b, s) \in c.revocable
                           /\ s \in relabel(c.firstBadged, a, b) <=> flip(a, b, s) \in c.firstBadged
  BY <1>2, Relabelled
<1>15. ASSUME NEW s \in Slots PROVE N[s] = flip(a, b, c.next[flip(a, b, s)])
  <2>1. c.prev[a] # a /\ c.next[a] # a /\ c.prev[b] # b /\ c.next[b] # b
    BY <1>3
  <2>2. /\ c.prev[a] = b <=> c.next[b] = a
        /\ c.prev[b] = a <=> c.next[a] = b
        /\ ~(c.next[a] = b /\ c.next[b] = a)
        /\ s = c.prev[a] <=> c.next[s] = a
        /\ s = c.prev[b] <=> c.next[s] = b
    BY <1>3
  <2>3. N[s] = IF s = prevA[b] THEN a ELSE IF s = b THEN c.next[a] ELSE IF s = a THEN nextA[b] ELSE nextA[s]
    BY <1>9, <1>11
  <2>4. /\ nextA[b] = IF b = c.prev[a] THEN b ELSE c.next[b]
        /\ nextA[s] = IF s = c.prev[a] THEN b ELSE c.next[s]
        /\ prevA[b] = IF b = c.next[a] THEN b ELSE c.prev[b]
    BY <1>6, <1>7
  <2>5. CASE s = a
    BY <2>1, <2>2, <2>3, <2>4, <2>5 DEF flip
  <2>6. CASE s = b
    BY <2>1, <2>2, <2>3, <2>4, <2>6 DEF flip
  <2>7. CASE s # a /\ s # b
    BY <2>1, <2>2, <2>3, <2>4, <2>7 DEF flip
  <2> QED BY <2>5, <2>6, <2>7
<1>16. ASSUME NEW s \in Slots PROVE P[s] = flip(a, b, c.prev[flip(a, b, s)])
  <2>1. c.prev[a] # a /\ c.next[a] # a /\ c.prev[b] # b /\ c.next[b] # b
    BY <1>3
  <2>2. /\ c.prev[a] = b <=> c.next[b] = a
        /\ c.prev[b] = a <=> c.next[a] = b
        /\ ~(c.next[a] = b /\ c.next[b] = a)
        /\ s = c.next[a] <=> c.prev[s] = a
        /\ s = c.next[b] <=> c.prev[s] = b
    BY <1>3
  <2>3. P[s] = IF s = nextA[b] THEN a ELSE IF s = b THEN c.prev[a] ELSE IF s = a THEN prevA[b] ELSE prevA[s]
    BY <1>9, <1>12
  <2>4. /\ prevA[b] = IF b = c.next[a] THEN b ELSE c.prev[b]
        /\ prevA[s] = IF s = c.next[a] THEN b ELSE c.prev[s]
        /\ nextA[b] = IF b = c.prev[a] THEN b ELSE c.next[b]
    BY <1>6, <1>7
  <2>5. CASE s = a
    BY <2>1, <2>2, <2>3, <2>4, <2>5 DEF flip
  <2>6. CASE s = b
    BY <2>1, <2>2, <2>3, <2>4, <2>6 DEF flip
  <2>7. CASE s # a /\ s # b
    BY <2>1, <2>2, <2>3, <2>4, <2>7 DEF flip
  <2> QED BY <2>5, <2>6, <2>7
<1>17. /\ d \in Databases /\ d.cap = K /\ d.next = N /\ d.prev = P /\ d.asserts = c.asserts
       /\ d.revocable = relabel(c.revocable, a, b) /\ d.firstBadged = relabel(c.firstBadged, a, b)
  <2> HIDE DEF d
  <2> QED BY <1>1, <1>2, <1>4, <1>10, <1>13, <1>14 DEF Databases
<1> HIDE DEF d
<1>18. Flipped(c, a, b, d)
  BY <1>13, <1>14, <1>15, <1>16, <1>17 DEF Flipped
<1> QED BY <1>17, <1>18 DEF d

\* cteMove exchanges the slot of a cap with an empty one.
LEMMA MoveFlipped ==
  ASSUME NEW c, NEW rank, Structure(c, rank), NEW a \in Slots, NEW b \in Slots, a # b, b \notin used(c)
  PROVE  /\ Flipped(c, a, b, cteMove(c, c.cap[a], a, b))
         /\ cteMove(c, c.cap[a], a, b).asserts = c.asserts
<1> DEFINE N == setNext([c.next EXCEPT ![b] = c.next[a], ![a] = Null], c.prev[a], b)
           P == setPrev([c.prev EXCEPT ![b] = c.prev[a], ![a] = Null], c.next[a], b)
           K == [c.cap EXCEPT ![b] = c.cap[a], ![a] = NullCap]
           d == cteMove(c, c.cap[a], a, b)
<1>1. c \in Databases /\ Null \notin Slots
  BY MemoryMap DEF Structure
<1>2. /\ c.cap \in [Slots -> Caps] /\ c.next \in [Slots -> Links] /\ c.prev \in [Slots -> Links]
      /\ c.revocable \subseteq Slots /\ c.firstBadged \subseteq Slots /\ c.asserts \in BOOLEAN
      /\ \A s \in Slots : c.cap[s] \in Caps /\ c.next[s] \in Links /\ c.prev[s] \in Links
      /\ c.cap[b] = NullCap
  BY <1>1, DatabaseFields
<1>3. /\ \A s \in Slots : c.next[s] # s /\ c.prev[s] # s
      /\ \A s, t \in Slots : (c.next[s] = t <=> c.prev[t] = s)
  BY NoLoops
<1>4. c.next[b] = Null /\ c.prev[b] = Null
  BY DEF Structure, Linked
<1>5. slotEmpty(c, b)
  BY <1>2, <1>4 DEF slotEmpty
<1>6. d = [c EXCEPT !.cap = K, !.next = N, !.prev = P,
                    !.revocable = relabel(c.revocable, a, b), !.firstBadged = relabel(c.firstBadged, a, b),
                    !.asserts = c.asserts /\ slotEmpty(c, b)]
  BY <1>1 DEF cteMove, Assert_, Databases
<1>7. N \in [Slots -> Links] /\ P \in [Slots -> Links]
  BY <1>2 DEF setNext, setPrev, Links
<1>8. /\ \A s \in Slots : N[s] = IF s = c.prev[a] THEN b ELSE IF s = a THEN Null ELSE IF s = b THEN c.next[a] ELSE c.next[s]
  BY <1>1, <1>2 DEF setNext, Links
<1>9. /\ \A s \in Slots : P[s] = IF s = c.next[a] THEN b ELSE IF s = a THEN Null ELSE IF s = b THEN c.prev[a] ELSE c.prev[s]
  BY <1>1, <1>2 DEF setPrev, Links
<1> HIDE DEF N, P
<1>10. K \in [Slots -> Caps] /\ \A s \in Slots : K[s] = c.cap[flip(a, b, s)]
  BY <1>2 DEF flip, Caps
<1> HIDE DEF K
<1>11. /\ relabel(c.revocable, a, b) \subseteq Slots /\ relabel(c.firstBadged, a, b) \subseteq Slots
       /\ \A s \in Slots : /\ s \in relabel(c.revocable, a, b) <=> flip(a, b, s) \in c.revocable
                           /\ s \in relabel(c.firstBadged, a, b) <=> flip(a, b, s) \in c.firstBadged
  BY <1>2, Relabelled
<1>12. \A s \in Slots : c.next[s] # b /\ c.prev[s] # b /\ (s = c.prev[a] <=> c.next[s] = a) /\ (s = c.next[a] <=> c.prev[s] = a)
  BY <1>1, <1>3, <1>4
<1>13. ASSUME NEW s \in Slots PROVE N[s] = flip(a, b, c.next[flip(a, b, s)])
  BY <1>1, <1>3, <1>4, <1>8, <1>12 DEF flip
<1>14. ASSUME NEW s \in Slots PROVE P[s] = flip(a, b, c.prev[flip(a, b, s)])
  BY <1>1, <1>3, <1>4, <1>9, <1>12 DEF flip
<1>15. (c.asserts /\ slotEmpty(c, b)) = c.asserts
  BY <1>2, <1>5
<1>16. /\ d \in Databases /\ d.cap = K /\ d.next = N /\ d.prev = P /\ d.asserts = c.asserts
       /\ d.revocable = relabel(c.revocable, a, b) /\ d.firstBadged = relabel(c.firstBadged, a, b)
  <2> HIDE DEF d
  <2> QED BY <1>1, <1>2, <1>6, <1>7, <1>10, <1>11, <1>15 DEF Databases
<1> HIDE DEF d
<1>17. Flipped(c, a, b, d)
  BY <1>10, <1>11, <1>13, <1>14, <1>16 DEF Flipped
<1> QED BY <1>16, <1>17 DEF d

-----------------------------------------------------------------------------
(* A cap that is taken out *)

\* d is c without the cap in slot s.
Unlinked(c, s, d) ==
  /\ d \in Databases
  /\ used(d) = used(c) \ {s}
  /\ \A x \in Slots \ {s} : d.cap[x] = c.cap[x]
  /\ d.cap[s] = NullCap
  /\ \A x \in Slots : /\ d.next[x] = IF x = s THEN Null ELSE IF c.next[x] = s THEN c.next[s] ELSE c.next[x]
                      /\ d.prev[x] = IF x = s THEN Null ELSE IF c.prev[x] = s THEN c.prev[s] ELSE c.prev[x]
  /\ d.revocable = c.revocable \ {s}
  /\ \A x \in Slots : x \in d.firstBadged => x \in used(d)
  /\ \A x \in used(d) : x \in d.firstBadged <=> x \in c.firstBadged \/ (c.prev[x] = s /\ s \in c.firstBadged)
  /\ d.asserts = c.asserts

\* emptySlot links the neighbours of a cap to each other.
LEMMA EmptyUnlinked ==
  ASSUME NEW c, NEW rank, Structure(c, rank), NEW s \in used(c)
  PROVE  Unlinked(c, s, emptySlot(c, s))
<1> DEFINE p == c.prev[s]
           n == c.next[s]
           N == setNext(c.next, p, n)
           P == setPrev(c.prev, n, p)
           F == IF n # Null /\ s \in c.firstBadged THEN c.firstBadged \cup {n} ELSE c.firstBadged
           c1 == [c EXCEPT !.next = N, !.prev = P, !.firstBadged = F]
           K2 == [x \in Slots |-> IF x \in {s} THEN NullCap ELSE c.cap[x]]
           N2 == [x \in Slots |-> IF x \in {s} THEN Null ELSE N[x]]
           P2 == [x \in Slots |-> IF x \in {s} THEN Null ELSE P[x]]
           d == emptySlot(c, s)
<1>1. c \in Databases /\ Null \notin Slots
  BY MemoryMap DEF Structure
<1>2. /\ c.cap \in [Slots -> Caps] /\ c.next \in [Slots -> Links] /\ c.prev \in [Slots -> Links]
      /\ c.revocable \subseteq Slots /\ c.firstBadged \subseteq Slots /\ c.asserts \in BOOLEAN
      /\ \A x \in Slots : c.cap[x] \in Caps /\ c.next[x] \in Links /\ c.prev[x] \in Links
      /\ s \in Slots /\ c.cap[s] # NullCap
      /\ \A x \in Slots : x \in used(c) <=> c.cap[x] # NullCap
  BY <1>1, DatabaseFields DEF used
<1>3. /\ \A x \in Slots : c.next[x] # x /\ c.prev[x] # x
      /\ \A x, t \in Slots : (c.next[x] = t <=> c.prev[t] = x)
  BY NoLoops
<1>4. /\ \A x \in Slots : x \in c.firstBadged => x \in used(c)
      /\ n # Null => n \in used(c) /\ n # s
  BY <1>2, <1>3 DEF Structure, Linked
<1>5. N \in [Slots -> Links] /\ P \in [Slots -> Links]
  BY <1>2 DEF setNext, setPrev, Links
<1>6. \A x \in Slots : N[x] = IF c.next[x] = s THEN n ELSE c.next[x]
  <2>1. \A x \in Slots : N[x] = IF x = p THEN n ELSE c.next[x]
    BY <1>1, <1>2 DEF setNext, Links
  <2>2. \A x \in Slots : x = p <=> c.next[x] = s
    BY <1>2, <1>3
  <2> HIDE DEF N, p
  <2> QED BY <2>1, <2>2
<1>7. \A x \in Slots : P[x] = IF c.prev[x] = s THEN p ELSE c.prev[x]
  <2>1. \A x \in Slots : P[x] = IF x = n THEN p ELSE c.prev[x]
    BY <1>1, <1>2 DEF setPrev, Links
  <2>2. \A x \in Slots : x = n <=> c.prev[x] = s
    BY <1>2, <1>3
  <2> HIDE DEF P, n
  <2> QED BY <2>1, <2>2
<1> HIDE DEF N, P
<1>8. F \subseteq Slots /\ \A x \in F : x \in used(c)
  BY <1>2, <1>4 DEF used
<1> HIDE DEF F
<1>9. d = clearSlots(c1, {s})
  BY <1>2 DEF emptySlot, N, P, F
<1>10. d = [c1 EXCEPT !.cap = K2, !.next = N2, !.prev = P2,
                      !.revocable = c.revocable \ {s}, !.firstBadged = F \ {s}]
  BY <1>1, <1>9 DEF clearSlots, Databases
<1> HIDE DEF d
<1>11. K2 \in [Slots -> Caps] /\ N2 \in [Slots -> Links] /\ P2 \in [Slots -> Links]
  BY <1>2, <1>5 DEF Caps, Links
<1>12. \A x \in Slots : /\ K2[x] = IF x = s THEN NullCap ELSE c.cap[x]
                        /\ N2[x] = IF x = s THEN Null ELSE N[x]
                        /\ P2[x] = IF x = s THEN Null ELSE P[x]
  OBVIOUS
<1> HIDE DEF K2, N2, P2
<1>13. /\ d \in Databases /\ d.cap = K2 /\ d.next = N2 /\ d.prev = P2 /\ d.asserts = c.asserts
       /\ d.revocable = c.revocable \ {s} /\ d.firstBadged = F \ {s}
  BY <1>1, <1>2, <1>8, <1>10, <1>11 DEF Databases
<1>14. \A x \in Slots : x \in used(d) <=> d.cap[x] # NullCap
  BY <1>13, DatabaseFields
<1>15. used(d) = used(c) \ {s}
  <2>1. \A x \in Slots : x \in used(d) <=> x \in used(c) \ {s}
    BY <1>2, <1>12, <1>13, <1>14
  <2> QED BY <2>1 DEF used
<1>16. \A x \in Slots : /\ d.next[x] = IF x = s THEN Null ELSE IF c.next[x] = s THEN c.next[s] ELSE c.next[x]
                        /\ d.prev[x] = IF x = s THEN Null ELSE IF c.prev[x] = s THEN c.prev[s] ELSE c.prev[x]
  BY <1>6, <1>7, <1>12, <1>13
<1>17. \A x \in used(d) : x \in d.firstBadged <=> x \in c.firstBadged \/ (c.prev[x] = s /\ s \in c.firstBadged)
  <2>1. \A x \in used(d) : x \in Slots /\ x # s /\ x # Null
    BY <1>1, <1>15 DEF used
  <2>2. \A x \in Slots : c.prev[x] = s <=> x = n
    BY <1>2, <1>3
  <2>3. \A x \in used(d) : x \in F <=> x \in c.firstBadged \/ (x = n /\ s \in c.firstBadged)
    BY <2>1 DEF F
  <2> HIDE DEF n
  <2> QED BY <1>13, <2>1, <2>2, <2>3
<1> QED BY <1>2, <1>8, <1>12, <1>13, <1>15, <1>16, <1>17 DEF Unlinked, d

\* Taking a cap out keeps the structure.
LEMMA UnlinkedStructure ==
  ASSUME NEW c, NEW rank, Structure(c, rank), NEW s \in used(c), NEW d, Unlinked(c, s, d)
  PROVE  Structure(d, rank)
<1>1. c \in Databases /\ d \in Databases /\ Null \notin Slots /\ s \in Slots
  BY MemoryMap DEF Structure, Unlinked, used
<1>2. /\ \A x \in Slots : c.next[x] # x /\ c.prev[x] # x
      /\ \A x, t \in Slots : c.next[x] = t => c.next[t] # x
      /\ \A x, t \in Slots : (c.next[x] = t <=> c.prev[t] = x)
  BY NoLoops
<1>3. /\ used(d) = used(c) \ {s} /\ \A x \in used(c) : x \in Slots
      /\ \A x \in used(d) : x \in used(c) /\ x # s /\ x \in Slots /\ d.cap[x] = c.cap[x]
      /\ \A x \in Slots : c.next[x] \in Links /\ c.prev[x] \in Links
  BY <1>1, DatabaseFields DEF Unlinked, used
<1>4. \A x \in Slots : /\ d.next[x] = IF x = s THEN Null ELSE IF c.next[x] = s THEN c.next[s] ELSE c.next[x]
                       /\ d.prev[x] = IF x = s THEN Null ELSE IF c.prev[x] = s THEN c.prev[s] ELSE c.prev[x]
  BY DEF Unlinked
<1>5. \A x \in Slots : /\ x \notin used(c) => c.next[x] = Null /\ c.prev[x] = Null /\ x \notin c.revocable
                       /\ c.next[x] # Null => c.next[x] \in used(c) /\ c.prev[c.next[x]] = x
                       /\ c.prev[x] # Null => c.prev[x] \in used(c) /\ c.next[c.prev[x]] = x
  BY DEF Structure, Linked
<1>6. Linked(d)
  <2> SUFFICES ASSUME NEW x \in Slots
               PROVE  /\ x \notin used(d) => d.next[x] = Null /\ d.prev[x] = Null
                                             /\ x \notin d.revocable /\ x \notin d.firstBadged
                      /\ d.next[x] # Null => d.next[x] \in used(d) /\ d.prev[d.next[x]] = x
                      /\ d.prev[x] # Null => d.prev[x] \in used(d) /\ d.next[d.prev[x]] = x
    BY DEF Linked
  <2>1. x \notin used(d) => d.next[x] = Null /\ d.prev[x] = Null /\ x \notin d.revocable /\ x \notin d.firstBadged
    <3>1. x \notin d.revocable <=> x = s \/ x \notin c.revocable
      BY DEF Unlinked
    <3>2. x \in d.firstBadged => x \in used(d)
      BY DEF Unlinked
    <3>3. x \notin used(d) => x = s \/ x \notin used(c)
      BY <1>3
    <3>4. x \notin used(d) => d.next[x] = Null /\ d.prev[x] = Null
      BY <1>1, <1>4, <1>5, <3>3
    <3> QED BY <1>5, <3>1, <3>2, <3>3, <3>4
  <2>2. ASSUME d.next[x] # Null PROVE d.next[x] \in used(d) /\ d.prev[d.next[x]] = x
    <3>1. x # s
      BY <1>4, <2>2
    <3>2. CASE c.next[x] = s
      <4>1. d.next[x] = c.next[s] /\ c.next[s] \in used(c) /\ c.next[s] # s /\ c.next[s] \in Slots
        BY <1>1, <1>2, <1>3, <1>4, <1>5, <2>2, <3>1, <3>2
      <4>2. c.prev[c.next[s]] = s /\ c.prev[s] = x
        BY <1>1, <1>2, <3>2, <4>1
      <4>3. d.prev[c.next[s]] = x
        BY <1>4, <4>1, <4>2
      <4> QED BY <1>3, <4>1, <4>3
    <3>3. CASE c.next[x] # s
      <4>1. d.next[x] = c.next[x] /\ c.next[x] \in used(c) /\ c.next[x] \in Slots /\ c.prev[c.next[x]] = x
        BY <1>3, <1>4, <1>5, <2>2, <3>1, <3>3
      <4>2. d.prev[c.next[x]] = x
        BY <1>4, <3>1, <3>3, <4>1
      <4> QED BY <1>3, <3>3, <4>1, <4>2
    <3> QED BY <3>2, <3>3
  <2>3. ASSUME d.prev[x] # Null PROVE d.prev[x] \in used(d) /\ d.next[d.prev[x]] = x
    <3>1. x # s
      BY <1>4, <2>3
    <3>2. CASE c.prev[x] = s
      <4>1. d.prev[x] = c.prev[s] /\ c.prev[s] \in used(c) /\ c.prev[s] # s /\ c.prev[s] \in Slots
        BY <1>1, <1>2, <1>3, <1>4, <1>5, <2>3, <3>1, <3>2
      <4>2. c.next[c.prev[s]] = s /\ c.next[s] = x
        BY <1>1, <1>2, <3>2, <4>1
      <4>3. d.next[c.prev[s]] = x
        BY <1>4, <4>1, <4>2
      <4> QED BY <1>3, <4>1, <4>3
    <3>3. CASE c.prev[x] # s
      <4>1. d.prev[x] = c.prev[x] /\ c.prev[x] \in used(c) /\ c.prev[x] \in Slots /\ c.next[c.prev[x]] = x
        BY <1>3, <1>4, <1>5, <2>3, <3>1, <3>3
      <4>2. d.next[c.prev[x]] = x
        BY <1>4, <3>1, <3>3, <4>1
      <4> QED BY <1>3, <3>3, <4>1, <4>2
    <3> QED BY <3>2, <3>3
  <2> QED BY <2>1, <2>2, <2>3
<1>7. /\ rank \in [Slots -> Nat]
      /\ \A x, t \in used(c) : rank[x] = rank[t] => x = t
      /\ \A x \in used(c) : rank[x] \in Nat
      /\ \A x \in used(c) : c.next[x] # Null =>
           /\ rank[x] < rank[c.next[x]]
           /\ \A t \in used(c) : ~(rank[x] < rank[t] /\ rank[t] < rank[c.next[x]])
  BY <1>3 DEF Structure, Ordered
<1>8. Ordered(d, rank)
  <2>1. ASSUME NEW x \in used(d), d.next[x] # Null
        PROVE  /\ rank[x] < rank[d.next[x]]
               /\ \A t \in used(d) : ~(rank[x] < rank[t] /\ rank[t] < rank[d.next[x]])
    <3>1. x \in used(c) /\ x # s /\ x \in Slots
      BY <1>3
    <3>2. CASE c.next[x] = s
      <4>1. d.next[x] = c.next[s] /\ c.next[s] \in used(c)
        BY <1>1, <1>4, <1>5, <2>1, <3>1, <3>2
      <4>2. /\ rank[x] < rank[s] /\ rank[s] < rank[c.next[s]]
            /\ \A t \in used(c) : ~(rank[x] < rank[t] /\ rank[t] < rank[s])
            /\ \A t \in used(c) : ~(rank[s] < rank[t] /\ rank[t] < rank[c.next[s]])
        BY <1>1, <1>5, <1>7, <2>1, <3>1, <3>2, <4>1
      <4>3. \A t \in used(d) : t \in used(c) /\ t # s /\ rank[t] # rank[s] /\ rank[t] \in Nat
        BY <1>3, <1>7
      <4> QED BY <1>7, <3>1, <4>1, <4>2, <4>3
    <3>3. CASE c.next[x] # s
      <4>1. d.next[x] = c.next[x]
        BY <1>4, <3>1, <3>3
      <4> QED BY <1>3, <1>7, <2>1, <3>1, <4>1
    <3> QED BY <3>2, <3>3
  <2>2. \A x, t \in used(d) : rank[x] = rank[t] => x = t
    BY <1>3, <1>7
  <2> QED BY <1>7, <2>1, <2>2 DEF Ordered
<1>9. Chained(d, rank)
  <2> SUFFICES ASSUME NEW u \in used(d), NEW t \in used(d), NEW x \in used(d), rank[u] < rank[t],
                      Kin(d.cap[u], d.cap[t])
               PROVE  /\ rank[u] <= rank[x] /\ rank[x] < rank[t] => d.next[x] # Null
                      /\ rank[u] < rank[x] /\ rank[x] <= rank[t] => d.prev[x] # Null /\ Kin(d.cap[u], d.cap[x])
    BY DEF Chained
  <2>1. /\ u \in used(c) /\ t \in used(c) /\ x \in used(c) /\ u # s /\ t # s /\ x # s /\ x \in Slots
        /\ d.cap[u] = c.cap[u] /\ d.cap[t] = c.cap[t] /\ d.cap[x] = c.cap[x] /\ Kin(c.cap[u], c.cap[t])
    BY <1>3
  <2>2. \A y \in used(c) :
          /\ rank[u] <= rank[y] /\ rank[y] < rank[t] => c.next[y] # Null
          /\ rank[u] < rank[y] /\ rank[y] <= rank[t] => c.prev[y] # Null /\ Kin(c.cap[u], c.cap[y])
    BY <2>1 DEF Structure, Chained
  <2>3. ASSUME rank[u] <= rank[x], rank[x] < rank[t] PROVE d.next[x] # Null
    <3>1. CASE c.next[x] # s
      BY <1>4, <2>1, <2>2, <2>3, <3>1
    <3>2. CASE c.next[x] = s
      <4>1. rank[x] < rank[s] /\ ~(rank[x] < rank[t] /\ rank[t] < rank[s]) /\ rank[s] # rank[t]
        BY <1>1, <1>7, <2>1, <3>2
      <4>2. rank[u] <= rank[s] /\ rank[s] < rank[t]
        BY <1>7, <2>1, <2>3, <4>1
      <4>3. c.next[s] # Null
        BY <2>2, <4>2
      <4> QED BY <1>4, <2>1, <3>2, <4>3
    <3> QED BY <3>1, <3>2
  <2>4. ASSUME rank[u] < rank[x], rank[x] <= rank[t] PROVE d.prev[x] # Null
    <3>1. CASE c.prev[x] # s
      BY <1>4, <2>1, <2>2, <2>4, <3>1
    <3>2. CASE c.prev[x] = s
      <4>0. c.next[s] = x
        BY <1>1, <1>2, <2>1, <3>2
      <4>1. rank[s] < rank[x] /\ ~(rank[s] < rank[u] /\ rank[u] < rank[x]) /\ rank[s] # rank[u]
        BY <1>1, <1>7, <2>1, <4>0
      <4>2. rank[u] < rank[s] /\ rank[s] <= rank[t]
        BY <1>7, <2>1, <2>4, <4>1
      <4>3. c.prev[s] # Null
        BY <2>2, <4>2
      <4> QED BY <1>4, <2>1, <3>2, <4>3
    <3> QED BY <3>1, <3>2
  <2> QED BY <2>1, <2>2, <2>3, <2>4
<1>10. Covered(d, rank)
  BY <1>3 DEF Structure, Covered
<1>11. Nested(d)
  BY <1>3 DEF Structure, Nested
<1>12. OriginalFirst(d, rank)
  <2>1. \A x \in d.revocable : x \in c.revocable
    BY DEF Unlinked
  <2> QED BY <1>3, <2>1 DEF Structure, OriginalFirst
<1>13. Sized(d)
  <2>1. \A x \in c.revocable : x # s => x \in d.revocable
    BY DEF Unlinked
  <2> QED BY <1>3, <2>1 DEF Structure, Sized
<1>14. BadgesRun(d)
  <2> SUFFICES ASSUME NEW x \in used(d), d.cap[x].type = "endpoint", d.cap[x].badge # 0, x \notin d.firstBadged
               PROVE  /\ d.prev[x] # Null
                      /\ d.cap[d.prev[x]].type = "endpoint" /\ d.cap[d.prev[x]].badge = d.cap[x].badge
    BY DEF BadgesRun
  <2>1. /\ x \in used(c) /\ x # s /\ x \in Slots /\ d.cap[x] = c.cap[x]
        /\ x \notin c.firstBadged /\ (c.prev[x] = s => s \notin c.firstBadged)
    BY <1>3 DEF Unlinked
  <2>2. \A y \in used(c) : c.cap[y].type = "endpoint" /\ c.cap[y].badge # 0 /\ y \notin c.firstBadged =>
          /\ c.prev[y] # Null
          /\ c.cap[c.prev[y]].type = "endpoint" /\ c.cap[c.prev[y]].badge = c.cap[y].badge
    BY DEF Structure, BadgesRun
  <2>3. /\ c.prev[x] # Null /\ c.cap[c.prev[x]].type = "endpoint" /\ c.cap[c.prev[x]].badge = c.cap[x].badge
        /\ c.prev[x] \in used(c)
    BY <1>5, <2>1, <2>2
  <2>4. CASE c.prev[x] # s
    <3>1. d.prev[x] = c.prev[x] /\ c.prev[x] \in used(d)
      BY <1>3, <1>4, <2>1, <2>3, <2>4
    <3> QED BY <1>3, <2>1, <2>3, <3>1
  <2>5. CASE c.prev[x] = s
    <3>1. /\ c.prev[s] # Null /\ c.cap[c.prev[s]].type = "endpoint" /\ c.cap[c.prev[s]].badge = c.cap[s].badge
          /\ c.prev[s] \in used(c) /\ c.prev[s] # s
      BY <1>1, <1>2, <1>5, <2>1, <2>2, <2>3, <2>5
    <3>2. d.prev[x] = c.prev[s] /\ c.prev[s] \in used(d)
      BY <1>3, <1>4, <2>1, <2>5, <3>1
    <3> QED BY <1>3, <2>1, <2>3, <2>5, <3>1, <3>2
  <2> QED BY <2>4, <2>5
<1> QED BY <1>1, <1>6, <1>8, <1>9, <1>10, <1>11, <1>12, <1>13, <1>14 DEF Structure

-----------------------------------------------------------------------------
(* A cap that is put in *)

\* d is c with cap in slot dest, after src.
Inserted(c, cap, src, dest, rev, d) ==
  /\ d \in Databases
  /\ used(d) = used(c) \cup {dest}
  /\ \A x \in Slots : d.cap[x] = IF x = dest THEN cap ELSE c.cap[x]
  /\ \A x \in Slots : d.next[x] = IF x = src THEN dest ELSE IF x = dest THEN c.next[src] ELSE c.next[x]
  /\ \A x \in Slots : d.prev[x] = IF x = dest THEN src ELSE IF x = c.next[src] THEN dest ELSE c.prev[x]
  /\ d.revocable = IF rev THEN c.revocable \cup {dest} ELSE c.revocable
  /\ \A x \in Slots : x \in d.firstBadged => x \in used(d)
  /\ \A x \in used(d) : x \in d.firstBadged <=> IF x = dest THEN rev ELSE x \in c.firstBadged
  /\ d.asserts = c.asserts

\* linkAfter puts the cap between src and the one that followed it.
LEMMA LinkInserted ==
  ASSUME NEW c, NEW rank, Structure(c, rank), NEW src \in used(c), NEW dest \in Slots, dest \notin used(c),
         NEW cap \in RealCaps, NEW rev \in BOOLEAN
  PROVE  Inserted(c, cap, src, dest, rev, linkAfter(c, cap, src, dest, rev))
<1> DEFINE n == c.next[src]
           N == [c.next EXCEPT ![src] = dest, ![dest] = n]
           P == setPrev([c.prev EXCEPT ![dest] = src], n, dest)
           R == IF rev THEN c.revocable \cup {dest} ELSE c.revocable
           F == IF rev THEN c.firstBadged \cup {dest} ELSE c.firstBadged
           K == [c.cap EXCEPT ![dest] = cap]
           d == linkAfter(c, cap, src, dest, rev)
<1>1. c \in Databases /\ Null \notin Slots
  BY MemoryMap DEF Structure
<1>2. /\ c.cap \in [Slots -> Caps] /\ c.next \in [Slots -> Links] /\ c.prev \in [Slots -> Links]
      /\ c.revocable \subseteq Slots /\ c.firstBadged \subseteq Slots /\ c.asserts \in BOOLEAN
      /\ \A x \in Slots : c.cap[x] \in Caps /\ c.next[x] \in Links /\ c.prev[x] \in Links
      /\ src \in Slots
      /\ \A x \in Slots : x \in used(c) <=> c.cap[x] # NullCap
  BY <1>1, DatabaseFields DEF used
<1>3. \A x \in Slots : x \in c.firstBadged => x \in used(c)
  BY DEF Structure, Linked
<1>4. n \in Links /\ n # dest /\ src # dest
  <2>1. n # Null => n \in used(c)
    BY <1>2 DEF Structure, Linked
  <2> QED BY <1>1, <1>2, <2>1
<1>5. N \in [Slots -> Links] /\ P \in [Slots -> Links] /\ K \in [Slots -> Caps]
  BY <1>2, <1>4 DEF setPrev, Links, Caps
<1>6. \A x \in Slots : N[x] = IF x = src THEN dest ELSE IF x = dest THEN n ELSE c.next[x]
  BY <1>2, <1>4
<1>7. \A x \in Slots : P[x] = IF x = dest THEN src ELSE IF x = n THEN dest ELSE c.prev[x]
  BY <1>1, <1>2, <1>4 DEF setPrev, Links
<1>8. \A x \in Slots : K[x] = IF x = dest THEN cap ELSE c.cap[x]
  BY <1>2
<1>9. d = [c EXCEPT !.cap = K, !.next = N, !.prev = P, !.revocable = R, !.firstBadged = F]
  BY <1>1 DEF linkAfter, Databases
<1>10. R \subseteq Slots /\ F \subseteq Slots /\ \A x \in F : x = dest \/ x \in used(c)
  BY <1>2, <1>3
<1> HIDE DEF N, P, K, R, F, d
<1>11. /\ d \in Databases /\ d.cap = K /\ d.next = N /\ d.prev = P /\ d.asserts = c.asserts
       /\ d.revocable = R /\ d.firstBadged = F
  BY <1>1, <1>2, <1>5, <1>9, <1>10 DEF Databases
<1>12. used(d) = used(c) \cup {dest}
  <2>1. \A x \in Slots : x \in used(d) <=> d.cap[x] # NullCap
    BY <1>11, DatabaseFields
  <2>2. cap # NullCap
    BY NullType DEF Caps
  <2>3. \A x \in Slots : x \in used(d) <=> x \in used(c) \cup {dest}
    BY <1>2, <1>8, <1>11, <2>1, <2>2
  <2> QED BY <2>3 DEF used
<1>13. \A x \in used(d) : x \in d.firstBadged <=> IF x = dest THEN rev ELSE x \in c.firstBadged
  BY <1>3, <1>11 DEF F
<1> QED BY <1>6, <1>7, <1>8, <1>10, <1>11, <1>12, <1>13 DEF Inserted, R, d

\* A cap made from k: what is made from untyped memory, and a cap that is given a badge, can be
\* revoked by itself; other copies have the badge of k and cannot.
Derived(k, cap, rev) ==
  /\ k.type = "untyped" => rev
  /\ k.type # "untyped" /\ rev => cap.type = "endpoint" /\ k.badge = 0 /\ cap.badge # 0
  /\ k.type # "untyped" /\ ~rev /\ cap.type = "endpoint" => cap.badge = k.badge

\* cap can be put behind src.
Fits(c, rank, cap, src, rev) ==
  /\ Kin(c.cap[src], cap)
  /\ \A u \in used(c) : rank[u] <= rank[src] /\ Kin(c.cap[u], cap) => u = src \/ Kin(c.cap[u], c.cap[src])
  /\ \A s \in used(c) : rank[src] < rank[s] /\ Kin(cap, c.cap[s]) => Kin(cap, c.cap[src])
  /\ \A u \in used(c) : c.cap[u].type = "untyped" /\ inside(c.cap[u], cap) =>
       rank[u] <= rank[src] /\ end(cap) <= c.cap[u].ptr + c.cap[u].free
  /\ \A s \in used(c) : cap.type = "untyped" /\ inside(cap, c.cap[s]) =>
       rank[s] <= rank[src] /\ c.cap[s].type = "untyped" /\ inside(c.cap[s], cap)
  /\ \A s \in used(c) : meets(cap, c.cap[s]) => Kin(cap, c.cap[s]) \/ Kin(c.cap[s], cap)
  /\ \A p \in used(c) :
       p \in c.revocable /\ Kin(c.cap[p], cap) /\ c.cap[p].type = "endpoint" /\ c.cap[p].badge = 0 =>
         rank[p] <= rank[src]
  /\ rev /\ cap.type = "endpoint" /\ cap.badge = 0 => \A s \in used(c) : ~Kin(cap, c.cap[s])
  /\ Proper(cap) /\ (cap.type = "untyped" => rev)
  /\ Derived(c.cap[src], cap, rev)

\* The ranks after an insertion.
behind(rank, src, dest) == [x \in Slots |-> IF x = dest THEN 2 * rank[src] + 1 ELSE 2 * rank[x]]

\* Putting a cap behind one where it fits keeps the structure.
LEMMA InsertedStructure ==
  ASSUME NEW c, NEW rank, Structure(c, rank), NEW src \in used(c), NEW dest \in Slots, dest \notin used(c),
         NEW cap \in RealCaps, NEW rev \in BOOLEAN, Fits(c, rank, cap, src, rev),
         NEW d, Inserted(c, cap, src, dest, rev, d)
  PROVE  Structure(d, behind(rank, src, dest))
<1> DEFINE new == behind(rank, src, dest)
<1>1. c \in Databases /\ d \in Databases /\ Null \notin Slots /\ src \in Slots /\ src # dest
  BY MemoryMap DEF Structure, Inserted, used
<1>2. /\ \A x \in Slots : c.next[x] # x /\ c.prev[x] # x
      /\ \A x, t \in Slots : (c.next[x] = t <=> c.prev[t] = x)
  BY NoLoops
<1>3. /\ used(d) = used(c) \cup {dest} /\ \A x \in used(c) : x \in Slots /\ x # dest /\ x \in used(d) /\ d.cap[x] = c.cap[x]
      /\ d.cap[dest] = cap /\ \A x \in used(d) : x \in Slots
      /\ \A x \in Slots : c.next[x] \in Links /\ c.prev[x] \in Links
      /\ \A x \in used(c) : c.cap[x] \in RealCaps
  BY <1>1, DatabaseFields DEF Inserted, used
<1>4. /\ \A x \in Slots : d.next[x] = IF x = src THEN dest ELSE IF x = dest THEN c.next[src] ELSE c.next[x]
      /\ \A x \in Slots : d.prev[x] = IF x = dest THEN src ELSE IF x = c.next[src] THEN dest ELSE c.prev[x]
  BY DEF Inserted
<1>5. \A x \in Slots : /\ x \notin used(c) => c.next[x] = Null /\ c.prev[x] = Null /\ x \notin c.revocable
                       /\ c.next[x] # Null => c.next[x] \in used(c) /\ c.prev[c.next[x]] = x
                       /\ c.prev[x] # Null => c.prev[x] \in used(c) /\ c.next[c.prev[x]] = x
  BY DEF Structure, Linked
<1>6. Linked(d)
  <2> SUFFICES ASSUME NEW x \in Slots
               PROVE  /\ x \notin used(d) => d.next[x] = Null /\ d.prev[x] = Null
                                             /\ x \notin d.revocable /\ x \notin d.firstBadged
                      /\ d.next[x] # Null => d.next[x] \in used(d) /\ d.prev[d.next[x]] = x
                      /\ d.prev[x] # Null => d.prev[x] \in used(d) /\ d.next[d.prev[x]] = x
    BY DEF Linked
  <2>1. ASSUME x \notin used(d)
        PROVE  d.next[x] = Null /\ d.prev[x] = Null /\ x \notin d.revocable /\ x \notin d.firstBadged
    <3>1. x \notin used(c) /\ x # dest /\ x # src
      BY <1>3, <2>1
    <3>2. x # c.next[src]
      BY <1>1, <1>5, <3>1
    <3>3. x \notin d.revocable
      BY <1>5, <3>1 DEF Inserted
    <3>4. x \notin d.firstBadged
      BY <2>1 DEF Inserted
    <3> QED BY <1>4, <1>5, <3>1, <3>2, <3>3, <3>4
  <2>2. ASSUME d.next[x] # Null PROVE d.next[x] \in used(d) /\ d.prev[d.next[x]] = x
    <3>1. CASE x = src
      BY <1>1, <1>3, <1>4, <3>1
    <3>2. CASE x = dest
      <4>1. d.next[x] = c.next[src] /\ c.next[src] \in used(c)
        BY <1>1, <1>4, <1>5, <2>2, <3>2
      <4> QED BY <1>3, <1>4, <3>2, <4>1
    <3>3. CASE x # src /\ x # dest
      <4>1. d.next[x] = c.next[x] /\ c.next[x] \in used(c) /\ c.prev[c.next[x]] = x
        BY <1>4, <1>5, <2>2, <3>3
      <4>2. c.next[x] # c.next[src]
        BY <1>1, <1>3, <1>5, <3>3, <4>1
      <4> QED BY <1>3, <1>4, <3>3, <4>1, <4>2
    <3> QED BY <3>1, <3>2, <3>3
  <2>3. ASSUME d.prev[x] # Null PROVE d.prev[x] \in used(d) /\ d.next[d.prev[x]] = x
    <3>1. CASE x = dest
      BY <1>1, <1>3, <1>4, <3>1
    <3>2. CASE x # dest /\ x = c.next[src]
      BY <1>1, <1>3, <1>4, <3>2
    <3>3. CASE x # dest /\ x # c.next[src]
      <4>1. d.prev[x] = c.prev[x] /\ c.prev[x] \in used(c) /\ c.next[c.prev[x]] = x
        BY <1>4, <1>5, <2>3, <3>3
      <4>2. c.prev[x] # src
        BY <3>3, <4>1
      <4> QED BY <1>3, <1>4, <3>3, <4>1, <4>2
    <3> QED BY <3>1, <3>2, <3>3
  <2> QED BY <2>1, <2>2, <2>3
<1>7. /\ rank \in [Slots -> Nat]
      /\ \A x, t \in used(c) : rank[x] = rank[t] => x = t
      /\ \A x \in used(c) : rank[x] \in Nat
      /\ \A x \in used(c) : c.next[x] # Null =>
           /\ rank[x] < rank[c.next[x]]
           /\ \A t \in used(c) : ~(rank[x] < rank[t] /\ rank[t] < rank[c.next[x]])
  BY <1>3 DEF Structure, Ordered
<1>8. /\ new \in [Slots -> Nat]
      /\ new[dest] = 2 * rank[src] + 1
      /\ \A x \in used(c) : new[x] = 2 * rank[x]
  <2>1. \A x \in Slots : rank[x] \in Nat
    BY <1>7
  <2> QED BY <1>1, <1>3, <2>1 DEF behind
<1> HIDE DEF new
<1>9. /\ \A x, t \in used(c) : (new[x] < new[t] <=> rank[x] < rank[t]) /\ (new[x] <= new[t] <=> rank[x] <= rank[t])
      /\ \A x \in used(c) : /\ new[x] <= new[dest] <=> rank[x] <= rank[src]
                            /\ new[x] < new[dest] <=> rank[x] <= rank[src]
                            /\ new[dest] <= new[x] <=> rank[src] < rank[x]
                            /\ new[dest] < new[x] <=> rank[src] < rank[x]
                            /\ new[dest] # new[x]
  BY <1>7, <1>8
<1>10. Ordered(d, new)
  <2>1. \A x, t \in used(d) : new[x] = new[t] => x = t
    BY <1>3, <1>7, <1>8, <1>9
  <2>2. ASSUME NEW x \in used(d), d.next[x] # Null
        PROVE  /\ new[x] < new[d.next[x]]
               /\ \A t \in used(d) : ~(new[x] < new[t] /\ new[t] < new[d.next[x]])
    <3>1. CASE x = src
      <4>1. d.next[x] = dest
        BY <1>1, <1>4, <3>1
      <4>2. \A t \in used(c) : ~(rank[src] < rank[t] /\ rank[t] <= rank[src])
        BY <1>7
      <4> QED BY <1>3, <1>7, <1>8, <1>9, <3>1, <4>1, <4>2
    <3>2. CASE x = dest
      <4>1. d.next[x] = c.next[src] /\ c.next[src] \in used(c)
        BY <1>1, <1>4, <1>5, <2>2, <3>2
      <4>2. /\ rank[src] < rank[c.next[src]]
            /\ \A t \in used(c) : ~(rank[src] < rank[t] /\ rank[t] < rank[c.next[src]])
        BY <1>1, <1>7, <2>2, <3>2, <4>1
      <4>3. new[dest] < new[c.next[src]] /\ new[dest] \in Nat
        BY <1>9, <4>1, <4>2, <1>8, <1>7
      <4>4. \A t \in used(d) : ~(new[dest] < new[t] /\ new[t] < new[c.next[src]])
        BY <1>3, <1>9, <4>1, <4>2, <4>3
      <4> QED BY <3>2, <4>1, <4>3, <4>4
    <3>3. CASE x # src /\ x # dest
      <4>1. x \in used(c) /\ d.next[x] = c.next[x] /\ c.next[x] \in used(c)
        BY <1>3, <1>4, <1>5, <2>2, <3>3
      <4>2. /\ rank[x] < rank[c.next[x]]
            /\ \A t \in used(c) : ~(rank[x] < rank[t] /\ rank[t] < rank[c.next[x]])
        BY <1>7, <2>2, <4>1
      <4>3. rank[x] # rank[src] /\ ~(rank[x] < rank[src] /\ rank[src] < rank[c.next[x]])
        BY <1>7, <3>3, <4>1, <4>2
      <4>4. ~(new[x] < new[dest] /\ new[dest] < new[c.next[x]])
        BY <1>7, <1>9, <4>1, <4>3
      <4>5. \A t \in used(c) : ~(new[x] < new[t] /\ new[t] < new[c.next[x]])
        BY <1>9, <4>1, <4>2
      <4> QED BY <1>3, <1>9, <4>1, <4>2, <4>4, <4>5
    <3> QED BY <3>1, <3>2, <3>3
  <2> QED BY <1>8, <2>1, <2>2 DEF Ordered
<1>11. /\ Kin(c.cap[src], cap)
       /\ \A u \in used(c) : rank[u] <= rank[src] /\ Kin(c.cap[u], cap) => u = src \/ Kin(c.cap[u], c.cap[src])
       /\ \A s \in used(c) : rank[src] < rank[s] /\ Kin(cap, c.cap[s]) => Kin(cap, c.cap[src])
  BY DEF Fits
<1>12. \A u, s, x \in used(c) : rank[u] < rank[s] /\ Kin(c.cap[u], c.cap[s]) =>
         /\ rank[u] <= rank[x] /\ rank[x] < rank[s] => c.next[x] # Null
         /\ rank[u] < rank[x] /\ rank[x] <= rank[s] => c.prev[x] # Null /\ Kin(c.cap[u], c.cap[x])
  BY DEF Structure, Chained
<1>13. /\ \A x \in used(c) : c.next[x] # Null => d.next[x] # Null
       /\ \A x \in used(c) : c.prev[x] # Null => d.prev[x] # Null
       /\ d.prev[dest] # Null /\ d.next[src] # Null
       /\ d.next[dest] = c.next[src]
  BY <1>1, <1>3, <1>4
<1>14. Chained(d, new)
  <2> SUFFICES ASSUME NEW u \in used(d), NEW t \in used(d), NEW x \in used(d), new[u] < new[t],
                      Kin(d.cap[u], d.cap[t])
               PROVE  /\ new[u] <= new[x] /\ new[x] < new[t] => d.next[x] # Null
                      /\ new[u] < new[x] /\ new[x] <= new[t] => d.prev[x] # Null /\ Kin(d.cap[u], d.cap[x])
    BY DEF Chained
  <2>1. CASE u \in used(c) /\ t \in used(c)
    <3>1. /\ rank[u] < rank[t] /\ Kin(c.cap[u], c.cap[t]) /\ d.cap[u] = c.cap[u]
      BY <1>3, <1>9, <2>1
    <3>2. CASE x \in used(c)
      BY <1>3, <1>9, <1>12, <1>13, <2>1, <3>1, <3>2
    <3>3. CASE x = dest
      <4> SUFFICES ASSUME rank[u] <= rank[src], rank[src] < rank[t]
                   PROVE  d.next[x] # Null /\ d.prev[x] # Null /\ Kin(c.cap[u], cap)
        BY <1>3, <1>8, <1>9, <2>1, <3>1, <3>3
      <4>1. c.next[src] # Null
        BY <1>12, <2>1, <3>1
      <4>2. u = src \/ Kin(c.cap[u], c.cap[src])
        <5>1. u = src \/ rank[u] < rank[src]
          BY <1>7, <2>1
        <5> QED BY <1>7, <1>12, <2>1, <3>1, <5>1
      <4>3. Kin(c.cap[u], cap)
        BY <1>3, <1>11, <2>1, <4>2, KinTrans
      <4> QED BY <1>13, <3>3, <4>1, <4>3
    <3> QED BY <1>3, <3>2, <3>3
  <2>2. CASE u = dest
    <3>1. t \in used(c) /\ rank[src] < rank[t] /\ Kin(cap, c.cap[t]) /\ d.cap[u] = cap
      BY <1>3, <1>7, <1>8, <1>9, <2>2
    <3>2. Kin(cap, c.cap[src])
      BY <1>11, <3>1
    <3>3. Kin(c.cap[src], c.cap[t])
      BY <1>3, <1>11, <3>1, KinTrans
    <3>4. CASE x = dest
      <4>1. c.next[src] # Null
        BY <1>7, <1>12, <3>1, <3>3
      <4> QED BY <1>7, <1>8, <1>13, <2>2, <3>4, <4>1
    <3>5. CASE x \in used(c)
      <4> SUFFICES ASSUME rank[src] < rank[x]
                   PROVE  /\ rank[x] < rank[t] => d.next[x] # Null
                          /\ rank[x] <= rank[t] => d.prev[x] # Null /\ Kin(cap, c.cap[x])
        BY <1>3, <1>9, <2>2, <3>1, <3>5
      <4>1. rank[x] < rank[t] => c.next[x] # Null
        BY <1>7, <1>12, <3>1, <3>3, <3>5
      <4>2. rank[x] <= rank[t] => c.prev[x] # Null /\ Kin(c.cap[src], c.cap[x])
        BY <1>7, <1>12, <3>1, <3>3, <3>5
      <4>3. rank[x] <= rank[t] => Kin(cap, c.cap[x])
        BY <1>3, <3>2, <3>5, <4>2, KinTrans
      <4> QED BY <1>13, <3>5, <4>1, <4>2, <4>3
    <3> QED BY <1>3, <3>4, <3>5
  <2>3. CASE t = dest /\ u \in used(c)
    <3>1. rank[u] <= rank[src] /\ Kin(c.cap[u], cap) /\ d.cap[u] = c.cap[u]
      BY <1>3, <1>9, <2>3
    <3>2. u = src \/ Kin(c.cap[u], c.cap[src])
      BY <1>11, <2>3, <3>1
    <3>3. CASE x = dest
      BY <1>3, <1>8, <1>7, <1>13, <2>3, <3>1, <3>3
    <3>4. CASE x \in used(c)
      <4> SUFFICES ASSUME rank[x] <= rank[src]
                   PROVE  /\ rank[u] <= rank[x] => d.next[x] # Null
                          /\ rank[u] < rank[x] => d.prev[x] # Null /\ Kin(c.cap[u], c.cap[x])
        BY <1>3, <1>9, <2>3, <3>1, <3>4
      <4>1. ASSUME rank[u] <= rank[x] PROVE d.next[x] # Null
        <5>1. CASE x = src
          BY <1>13, <5>1
        <5>2. CASE x # src
          <6>1. rank[x] < rank[src] /\ rank[u] < rank[src] /\ u # src
            BY <1>7, <2>3, <3>4, <4>1, <5>2
          <6> QED BY <1>12, <1>13, <2>3, <3>2, <3>4, <4>1, <6>1
        <5> QED BY <5>1, <5>2
      <4>2. ASSUME rank[u] < rank[x] PROVE d.prev[x] # Null /\ Kin(c.cap[u], c.cap[x])
        <5>1. rank[u] < rank[src] /\ u # src
          BY <1>7, <2>3, <3>4, <4>2
        <5> QED BY <1>12, <1>13, <2>3, <3>2, <3>4, <4>2, <5>1
      <4> QED BY <4>1, <4>2
    <3> QED BY <1>3, <3>3, <3>4
  <2>4. t = dest => u # dest
    BY <1>7, <1>8
  <2> QED BY <1>3, <2>1, <2>2, <2>3, <2>4
<1>15. Covered(d, new)
  <2> SUFFICES ASSUME NEW u \in used(d), NEW s \in used(d), u # s, d.cap[u].type = "untyped",
                      inside(d.cap[u], d.cap[s])
               PROVE  \/ new[u] < new[s] /\ end(d.cap[s]) <= d.cap[u].ptr + d.cap[u].free
                      \/ new[s] < new[u] /\ d.cap[s].type = "untyped" /\ inside(d.cap[s], d.cap[u])
    BY DEF Covered
  <2>1. CASE u \in used(c) /\ s \in used(c)
    BY <1>3, <1>9, <2>1 DEF Structure, Covered
  <2>2. CASE u = dest
    <3>1. s \in used(c)
      BY <1>3, <2>2
    <3>2. rank[s] <= rank[src] /\ c.cap[s].type = "untyped" /\ inside(c.cap[s], cap)
      BY <1>3, <2>2, <3>1 DEF Fits
    <3> QED BY <1>3, <1>9, <2>2, <3>1, <3>2
  <2>3. CASE s = dest
    <3>1. u \in used(c)
      BY <1>3, <2>3
    <3>2. rank[u] <= rank[src] /\ end(cap) <= c.cap[u].ptr + c.cap[u].free
      BY <1>3, <2>3, <3>1 DEF Fits
    <3> QED BY <1>3, <1>9, <2>3, <3>1, <3>2
  <2> QED BY <1>3, <2>1, <2>2, <2>3
<1>16. Nested(d)
  <2> SUFFICES ASSUME NEW s \in used(d), NEW t \in used(d), s # t, meets(d.cap[s], d.cap[t])
               PROVE  Kin(d.cap[s], d.cap[t]) \/ Kin(d.cap[t], d.cap[s])
    BY DEF Nested
  <2>1. CASE s \in used(c) /\ t \in used(c)
    BY <1>3, <2>1 DEF Structure, Nested
  <2>2. CASE s = dest
    BY <1>3, <2>2 DEF Fits
  <2>3. CASE t = dest
    <3>1. s \in used(c) /\ meets(cap, c.cap[s])
      BY <1>3, <2>3 DEF meets
    <3> QED BY <1>3, <2>3, <3>1 DEF Fits
  <2> QED BY <1>3, <2>1, <2>2, <2>3
<1>17. OriginalFirst(d, new)
  <2> SUFFICES ASSUME NEW p \in used(d), NEW s \in used(d), p # s, p \in d.revocable, Kin(d.cap[p], d.cap[s]),
                      d.cap[p].type = "endpoint", d.cap[p].badge = 0
               PROVE  new[p] < new[s]
    BY DEF OriginalFirst
  <2>1. p = dest \/ p \in c.revocable
    BY DEF Inserted
  <2>2. CASE p \in used(c) /\ s \in used(c)
    <3>1. p \in c.revocable
      BY <1>3, <2>1, <2>2
    <3> QED BY <1>3, <1>9, <2>2, <3>1 DEF Structure, OriginalFirst
  <2>3. CASE p = dest
    <3>1. dest \notin c.revocable
      BY <1>5
    <3>2. rev
      BY <2>3, <3>1 DEF Inserted
    <3> QED BY <1>3, <2>3, <3>2 DEF Fits
  <2>4. CASE s = dest
    <3>1. p \in used(c) /\ p \in c.revocable
      BY <1>3, <2>1, <2>4
    <3> QED BY <1>3, <1>9, <2>4, <3>1 DEF Fits
  <2> QED BY <1>3, <2>2, <2>3, <2>4
<1>18. Sized(d)
  <2> SUFFICES ASSUME NEW s \in used(d)
               PROVE  Proper(d.cap[s]) /\ (d.cap[s].type = "untyped" => s \in d.revocable)
    BY DEF Sized
  <2>1. CASE s \in used(c)
    <3>1. Proper(c.cap[s]) /\ (c.cap[s].type = "untyped" => s \in c.revocable)
      BY <2>1 DEF Structure, Sized
    <3>2. c.revocable \subseteq d.revocable
      BY DEF Inserted
    <3> QED BY <1>3, <2>1, <3>1, <3>2
  <2>2. CASE s = dest
    <3>1. Proper(cap) /\ (cap.type = "untyped" => rev)
      BY DEF Fits
    <3>2. rev => dest \in d.revocable
      BY DEF Inserted
    <3> QED BY <1>3, <2>2, <3>1, <3>2
  <2> QED BY <1>3, <2>1, <2>2
<1>19. BadgesRun(d)
  <2> SUFFICES ASSUME NEW x \in used(d), d.cap[x].type = "endpoint", d.cap[x].badge # 0, x \notin d.firstBadged
               PROVE  /\ d.prev[x] # Null
                      /\ d.cap[d.prev[x]].type = "endpoint" /\ d.cap[d.prev[x]].badge = d.cap[x].badge
    BY DEF BadgesRun
  <2>1. Derived(c.cap[src], cap, rev)
    BY DEF Fits
  <2>2. /\ d.cap[src] = c.cap[src] /\ d.cap[dest] = cap
        /\ c.cap[src].type = "untyped" \/ c.cap[src].type = cap.type
    BY <1>3, <1>11 DEF Kin
  <2>3. CASE x = dest
    <3>1. d.prev[x] = src /\ ~rev
      BY <1>4, <2>3 DEF Inserted
    <3> QED BY <1>1, <2>1, <2>2, <2>3, <3>1 DEF Derived
  <2>4. CASE x # dest
    <3>1. x \in used(c) /\ x \in Slots /\ d.cap[x] = c.cap[x] /\ x \notin c.firstBadged
      BY <1>3, <2>4 DEF Inserted
    <3>2. /\ c.prev[x] # Null /\ c.cap[c.prev[x]].type = "endpoint" /\ c.cap[c.prev[x]].badge = c.cap[x].badge
          /\ c.prev[x] \in used(c)
      BY <1>5, <3>1 DEF Structure, BadgesRun
    <3>3. CASE x = c.next[src]
      <4>1. d.prev[x] = dest /\ c.prev[x] = src
        BY <1>1, <1>2, <1>4, <2>4, <3>1, <3>3
      <4>2. ~rev /\ cap.type = "endpoint" /\ cap.badge = c.cap[src].badge
        BY <2>1, <2>2, <3>1, <3>2, <4>1 DEF Derived
      <4> QED BY <1>1, <2>2, <3>1, <3>2, <4>1, <4>2
    <3>4. CASE x # c.next[src]
      <4>1. d.prev[x] = c.prev[x]
        BY <1>4, <2>4, <3>1, <3>4
      <4> QED BY <1>3, <3>1, <3>2, <4>1
    <3> QED BY <3>3, <3>4
  <2> QED BY <2>3, <2>4
<1>20. Structure(d, new)
  BY <1>1, <1>6, <1>10, <1>14, <1>15, <1>16, <1>17, <1>18, <1>19 DEF Structure
<1> QED BY <1>20 DEF new

-----------------------------------------------------------------------------
(* A cap that changes in its slot *)

\* d is c with cap in slot s.
Replaced(c, s, cap, d) ==
  /\ d.cap = [c.cap EXCEPT ![s] = cap]
  /\ d.next = c.next /\ d.prev = c.prev /\ d.revocable = c.revocable /\ d.firstBadged = c.firstBadged
  /\ d \in Databases

\* cap can stand for the cap in slot s: an untyped with another free index, or what is left
\* of an object that no other cap names.
Stands(c, rank, s, cap) ==
  /\ cap \in RealCaps /\ Proper(cap)
  /\ cap.ptr = c.cap[s].ptr /\ cap.bits = c.cap[s].bits
  /\ \/ /\ cap.type = "untyped" /\ c.cap[s].type = "untyped"
        /\ \A x \in used(c) : rank[s] < rank[x] /\ inside(cap, c.cap[x]) => end(c.cap[x]) <= cap.ptr + cap.free
     \/ /\ cap.type = "zombie" /\ c.cap[s].type \notin {"untyped", "endpoint"}
        /\ \A x \in used(c) \ {s} : ~Kin(c.cap[s], c.cap[x])

\* Replacing a cap by one that stands for it keeps the structure.
LEMMA ReplacedStructure ==
  ASSUME NEW c, NEW rank, Structure(c, rank), NEW s \in used(c), NEW cap, Stands(c, rank, s, cap),
         NEW d, Replaced(c, s, cap, d)
  PROVE  /\ Structure(d, rank) /\ used(d) = used(c)
         /\ \A x, y \in used(c) : x # y => (Kin(d.cap[x], d.cap[y]) <=> Kin(c.cap[x], c.cap[y]))
<1>1. c \in Databases /\ d \in Databases /\ s \in Slots
  BY DEF Structure, Replaced, used
<1>2. /\ \A x \in Slots : d.cap[x] = IF x = s THEN cap ELSE c.cap[x]
      /\ d.next = c.next /\ d.prev = c.prev /\ d.revocable = c.revocable /\ d.firstBadged = c.firstBadged
  BY <1>1, DatabaseFields DEF Replaced
<1>3. /\ \A x \in Slots : x \in used(d) <=> d.cap[x] # NullCap
      /\ \A x \in Slots : x \in used(c) <=> c.cap[x] # NullCap
      /\ \A x \in used(c) : x \in Slots /\ c.cap[x] \in RealCaps
      /\ cap \in RealCaps /\ c.cap[s] \in RealCaps
  BY <1>1, DatabaseFields DEF Stands
<1>4. cap # NullCap
  BY <1>3, NullType DEF Caps
<1>5. used(d) = used(c)
  <2>1. \A x \in Slots : x \in used(d) <=> x \in used(c)
    BY <1>2, <1>3, <1>4
  <2> QED BY <2>1 DEF used
<1>6. /\ cap.ptr = c.cap[s].ptr /\ cap.bits = c.cap[s].bits /\ end(cap) = end(c.cap[s])
      /\ (cap.type = "untyped" <=> c.cap[s].type = "untyped")
      /\ cap.type # "untyped" => cap.type = "zombie" /\ \A x \in used(c) \ {s} : ~Kin(c.cap[s], c.cap[x])
  BY DEF Stands, end
<1>7. \A x \in used(c) : /\ d.cap[x].ptr = c.cap[x].ptr /\ end(d.cap[x]) = end(c.cap[x])
                         /\ (d.cap[x].type = "untyped" <=> c.cap[x].type = "untyped")
                         /\ (x # s => d.cap[x] = c.cap[x])
  BY <1>2, <1>3, <1>6
<1>8. ASSUME NEW x \in used(c), NEW y \in used(c), x # y
      PROVE  Kin(d.cap[x], d.cap[y]) <=> Kin(c.cap[x], c.cap[y])
  <2>0. d.cap[s] = cap /\ (x # s => d.cap[x] = c.cap[x]) /\ (y # s => d.cap[y] = c.cap[y])
    BY <1>1, <1>2, <1>3
  <2>1. CASE x # s /\ y # s
    BY <2>0, <2>1
  <2>2. CASE x = s
    <3>1. CASE cap.type = "untyped"
      BY <1>6, <1>8, <2>0, <2>2, <3>1 DEF Kin, Objects, inside
    <3>2. CASE cap.type # "untyped"
      BY <1>6, <1>8, <2>0, <2>2, <3>2 DEF Kin, Objects
    <3> QED BY <3>1, <3>2
  <2>3. CASE y = s
    <3>1. CASE c.cap[x].type = "untyped"
      BY <1>6, <1>8, <2>0, <2>3, <3>1 DEF Kin, Objects, inside
    <3>2. CASE c.cap[x].type # "untyped"
      <4>1. ~Kin(d.cap[x], cap)
        BY <1>6, <1>8, <2>0, <2>3, <3>2, <1>3 DEF Kin, Objects, Stands
      <4>2. ASSUME Kin(c.cap[x], c.cap[s]) PROVE FALSE
        <5>1. Kin(c.cap[s], c.cap[x]) /\ c.cap[s].type = c.cap[x].type
          BY <1>3, <3>2, <4>2, KinSym
        <5> QED BY <1>6, <1>8, <2>3, <3>2, <5>1
      <4> QED BY <2>0, <2>3, <4>1, <4>2
    <3> QED BY <3>1, <3>2
  <2> QED BY <2>1, <2>2, <2>3
<1>9. Linked(d)
  BY <1>2, <1>5 DEF Structure, Linked
<1>10. Ordered(d, rank)
  BY <1>2, <1>5 DEF Structure, Ordered
<1>11. \A x \in used(c) : rank[x] \in Nat
  BY <1>3 DEF Structure, Ordered
<1>12. Chained(d, rank)
  <2> SUFFICES ASSUME NEW u \in used(c), NEW t \in used(c), NEW x \in used(c), rank[u] < rank[t],
                      Kin(d.cap[u], d.cap[t])
               PROVE  /\ rank[u] <= rank[x] /\ rank[x] < rank[t] => c.next[x] # Null
                      /\ rank[u] < rank[x] /\ rank[x] <= rank[t] => c.prev[x] # Null /\ Kin(d.cap[u], d.cap[x])
    BY <1>2, <1>5 DEF Chained
  <2>1. u # t /\ (rank[u] < rank[x] => u # x)
    BY <1>11
  <2>2. Kin(c.cap[u], c.cap[t])
    BY <1>8, <2>1
  <2>3. /\ rank[u] <= rank[x] /\ rank[x] < rank[t] => c.next[x] # Null
        /\ rank[u] < rank[x] /\ rank[x] <= rank[t] => c.prev[x] # Null /\ Kin(c.cap[u], c.cap[x])
    BY <2>2 DEF Structure, Chained
  <2> QED BY <1>8, <2>1, <2>3
<1>13. Covered(d, rank)
  <2> SUFFICES ASSUME NEW u \in used(c), NEW t \in used(c), u # t, d.cap[u].type = "untyped",
                      inside(d.cap[u], d.cap[t])
               PROVE  \/ rank[u] < rank[t] /\ end(d.cap[t]) <= d.cap[u].ptr + d.cap[u].free
                      \/ rank[t] < rank[u] /\ d.cap[t].type = "untyped" /\ inside(d.cap[t], d.cap[u])
    BY <1>5 DEF Covered
  <2>1. c.cap[u].type = "untyped" /\ inside(c.cap[u], c.cap[t]) /\ (inside(c.cap[t], c.cap[u]) <=> inside(d.cap[t], d.cap[u]))
    BY <1>7 DEF inside
  <2>2. \/ rank[u] < rank[t] /\ end(c.cap[t]) <= c.cap[u].ptr + c.cap[u].free
        \/ rank[t] < rank[u] /\ c.cap[t].type = "untyped" /\ inside(c.cap[t], c.cap[u])
    BY <2>1 DEF Structure, Covered
  <2>3. CASE u # s
    BY <1>7, <2>1, <2>2, <2>3
  <2>4. CASE u = s
    <3>1. d.cap[u] = cap /\ d.cap[t] = c.cap[t] /\ cap.type = "untyped"
      BY <1>2, <1>3, <2>4
    <3>2. rank[s] < rank[t] => end(c.cap[t]) <= cap.ptr + cap.free
      BY <2>4, <3>1 DEF Stands
    <3> QED BY <1>7, <2>1, <2>2, <2>4, <3>1, <3>2
  <2> QED BY <2>3, <2>4
<1>14. Nested(d)
  <2> SUFFICES ASSUME NEW x \in used(c), NEW y \in used(c), x # y, meets(d.cap[x], d.cap[y])
               PROVE  Kin(d.cap[x], d.cap[y]) \/ Kin(d.cap[y], d.cap[x])
    BY <1>5 DEF Nested
  <2>1. meets(c.cap[x], c.cap[y])
    BY <1>7 DEF meets
  <2> QED BY <1>8, <2>1 DEF Structure, Nested
<1>15. OriginalFirst(d, rank)
  <2> SUFFICES ASSUME NEW p \in used(c), NEW x \in used(c), p # x, p \in c.revocable, Kin(d.cap[p], d.cap[x]),
                      d.cap[p].type = "endpoint", d.cap[p].badge = 0
               PROVE  rank[p] < rank[x]
    BY <1>2, <1>5 DEF OriginalFirst
  <2>1. p # s /\ d.cap[p] = c.cap[p]
    BY <1>2, <1>3, <1>6
  <2> QED BY <1>8, <2>1 DEF Structure, OriginalFirst
<1>16. Sized(d)
  <2> SUFFICES ASSUME NEW x \in used(c)
               PROVE  Proper(d.cap[x]) /\ (d.cap[x].type = "untyped" => x \in c.revocable)
    BY <1>2, <1>5 DEF Sized
  <2>1. Proper(c.cap[x]) /\ (c.cap[x].type = "untyped" => x \in c.revocable)
    BY DEF Structure, Sized
  <2>2. Proper(cap)
    BY DEF Stands
  <2> QED BY <1>2, <1>3, <1>7, <2>1, <2>2
<1>17. BadgesRun(d)
  <2> SUFFICES ASSUME NEW x \in used(c), d.cap[x].type = "endpoint", d.cap[x].badge # 0, x \notin c.firstBadged
               PROVE  /\ c.prev[x] # Null
                      /\ d.cap[c.prev[x]].type = "endpoint" /\ d.cap[c.prev[x]].badge = d.cap[x].badge
    BY <1>2, <1>5 DEF BadgesRun
  <2>1. x # s /\ d.cap[x] = c.cap[x]
    BY <1>2, <1>3, <1>6
  <2>2. /\ c.prev[x] # Null /\ c.cap[c.prev[x]].type = "endpoint" /\ c.cap[c.prev[x]].badge = c.cap[x].badge
    BY <2>1 DEF Structure, BadgesRun
  <2>3. c.prev[x] \in used(c) /\ c.next[c.prev[x]] = x
    BY <1>3, <2>2 DEF Structure, Linked
  <2>4. c.prev[x] # s
    BY <2>2 DEF Stands
  <2> QED BY <1>7, <2>1, <2>2, <2>3, <2>4
<1> QED BY <1>1, <1>5, <1>8, <1>9, <1>10, <1>12, <1>13, <1>14, <1>15, <1>16, <1>17 DEF Structure

\* An untyped cap without children has no cap into its memory behind it.
LEMMA Childless ==
  ASSUME NEW c, NEW rank, Structure(c, rank), NEW u \in used(c), c.cap[u].type = "untyped", ~hasChildren(c, u),
         NEW s \in used(c), rank[u] < rank[s]
  PROVE  ~inside(c.cap[u], c.cap[s])
<1> SUFFICES ASSUME inside(c.cap[u], c.cap[s]) PROVE FALSE
  OBVIOUS
<1>1. Kin(c.cap[u], c.cap[s])
  BY DEF Kin
<1>2. /\ c \in Databases /\ rank \in [Slots -> Nat] /\ u \in Slots /\ s \in Slots
      /\ \A x \in used(c) : c.cap[x] \in RealCaps /\ x \in Slots
  BY DatabaseFields DEF Structure, Ordered, used
<1>3. c.next[u] # Null
  <2>1. rank[u] <= rank[u]
    BY <1>2
  <2> QED BY <1>1, <2>1 DEF Structure, Chained
<1> DEFINE n == c.next[u]
<1>4. n \in used(c) /\ rank[u] < rank[n] /\ ~(rank[s] < rank[n])
  BY <1>2, <1>3 DEF Structure, Linked, Ordered
<1>5. rank[n] <= rank[s]
  BY <1>2, <1>4
<1>6. Kin(c.cap[u], c.cap[n])
  BY <1>1, <1>4, <1>5 DEF Structure, Chained
<1>7. u \in c.revocable
  BY DEF Structure, Sized
<1>8. sameRegionAs(c.cap[u], c.cap[n])
  BY <1>2, <1>4, <1>6, SameRegion
<1> QED BY <1>3, <1>7, <1>8 DEF hasChildren, isMDBParentOf

-----------------------------------------------------------------------------
(* The derivation forest, by the layout of the lists *)

\* Two neighbours have nothing between them.
LEMMA Neighbours ==
  ASSUME NEW c, NEW rank, Structure(c, rank), NEW t \in used(c)
  PROVE  /\ rank[t] \in Nat
         /\ c.next[t] # Null => /\ c.next[t] \in used(c) /\ rank[c.next[t]] \in Nat /\ rank[t] < rank[c.next[t]]
                                /\ \A x \in used(c) : rank[t] < rank[x] <=> rank[c.next[t]] <= rank[x]
         /\ c.prev[t] # Null => /\ c.prev[t] \in used(c) /\ rank[c.prev[t]] \in Nat /\ rank[c.prev[t]] < rank[t]
                                /\ \A x \in used(c) : rank[x] < rank[t] <=> rank[x] <= rank[c.prev[t]]
<1>1. Linked(c) /\ Ordered(c, rank) /\ rank \in [Slots -> Nat] /\ used(c) \subseteq Slots
  BY DEF Structure, Ordered, used
<1>2. ASSUME NEW a \in used(c), c.next[a] # Null
      PROVE  /\ c.next[a] \in used(c) /\ rank[c.next[a]] \in Nat /\ rank[a] \in Nat /\ rank[a] < rank[c.next[a]]
             /\ \A x \in used(c) : /\ rank[a] < rank[x] <=> rank[c.next[a]] <= rank[x]
                                   /\ rank[x] < rank[c.next[a]] <=> rank[x] <= rank[a]
  <2>1. c.next[a] \in used(c) /\ rank[c.next[a]] \in Nat /\ rank[a] \in Nat
    BY <1>1, <1>2 DEF Linked
  <2>2. rank[a] < rank[c.next[a]] /\ \A x \in used(c) : ~(rank[a] < rank[x] /\ rank[x] < rank[c.next[a]])
    BY <1>1, <1>2 DEF Ordered
  <2>3. \A x \in used(c) : rank[x] \in Nat
    BY <1>1
  <2> QED BY <2>1, <2>2, <2>3
<1>3. rank[t] \in Nat
  BY <1>1
<1>4. ASSUME c.prev[t] # Null PROVE c.prev[t] \in used(c) /\ c.next[c.prev[t]] = t
  BY <1>1, <1>4 DEF Linked
<1>5. t # Null
  BY <1>1, MemoryMap
<1> QED BY <1>2, <1>3, <1>4, <1>5

\* Revoking p finds the cap in s: every cap from p on, as far as s, is a child of p.
Under(c, rank, p, s) ==
  /\ p \in used(c) /\ s \in used(c) /\ rank[p] < rank[s]
  /\ \A x \in used(c) : rank[p] < rank[x] /\ rank[x] <= rank[s] => isMDBParentOf(c, p, x)

\* isMDBParentOf, as numbers.
LEMMA ParentKin ==
  ASSUME NEW c, NEW rank, Structure(c, rank), NEW p \in used(c), NEW s \in used(c)
  PROVE  isMDBParentOf(c, p, s) <=>
           /\ p \in c.revocable /\ Kin(c.cap[p], c.cap[s])
           /\ c.cap[p].type = "endpoint" /\ c.cap[p].badge # 0 =>
                c.cap[p].badge = c.cap[s].badge /\ s \notin c.firstBadged
<1>1. c.cap[p] \in RealCaps /\ c.cap[s] \in RealCaps
  BY DatabaseFields DEF Structure
<1>2. sameRegionAs(c.cap[p], c.cap[s]) <=> Kin(c.cap[p], c.cap[s])
  BY <1>1, SameRegion
<1> QED BY <1>2 DEF isMDBParentOf

\* The ranks of the slots are bounded.
LEMMA Bounded ==
  ASSUME NEW rank \in [Slots -> Nat]
  PROVE  \E B \in Nat : \A s \in Slots : rank[s] <= B
<1> DEFINE N == RootCNode + RootSize
           G == {n \in Nat : \E B \in Nat : \A s \in Slots : s < n => rank[s] <= B}
<1>1. N \in Nat /\ \A s \in Slots : s \in Nat /\ s < N
  BY BootMemory DEF Slots, Memory
<1> HIDE DEF N
<1>2. 0 \in G
  <2>1. \A s \in Slots : ~(s < 0)
    BY <1>1
  <2> QED BY <2>1
<1>3. ASSUME NEW n \in 1 .. N, n - 1 \in G PROVE n \in G
  <2>1. PICK B \in Nat : \A s \in Slots : s < n - 1 => rank[s] <= B
    BY <1>3
  <2>2. CASE n - 1 \in Slots
    <3> DEFINE D == B + rank[n - 1]
    <3>1. rank[n - 1] \in Nat
      BY <2>2
    <3>2. D \in Nat /\ B <= D /\ rank[n - 1] <= D
      BY <3>1
    <3>3. ASSUME NEW s \in Slots, s < n PROVE rank[s] <= D
      <4>1. s \in Nat /\ rank[s] \in Nat
        BY <1>1
      <4>2. s = n - 1 \/ s < n - 1
        BY <3>3, <4>1
      <4> HIDE DEF D
      <4> QED BY <2>1, <3>2, <4>1, <4>2
    <3> HIDE DEF D
    <3> QED BY <3>2, <3>3
  <2>3. CASE n - 1 \notin Slots
    <3>1. ASSUME NEW s \in Slots, s < n PROVE rank[s] <= B
      <4>1. s \in Nat /\ s # n - 1
        BY <1>1, <2>3
      <4>2. s < n - 1
        BY <3>1, <4>1
      <4> QED BY <2>1, <4>2
    <3> QED BY <3>1
  <2> QED BY <2>2, <2>3
<1>4. N \in G
  <2> HIDE DEF G
  <2>1. N \in 0 .. N
    BY <1>1
  <2> QED BY <1>1, <1>2, <1>3, <2>1, UpTo
<1>5. PICK B \in Nat : \A s \in Slots : s < N => rank[s] <= B
  BY <1>4
<1> QED BY <1>1, <1>5

\* The caps that cteRevoke of p finds.
LEMMA Finds ==
  ASSUME NEW c, NEW rank, Structure(c, rank), NEW p \in Slots, NEW s
  PROVE  s \in finds(c, p) <=> Under(c, rank, p, s)
<1> DEFINE child(x) == isMDBParentOf(c, p, x)
           joined(t, x) == /\ t \in used(c) /\ rank[t] <= rank[x]
                           /\ \A y \in used(c) : rank[t] <= rank[y] /\ rank[y] <= rank[x] => child(y)
                           /\ \A y \in used(c) : rank[t] <= rank[y] /\ rank[y] < rank[x] => c.next[y] # Null
           F == [t \in Slots \cup {Null} |-> {x \in used(c) : joined(t, x)}]
           rhs(f) == [t \in Slots \cup {Null} |->
                        IF t = Null THEN {} ELSE IF child(t) THEN {t} \cup f[c.next[t]] ELSE {}]
           f == CHOOSE g : g = rhs(g)
<1>1. /\ used(c) \subseteq Slots /\ \A x \in used(c) : rank[x] \in Nat
      /\ \A x, y \in used(c) : rank[x] = rank[y] => x = y
      /\ \A t \in Slots : t \notin used(c) => c.next[t] = Null
      /\ \A t \in Slots : c.next[t] \in Slots \cup {Null}
      /\ Null \notin Slots
  BY DatabaseFields DEF Structure, Ordered, Linked, used, Links
<1>2. \A t \in Slots : t \notin used(c) => ~child(t)
  <2> SUFFICES ASSUME NEW t \in Slots, t \notin used(c) PROVE ~sameRegionAs(c.cap[p], c.cap[t])
    BY DEF isMDBParentOf
  <2>1. c.cap[p] \in Caps /\ c.cap[t] \in Caps /\ c.cap[t] = NullCap
    BY <1>1, DatabaseFields DEF Structure
  <2> QED BY <2>1, NullRegion
<1>3. f = rhs(f) => finds(c, p) = f[c.next[p]]
  BY DEF finds
<1>4. F[Null] = {}
  BY <1>1
<1> HIDE DEF child
<1>5. ASSUME NEW t \in Slots, ~child(t) PROVE F[t] = {}
  <2> SUFFICES ASSUME NEW x \in used(c), joined(t, x) PROVE FALSE
    OBVIOUS
  <2>1. t \in used(c) /\ rank[t] \in Nat /\ rank[t] <= rank[x]
    BY <1>1
  <2>2. rank[t] <= rank[t]
    BY <2>1
  <2> QED BY <1>5, <2>1, <2>2
<1>6. ASSUME NEW t \in Slots, child(t) PROVE F[t] = {t} \cup F[c.next[t]]
  <2> DEFINE n == c.next[t]
  <2>1. t \in used(c) /\ rank[t] \in Nat
    BY <1>1, <1>2, <1>6
  <2>2. F[t] = {x \in used(c) : joined(t, x)}
    OBVIOUS
  <2>3. joined(t, t)
    BY <1>1, <1>6, <2>1
  <2>4. CASE n = Null
    <3>1. ASSUME NEW x \in used(c), joined(t, x) PROVE x = t
      <4>1. rank[x] \in Nat /\ rank[t] <= rank[x] /\ ~(rank[t] < rank[x])
        BY <1>1, <2>1, <2>4, <3>1
      <4> QED BY <1>1, <2>1, <4>1
    <3> HIDE DEF joined
    <3>2. F[t] = {t}
      BY <2>1, <2>2, <2>3, <3>1
    <3> QED BY <1>4, <2>4, <3>2
  <2>5. CASE n # Null
    <3>1. /\ n \in used(c) /\ n \in Slots /\ rank[n] \in Nat /\ rank[t] < rank[n]
          /\ \A x \in used(c) : rank[t] < rank[x] <=> rank[n] <= rank[x]
      BY <1>1, <2>1, <2>5, Neighbours
    <3>2. \A y \in used(c) : rank[t] <= rank[y] <=> (y = t \/ rank[n] <= rank[y])
      BY <1>1, <2>1, <3>1
    <3>3. c.next[t] # Null
      BY <2>5
    <3> HIDE DEF n
    <3>4. ASSUME NEW x \in used(c) PROVE joined(t, x) <=> (x = t \/ joined(n, x))
      <4>1. rank[x] \in Nat /\ (rank[t] < rank[x] <=> rank[n] <= rank[x])
        BY <1>1, <3>1
      <4>2. CASE x = t
        BY <2>3, <4>2
      <4>3. CASE x # t
        BY <1>6, <2>1, <3>1, <3>2, <3>3, <4>1, <4>3
      <4> QED BY <4>2, <4>3
    <3> HIDE DEF joined
    <3>5. F[n] = {x \in used(c) : joined(n, x)}
      BY <3>1
    <3>6. F[t] = {t} \cup F[n]
      BY <2>1, <2>2, <3>4, <3>5
    <3> QED BY <3>6 DEF n
  <2> QED BY <2>4, <2>5
<1>7. F = rhs(F)
  <2>1. \A t \in Slots \cup {Null} :
          F[t] = IF t = Null THEN {} ELSE IF child(t) THEN {t} \cup F[c.next[t]] ELSE {}
    <3> HIDE DEF F
    <3> QED BY <1>4, <1>5, <1>6
  <2>2. F = [t \in Slots \cup {Null} |-> F[t]]
    OBVIOUS
  <2> HIDE DEF F
  <2> QED BY <2>1, <2>2
<1>8. f = rhs(f)
  <2> HIDE DEF rhs, F
  <2> QED BY <1>7
<1>9. finds(c, p) = f[c.next[p]]
  BY <1>3, <1>8
<1>10. \A t \in Slots \cup {Null} : \A x : x \in F[t] => x \in used(c) /\ joined(t, x)
  OBVIOUS
<1> HIDE DEF f
<1>11. /\ f[Null] = {}
       /\ \A t \in Slots : f[t] = IF child(t) THEN {t} \cup f[c.next[t]] ELSE {}
  BY <1>1, <1>8
<1>12. PICK B \in Nat : \A x \in Slots : rank[x] <= B
  <2>1. rank \in [Slots -> Nat]
    BY DEF Structure, Ordered
  <2> QED BY <2>1, Bounded
<1> HIDE DEF F, joined
\* Any solution of the recursion is this one: look at the last slot where they differ.
<1> DEFINE Bad == {n \in Nat : \E t \in used(c) : n = B - rank[t] /\ f[t] # F[t]}
<1>13. Bad = {}
  <2> SUFFICES ASSUME Bad # {} PROVE FALSE
    OBVIOUS
  <2>1. PICK m \in Bad : \A x \in Bad : m <= x
    <3>1. Bad \subseteq Nat
      OBVIOUS
    <3> HIDE DEF Bad
    <3> QED BY <3>1, Minimum
  <2>2. PICK t \in used(c) : m = B - rank[t] /\ f[t] # F[t]
    BY <2>1
  <2>3. t \in Slots /\ child(t) /\ rank[t] \in Nat
    BY <1>1, <1>5, <1>11, <2>2
  <2> DEFINE n == c.next[t]
  <2>4. f[n] # F[n]
    BY <1>6, <1>11, <2>2, <2>3
  <2>5. n # Null
    BY <1>4, <1>11, <2>4
  <2>6. n \in used(c) /\ rank[n] \in Nat /\ rank[t] < rank[n] /\ rank[n] <= B
    BY <1>1, <1>12, <2>5, Neighbours
  <2> HIDE DEF n
  <2>7. B - rank[n] \in Nat /\ ~(m <= B - rank[n])
    BY <2>2, <2>3, <2>6
  <2>8. B - rank[n] \in Bad
    BY <2>4, <2>6, <2>7
  <2> QED BY <2>1, <2>7, <2>8
<1>14. \A t \in used(c) : f[t] = F[t]
  <2>1. \A t \in used(c) : B - rank[t] \in Nat
    BY <1>1, <1>12
  <2> QED BY <1>13, <2>1
<1>15. CASE c.next[p] = Null
  <2>1. ~Under(c, rank, p, s)
    <3> SUFFICES ASSUME Under(c, rank, p, s) PROVE FALSE
      OBVIOUS
    <3>1. p \in used(c) /\ s \in used(c) /\ rank[p] < rank[s] /\ rank[p] \in Nat /\ rank[s] \in Nat
      BY <1>1 DEF Under
    <3>2. isMDBParentOf(c, p, s)
      BY <3>1 DEF Under
    <3>3. Kin(c.cap[p], c.cap[s])
      BY <3>1, <3>2, ParentKin
    <3>4. rank[p] <= rank[p]
      BY <3>1
    <3> QED BY <1>15, <3>1, <3>3, <3>4 DEF Structure, Chained
  <2> QED BY <1>9, <1>11, <1>15, <2>1
<1>16. CASE c.next[p] # Null
  <2> DEFINE n == c.next[p]
  <2>1. p \in used(c)
    BY <1>1, <1>16
  <2>2. /\ n \in used(c) /\ rank[n] \in Nat /\ rank[p] \in Nat
        /\ \A x \in used(c) : rank[p] < rank[x] <=> rank[n] <= rank[x]
    BY <1>16, <2>1, Neighbours
  <2>3. s \in finds(c, p) <=> s \in F[n]
    BY <1>9, <1>14, <2>2
  <2> HIDE DEF n
  <2>4. s \in F[n] <=> s \in used(c) /\ joined(n, s)
    <3>1. n \in Slots
      BY <1>1, <2>2
    <3>2. F[n] = {x \in used(c) : joined(n, x)}
      BY <3>1 DEF F
    <3> QED BY <3>2
  <2>5. s \in used(c) /\ joined(n, s) => Under(c, rank, p, s)
    BY <2>1, <2>2 DEF Under, joined, child
  <2>6. ASSUME Under(c, rank, p, s) PROVE s \in used(c) /\ joined(n, s)
    <3>1. /\ s \in used(c) /\ rank[p] < rank[s] /\ rank[s] \in Nat
          /\ \A x \in used(c) : rank[p] < rank[x] /\ rank[x] <= rank[s] => child(x)
      BY <1>1, <2>6 DEF Under, child
    <3>2. isMDBParentOf(c, p, s)
      BY <3>1 DEF child
    <3>3. Kin(c.cap[p], c.cap[s])
      BY <2>1, <3>1, <3>2, ParentKin
    <3>4. \A y \in used(c) : rank[p] <= rank[y] /\ rank[y] < rank[s] => c.next[y] # Null
      BY <2>1, <3>1, <3>3 DEF Structure, Chained
    <3>5. \A y \in used(c) : rank[n] <= rank[y] => rank[p] < rank[y] /\ rank[p] <= rank[y]
      BY <1>1, <2>2
    <3> QED BY <2>2, <3>1, <3>4, <3>5 DEF joined
  <2> QED BY <2>3, <2>4, <2>5, <2>6
<1> QED BY <1>15, <1>16

\* y is the parent of the cap in s: the last cap whose revocation finds it, if there is one.
Parent(c, rank, s, y) ==
  \/ y = Null /\ \A q : ~Under(c, rank, q, s)
  \/ /\ y # Null /\ Under(c, rank, y, s)
     /\ \A q : Under(c, rank, q, s) => rank[q] <= rank[y]

\* There is at most one parent.
LEMMA OneParent ==
  ASSUME NEW c, NEW rank, Structure(c, rank), NEW s, NEW y, NEW z, Parent(c, rank, s, y), Parent(c, rank, s, z)
  PROVE  y = z
<1>1. /\ \A x \in used(c) : rank[x] \in Nat
      /\ \A x, t \in used(c) : rank[x] = rank[t] => x = t
  BY DEF Structure, Ordered, used
<1>2. CASE y # Null /\ z # Null
  <2>1. y \in used(c) /\ z \in used(c) /\ rank[y] <= rank[z] /\ rank[z] <= rank[y]
    BY <1>2 DEF Parent, Under
  <2>2. rank[y] \in Nat /\ rank[z] \in Nat
    BY <1>1, <2>1
  <2>3. rank[y] = rank[z]
    BY <2>1, <2>2
  <2> QED BY <1>1, <2>1, <2>3
<1>3. CASE y = Null \/ z = Null
  BY <1>3 DEF Parent
<1> QED BY <1>2, <1>3

\* parentOf, which goes back through the list, comes to the parent.
LEMMA ParentOf ==
  ASSUME NEW c, NEW rank, Structure(c, rank), NEW s \in Slots
  PROVE  Parent(c, rank, s, parentOf(c, s))
<1> DEFINE above(q) == Under(c, rank, q, s)
           near(q, p) == /\ p \in used(c) /\ above(q) /\ rank[q] <= rank[p]
                         /\ \A x \in used(c) : rank[q] < rank[x] /\ rank[x] <= rank[p] => c.prev[x] # Null /\ ~above(x)
           H == [p \in Slots \cup {Null} |-> IF \E q : near(q, p) THEN CHOOSE q : near(q, p) ELSE Null]
           rhs(f) == [p \in Slots \cup {Null} |->
                        IF p = Null THEN Null ELSE IF s \in finds(c, p) THEN p ELSE f[c.prev[p]]]
           f == CHOOSE g : g = rhs(g)
<1>1. /\ used(c) \subseteq Slots /\ \A x \in used(c) : rank[x] \in Nat
      /\ \A x, y \in used(c) : rank[x] = rank[y] => x = y
      /\ \A t \in Slots : t \notin used(c) => c.prev[t] = Null
      /\ \A t \in Slots : c.prev[t] \in Slots \cup {Null}
      /\ Null \notin Slots
  BY DatabaseFields DEF Structure, Ordered, Linked, used, Links
<1>2. /\ \A q : above(q) => q \in used(c) /\ rank[q] \in Nat /\ rank[q] < rank[s] /\ s \in used(c)
      /\ \A p \in Slots : s \in finds(c, p) <=> above(p)
  BY <1>1, Finds DEF Under
<1>3. f = rhs(f) => parentOf(c, s) = f[c.prev[s]]
  BY DEF parentOf
<1> HIDE DEF above
<1>4. ASSUME NEW p \in used(c), above(p) PROVE \A q : near(q, p) <=> q = p
  <2>1. p \in Slots /\ rank[p] \in Nat
    BY <1>1
  <2>2. near(p, p)
    BY <1>1, <1>4, <2>1
  <2>3. ASSUME NEW q, near(q, p) PROVE q = p
    <3>1. q \in used(c) /\ rank[q] \in Nat /\ rank[q] <= rank[p] /\ rank[p] <= rank[p]
      BY <1>2, <2>1, <2>3
    <3>2. ~(rank[q] < rank[p])
      BY <1>4, <2>3, <3>1
    <3>3. rank[q] = rank[p]
      BY <2>1, <3>1, <3>2
    <3> QED BY <1>1, <3>1, <3>3
  <2> HIDE DEF near
  <2> QED BY <2>2, <2>3
<1>5. ASSUME NEW p \in used(c), ~above(p), c.prev[p] = Null PROVE \A q : ~near(q, p)
  <2> SUFFICES ASSUME NEW q, near(q, p) PROVE FALSE
    OBVIOUS
  <2>1. q \in used(c) /\ rank[q] \in Nat /\ rank[p] \in Nat /\ rank[q] <= rank[p] /\ q # p
    BY <1>1, <1>2, <1>5
  <2>2. rank[q] < rank[p] /\ rank[p] <= rank[p]
    BY <1>1, <2>1
  <2> QED BY <1>5, <2>2
<1>6. ASSUME NEW p \in used(c), ~above(p), c.prev[p] # Null PROVE \A q : near(q, p) <=> near(q, c.prev[p])
  <2> DEFINE r == c.prev[p]
  <2>1. /\ r \in used(c) /\ rank[r] \in Nat /\ rank[p] \in Nat /\ rank[r] < rank[p]
        /\ \A x \in used(c) : rank[x] < rank[p] <=> rank[x] <= rank[r]
    BY <1>1, <1>6, Neighbours
  <2>2. \A x \in used(c) : rank[x] <= rank[p] <=> (x = p \/ rank[x] <= rank[r])
    BY <1>1, <2>1
  <2>3. c.prev[p] # Null
    BY <1>6
  <2> HIDE DEF r
  <2>4. ASSUME NEW q PROVE near(q, p) <=> near(q, r)
    <3>1. near(q, p) => near(q, r)
      BY <1>2, <1>6, <2>1, <2>2
    <3>2. near(q, r) => near(q, p)
      BY <1>2, <1>6, <2>1, <2>2, <2>3
    <3> QED BY <3>1, <3>2
  <2> QED BY <2>4 DEF r
<1>7. \A q : \A p \in Slots \cup {Null} : p \notin used(c) => ~near(q, p)
  OBVIOUS
<1> HIDE DEF near
<1>8. \A p \in used(c) : H[p] = IF above(p) THEN p ELSE H[c.prev[p]]
  <2> SUFFICES ASSUME NEW p \in used(c) PROVE H[p] = IF above(p) THEN p ELSE H[c.prev[p]]
    OBVIOUS
  <2>0. p \in Slots \cup {Null} /\ c.prev[p] \in Slots \cup {Null}
    BY <1>1
  <2>1. CASE above(p)
    <3>1. (CHOOSE q : near(q, p)) = p /\ \E q : near(q, p)
      BY <1>4, <2>1
    <3> QED BY <2>0, <2>1, <3>1
  <2>2. CASE ~above(p) /\ c.prev[p] = Null
    <3>1. Null \notin used(c)
      BY <1>1
    <3> QED BY <1>5, <1>7, <2>0, <2>2, <3>1
  <2>3. CASE ~above(p) /\ c.prev[p] # Null
    <3> DEFINE r == c.prev[p]
    <3>1. \A q : near(q, p) <=> near(q, r)
      BY <1>6, <2>3
    <3>2. (CHOOSE q : near(q, p)) = (CHOOSE q : near(q, r))
      BY <3>1
    <3>3. r \in Slots \cup {Null}
      BY <2>0
    <3> HIDE DEF r
    <3>4. H[p] = H[r]
      BY <2>0, <3>1, <3>2, <3>3
    <3> QED BY <2>3, <3>4 DEF r
  <2> QED BY <2>1, <2>2, <2>3
<1>9. H[Null] = Null /\ \A p \in Slots : p \notin used(c) => H[p] = Null
  BY <1>1, <1>7
<1>10. H = rhs(H)
  <2>1. H = [p \in Slots \cup {Null} |-> H[p]]
    OBVIOUS
  <2> HIDE DEF H
  <2>2. \A p \in Slots : H[p] = IF s \in finds(c, p) THEN p ELSE H[c.prev[p]]
    BY <1>1, <1>2, <1>8, <1>9
  <2> QED BY <1>1, <1>9, <2>1, <2>2
<1>11. f = rhs(f)
  <2> HIDE DEF rhs, H
  <2> QED BY <1>10
<1>12. parentOf(c, s) = f[c.prev[s]]
  BY <1>3, <1>11
<1> HIDE DEF f, H
<1>13. f[Null] = Null /\ \A p \in used(c) : f[p] = IF above(p) THEN p ELSE f[c.prev[p]]
  BY <1>1, <1>2, <1>11
\* What f finds from p on: look at the first slot where it is wrong.
<1> DEFINE right(p) == near(f[p], p) \/ (f[p] = Null /\ \A q : ~near(q, p))
           Bad == {n \in Nat : \E p \in used(c) : n = rank[p] /\ ~right(p)}
<1>14. Bad = {}
  <2> SUFFICES ASSUME Bad # {} PROVE FALSE
    OBVIOUS
  <2>1. PICK m \in Bad : \A x \in Bad : m <= x
    <3>1. Bad \subseteq Nat
      OBVIOUS
    <3> HIDE DEF Bad
    <3> QED BY <3>1, Minimum
  <2>2. PICK p \in used(c) : m = rank[p] /\ ~right(p)
    BY <2>1
  <2>3. ~above(p)
    BY <1>4, <1>13, <2>2
  <2>4. c.prev[p] # Null
    BY <1>5, <1>13, <2>2, <2>3
  <2> DEFINE r == c.prev[p]
  <2>5. r \in used(c) /\ rank[r] \in Nat /\ rank[p] \in Nat /\ rank[r] < rank[p]
    BY <2>4, Neighbours
  <2>6. f[p] = f[r] /\ \A q : near(q, p) <=> near(q, r)
    BY <1>6, <1>13, <2>3, <2>4
  <2> HIDE DEF r
  <2>7. ~right(r) /\ ~(m <= rank[r])
    BY <2>2, <2>5, <2>6
  <2>8. rank[r] \in Bad
    BY <2>5, <2>7
  <2> QED BY <2>1, <2>7, <2>8
<1>15. \A p \in used(c) : right(p)
  BY <1>1, <1>14
<1> DEFINE p == c.prev[s]
           y == f[p]
<1>16. CASE p = Null
  <2>1. ASSUME NEW q, above(q) PROVE FALSE
    <3>1. /\ q \in used(c) /\ s \in used(c) /\ rank[q] < rank[s] /\ rank[q] \in Nat /\ rank[s] \in Nat
          /\ isMDBParentOf(c, q, s)
      <4>1. q \in used(c) /\ s \in used(c) /\ rank[q] < rank[s] /\ rank[q] \in Nat /\ rank[s] \in Nat
        BY <1>1, <1>2, <2>1
      <4> QED BY <2>1, <4>1 DEF above, Under
    <3>2. Kin(c.cap[q], c.cap[s])
      BY <3>1, ParentKin
    <3>3. rank[s] <= rank[s]
      BY <3>1
    <3> QED BY <1>16, <3>1, <3>2, <3>3 DEF Structure, Chained
  <2> QED BY <1>12, <1>13, <1>16, <2>1 DEF Parent, above
<1>17. CASE p # Null
  <2>1. s \in used(c)
    BY <1>1, <1>17
  <2>2. /\ p \in used(c) /\ rank[p] \in Nat /\ rank[s] \in Nat /\ rank[p] < rank[s]
        /\ \A x \in used(c) : rank[x] < rank[s] <=> rank[x] <= rank[p]
    BY <1>17, <2>1, Neighbours
  <2>3. right(p)
    BY <1>15, <2>2
  <2> HIDE DEF p, y
  <2>4. CASE near(y, p)
    <3>1. above(y) /\ y \in used(c) /\ y # Null /\ rank[y] \in Nat
      BY <1>1, <1>2, <2>4 DEF near
    <3>2. ASSUME NEW q, above(q) PROVE rank[q] <= rank[y]
      <4>1. q \in used(c) /\ rank[q] \in Nat /\ rank[q] <= rank[p]
        BY <1>2, <2>2, <3>2
      <4>2. ~(rank[y] < rank[q])
        BY <2>4, <3>2, <4>1 DEF near
      <4> QED BY <3>1, <4>1, <4>2
    <3>3. Parent(c, rank, s, y)
      BY <3>1, <3>2 DEF Parent, above
    <3> QED BY <1>12, <3>3 DEF y, p
  <2>5. CASE y = Null /\ \A q : ~near(q, p)
    <3> SUFFICES ASSUME NEW a, above(a) PROVE FALSE
      BY <1>12, <2>5 DEF Parent, above, y, p
    \* Of the caps above s the last one would be near.
    <3> DEFINE D == {n \in Nat : \E q \in used(c) : above(q) /\ n = rank[p] - rank[q]}
    <3>1. \A q : above(q) => q \in used(c) /\ rank[q] \in Nat /\ rank[p] - rank[q] \in Nat /\ rank[q] <= rank[p]
      <4> SUFFICES ASSUME NEW q, above(q) PROVE q \in used(c) /\ rank[q] \in Nat /\ rank[p] - rank[q] \in Nat /\ rank[q] <= rank[p]
        OBVIOUS
      <4>1. q \in used(c) /\ rank[q] \in Nat /\ rank[q] < rank[s]
        BY <1>2
      <4>2. rank[q] <= rank[p]
        BY <2>2, <4>1
      <4> QED BY <2>2, <4>1, <4>2
    <3>2. PICK m \in D : \A x \in D : m <= x
      <4>1. D \subseteq Nat
        OBVIOUS
      <4>2. rank[p] - rank[a] \in D
        BY <3>1
      <4> HIDE DEF D
      <4> QED BY <4>1, <4>2, Minimum
    <3>3. PICK q \in used(c) : above(q) /\ m = rank[p] - rank[q]
      BY <3>2
    <3>4. rank[q] \in Nat /\ rank[q] <= rank[p] /\ m \in Nat
      BY <3>1, <3>3
    <3>5. ASSUME NEW x \in used(c), rank[q] < rank[x], rank[x] <= rank[p] PROVE c.prev[x] # Null /\ ~above(x)
      <4>1. rank[x] \in Nat /\ rank[x] <= rank[s]
        BY <1>1, <2>2, <3>5
      <4>2. isMDBParentOf(c, q, s) /\ rank[q] < rank[s]
        <5>1. rank[s] <= rank[s]
          BY <2>2
        <5> QED BY <2>1, <3>3, <5>1 DEF above, Under
      <4>3. Kin(c.cap[q], c.cap[s])
        BY <2>1, <4>2, ParentKin
      <4>4. c.prev[x] # Null
        BY <2>1, <3>5, <4>1, <4>2, <4>3 DEF Structure, Chained
      <4>5. ASSUME above(x) PROVE FALSE
        <5>1. rank[p] - rank[x] \in D
          BY <3>1, <4>5
        <5>2. m <= rank[p] - rank[x]
          BY <3>2, <5>1
        <5> QED BY <2>2, <3>3, <3>4, <3>5, <4>1, <5>2
      <4> QED BY <4>4, <4>5
    <3>6. near(q, p)
      BY <2>2, <3>3, <3>4, <3>5 DEF near
    <3> QED BY <2>5, <3>6
  <2> QED BY <2>3, <2>4, <2>5 DEF y
<1> QED BY <1>16, <1>17

\* Where parentOf comes to.
LEMMA ParentIs ==
  ASSUME NEW c, NEW rank, Structure(c, rank), NEW s \in Slots, NEW y, Parent(c, rank, s, y)
  PROVE  parentOf(c, s) = y
BY ParentOf, OneParent

\* A parent is a cap, and a slot without a cap has none.
LEMMA ParentType ==
  ASSUME NEW c, NEW rank, Structure(c, rank), NEW s \in Slots
  PROVE  /\ parentOf(c, s) \in used(c) \cup {Null} /\ parentOf(c, s) # s
         /\ s \notin used(c) => parentOf(c, s) = Null
<1>1. Parent(c, rank, s, parentOf(c, s))
  BY ParentOf
<1>2. \A q : Under(c, rank, q, s) => q \in used(c) /\ s \in used(c) /\ q # s
  <2>1. \A x \in used(c) : rank[x] \in Nat
    BY DEF Structure, Ordered, used
  <2> QED BY <2>1 DEF Under
<1>3. Null \notin Slots
  BY MemoryMap
<1> QED BY <1>1, <1>2, <1>3 DEF Parent

\* Caps that are children of the same caps have the same parents.
LEMMA SameForest ==
  ASSUME NEW c, NEW rank, Structure(c, rank), NEW d, Structure(d, rank), used(d) = used(c),
         \A p, x \in used(c) : p # x => (isMDBParentOf(d, p, x) <=> isMDBParentOf(c, p, x)),
         NEW s \in Slots
  PROVE  parentOf(d, s) = parentOf(c, s)
<1>1. \A x \in used(c) : rank[x] \in Nat
  BY DEF Structure, Ordered, used
<1>2. ASSUME NEW q PROVE Under(d, rank, q, s) <=> Under(c, rank, q, s)
  <2>1. \A x \in used(c) : q \in used(c) /\ rank[q] < rank[x] => q # x
    BY <1>1
  <2> QED BY <2>1 DEF Under
<1>3. Parent(d, rank, s, parentOf(c, s))
  <2>1. Parent(c, rank, s, parentOf(c, s))
    BY ParentOf
  <2> QED BY <1>2, <2>1 DEF Parent
<1> QED BY <1>3, ParentIs

\* When two slots change places, so do they in the forest.
LEMMA FlippedForest ==
  ASSUME NEW c, NEW rank, Structure(c, rank), NEW a \in Slots, NEW b \in Slots, NEW d, Flipped(c, a, b, d),
         NEW s \in Slots
  PROVE  parentOf(d, s) = flip(a, b, parentOf(c, flip(a, b, s)))
<1> DEFINE f(x) == flip(a, b, x)
           new == [x \in Slots |-> rank[f(x)]]
<1>1. Structure(d, new) /\ Null \notin Slots
  BY FlippedStructure, MemoryMap
<1>2. /\ \A x \in Slots : f(x) \in Slots /\ f(f(x)) = x
      /\ f(Null) = Null /\ \A x : f(f(x)) = x /\ (f(x) = Null <=> x = Null) /\ (f(x) \in Slots <=> x \in Slots)
  BY <1>1 DEF flip
<1>3. \A x \in Slots : /\ d.cap[x] = c.cap[f(x)] /\ new[x] = rank[f(x)]
                       /\ (x \in d.revocable <=> f(x) \in c.revocable)
                       /\ (x \in d.firstBadged <=> f(x) \in c.firstBadged)
  BY DEF Flipped
<1> HIDE DEF f, new
<1>4. \A x : x \in used(d) <=> f(x) \in used(c)
  BY <1>2, <1>3 DEF used
<1>5. \A x, y \in Slots : isMDBParentOf(d, x, y) <=> isMDBParentOf(c, f(x), f(y))
  BY <1>3 DEF isMDBParentOf
<1>6. \A x \in used(d) : x \in Slots
  BY DEF used
<1>7. ASSUME NEW p, NEW x PROVE Under(d, new, p, x) <=> Under(c, rank, f(p), f(x))
  <2>1. CASE p \in used(d) /\ x \in used(d)
    <3>1. f(p) \in used(c) /\ f(x) \in used(c) /\ new[p] = rank[f(p)] /\ new[x] = rank[f(x)] /\ p \in Slots /\ x \in Slots
      BY <1>3, <1>4, <1>6, <2>1
    <3>2. ASSUME Under(d, new, p, x) PROVE Under(c, rank, f(p), f(x))
      <4>1. ASSUME NEW y \in used(c), rank[f(p)] < rank[y], rank[y] <= rank[f(x)] PROVE isMDBParentOf(c, f(p), y)
        <5>1. f(f(y)) = y /\ f(y) \in used(d) /\ f(y) \in Slots /\ new[f(y)] = rank[y]
          BY <1>2, <1>3, <1>4, <1>6
        <5>2. isMDBParentOf(d, p, f(y))
          BY <3>1, <3>2, <4>1, <5>1 DEF Under
        <5> QED BY <1>5, <3>1, <5>1, <5>2
      <4> QED BY <3>1, <3>2, <4>1 DEF Under
    <3>3. ASSUME Under(c, rank, f(p), f(x)) PROVE Under(d, new, p, x)
      <4>1. ASSUME NEW y \in used(d), new[p] < new[y], new[y] <= new[x] PROVE isMDBParentOf(d, p, y)
        <5>1. f(y) \in used(c) /\ new[y] = rank[f(y)] /\ y \in Slots
          BY <1>3, <1>4, <1>6
        <5>2. isMDBParentOf(c, f(p), f(y))
          BY <3>1, <3>3, <4>1, <5>1 DEF Under
        <5> QED BY <1>5, <3>1, <5>1, <5>2
      <4> QED BY <2>1, <3>1, <3>3, <4>1 DEF Under
    <3> QED BY <3>2, <3>3
  <2>2. CASE ~(p \in used(d) /\ x \in used(d))
    BY <1>4, <2>2 DEF Under
  <2> QED BY <2>1, <2>2
<1> DEFINE y == parentOf(c, f(s))
<1>8. Parent(c, rank, f(s), y)
  BY <1>2, ParentOf
<1>9. Parent(d, new, s, f(y))
  <2> HIDE DEF y
  <2>1. CASE y = Null
    <3>1. \A q : ~Under(c, rank, q, f(s))
      BY <2>1, <1>8 DEF Parent, Under, used
    <3> QED BY <1>2, <1>7, <2>1, <3>1 DEF Parent
  <2>2. CASE y # Null
    <3>1. Under(c, rank, y, f(s)) /\ \A q : Under(c, rank, q, f(s)) => rank[q] <= rank[y]
      BY <1>8, <2>2 DEF Parent
    <3>2. f(f(y)) = y /\ f(y) # Null /\ Under(d, new, f(y), s)
      BY <1>2, <1>7, <2>2, <3>1
    <3>3. new[f(y)] = rank[y]
      BY <1>3, <1>6, <3>2 DEF Under
    <3>4. ASSUME NEW q, Under(d, new, q, s) PROVE new[q] <= new[f(y)]
      <4>1. Under(c, rank, f(q), f(s)) /\ new[q] = rank[f(q)]
        BY <1>3, <1>6, <1>7, <3>4 DEF Under
      <4> QED BY <3>1, <3>3, <4>1
    <3> QED BY <3>2, <3>4 DEF Parent
  <2> QED BY <2>1, <2>2
<1>10. parentOf(d, s) = f(y)
  BY <1>1, <1>9, ParentIs
<1> QED BY <1>10 DEF f

\* The caps above a cap are above each other.
LEMMA UnderChain ==
  ASSUME NEW c, NEW rank, Structure(c, rank), NEW p, NEW q, NEW s, Under(c, rank, q, s)
  PROVE  /\ Under(c, rank, p, s) /\ rank[p] < rank[q] => Under(c, rank, p, q)
         /\ Under(c, rank, p, q) => Under(c, rank, p, s)
<1>1. \A x \in used(c) : rank[x] \in Nat
  BY DEF Structure, Ordered, used
<1>2. ASSUME Under(c, rank, p, s), rank[p] < rank[q] PROVE Under(c, rank, p, q)
  BY <1>1, <1>2 DEF Under
<1>3. ASSUME Under(c, rank, p, q) PROVE Under(c, rank, p, s)
  <2>1. /\ p \in used(c) /\ q \in used(c) /\ s \in used(c) /\ rank[p] < rank[q] /\ rank[q] < rank[s]
        /\ rank[p] \in Nat /\ rank[q] \in Nat /\ rank[s] \in Nat
        /\ \A x \in used(c) : rank[p] < rank[x] /\ rank[x] <= rank[q] => isMDBParentOf(c, p, x)
        /\ \A x \in used(c) : rank[q] < rank[x] /\ rank[x] <= rank[s] => isMDBParentOf(c, q, x)
    BY <1>1, <1>3 DEF Under
  <2>2. isMDBParentOf(c, p, q)
    BY <2>1
  <2>3. ASSUME NEW x \in used(c), isMDBParentOf(c, q, x) PROVE isMDBParentOf(c, p, x)
    <3>1. /\ p \in c.revocable /\ Kin(c.cap[p], c.cap[q])
          /\ c.cap[p].type = "endpoint" /\ c.cap[p].badge # 0 =>
               c.cap[p].badge = c.cap[q].badge /\ q \notin c.firstBadged
      BY <2>1, <2>2, ParentKin
    <3>2. /\ Kin(c.cap[q], c.cap[x])
          /\ c.cap[q].type = "endpoint" /\ c.cap[q].badge # 0 =>
               c.cap[q].badge = c.cap[x].badge /\ x \notin c.firstBadged
      BY <2>1, <2>3, ParentKin
    <3>3. Kin(c.cap[p], c.cap[x])
      <4>1. c.cap[p] \in RealCaps /\ c.cap[q] \in RealCaps /\ c.cap[x] \in RealCaps
        BY <2>1, DatabaseFields DEF Structure
      <4> QED BY <3>1, <3>2, <4>1, KinTrans
    <3>4. c.cap[p].type = "endpoint" => c.cap[q].type = "endpoint"
      BY <3>1 DEF Kin
    <3> QED BY <2>1, <3>1, <3>2, <3>3, <3>4, ParentKin
  <2>4. ASSUME NEW x \in used(c), rank[p] < rank[x], rank[x] <= rank[s] PROVE isMDBParentOf(c, p, x)
    <3>1. rank[x] <= rank[q] \/ rank[q] < rank[x]
      BY <1>1, <2>1
    <3> QED BY <2>1, <2>3, <2>4, <3>1
  <2> QED BY <2>1, <2>4, <1>1 DEF Under
<1> QED BY <1>2, <1>3

\* Taking a cap out leaves the rest of the forest: emptySlot hands mdbFirstBadged on.
LEMMA UnlinkedUnder ==
  ASSUME NEW c, NEW rank, Structure(c, rank), NEW s \in used(c), NEW d, Unlinked(c, s, d), NEW p, NEW x
  PROVE  Under(d, rank, p, x) <=> p # s /\ x # s /\ Under(c, rank, p, x)
<1>1. /\ used(d) = used(c) \ {s} /\ \A y \in used(d) : y \in used(c) /\ y # s /\ y \in Slots /\ d.cap[y] = c.cap[y]
      /\ \A y \in used(d) : y \in d.revocable <=> y \in c.revocable
      /\ \A y \in used(d) : y \in d.firstBadged <=> y \in c.firstBadged \/ (c.prev[y] = s /\ s \in c.firstBadged)
      /\ s \in Slots
  BY DEF Unlinked, used
<1>2. /\ \A y \in used(c) : rank[y] \in Nat
      /\ \A y, z \in used(c) : rank[y] = rank[z] => y = z
  BY DEF Structure, Ordered, used
<1>3. Structure(d, rank)
  BY UnlinkedStructure
<1>4. ASSUME NEW q \in used(d), NEW y \in used(d)
      PROVE  /\ isMDBParentOf(d, q, y) => isMDBParentOf(c, q, y)
             /\ isMDBParentOf(c, q, y) /\ ~(c.prev[y] = s /\ s \in c.firstBadged) => isMDBParentOf(d, q, y)
  BY <1>1, <1>4 DEF isMDBParentOf
<1>5. ASSUME p # s, x # s, Under(c, rank, p, x) PROVE Under(d, rank, p, x)
  <2>1. p \in used(d) /\ x \in used(d) /\ rank[p] < rank[x]
    BY <1>1, <1>5 DEF Under
  <2>2. ASSUME NEW y \in used(d), rank[p] < rank[y], rank[y] <= rank[x] PROVE isMDBParentOf(d, p, y)
    <3>1. y \in used(c) /\ isMDBParentOf(c, p, y) /\ p \in used(c)
      BY <1>1, <1>5, <2>1, <2>2 DEF Under
    <3>2. CASE ~(c.prev[y] = s /\ s \in c.firstBadged)
      BY <1>4, <2>1, <3>1, <3>2
    <3>3. CASE c.prev[y] = s /\ s \in c.firstBadged
      <4>1. rank[s] < rank[y] /\ rank[p] <= rank[s]
        <5>1. c.prev[y] # Null
          BY <1>1, <3>3, MemoryMap
        <5> QED BY <2>2, <3>1, <3>3, <5>1, Neighbours
      <4>2. rank[p] < rank[s] /\ rank[s] <= rank[x]
        BY <1>2, <1>5, <2>1, <2>2, <3>1, <4>1, <1>1
      <4>3. isMDBParentOf(c, p, s)
        BY <1>5, <4>2 DEF Under
      <4>4. ~(c.cap[p].type = "endpoint" /\ c.cap[p].badge # 0)
        BY <3>3, <4>3 DEF isMDBParentOf
      <4> QED BY <1>1, <2>1, <3>1, <4>4 DEF isMDBParentOf
    <3> QED BY <3>2, <3>3
  <2> QED BY <2>1, <2>2 DEF Under
<1>6. ASSUME Under(d, rank, p, x) PROVE p # s /\ x # s /\ Under(c, rank, p, x)
  <2>1. /\ p \in used(d) /\ x \in used(d) /\ rank[p] < rank[x] /\ p \in used(c) /\ x \in used(c) /\ p # s /\ x # s
        /\ rank[p] \in Nat /\ rank[x] \in Nat /\ rank[s] \in Nat
    BY <1>1, <1>2, <1>6 DEF Under
  <2>2. \A y \in used(d) : rank[p] < rank[y] /\ rank[y] <= rank[x] => isMDBParentOf(d, p, y)
    BY <1>6 DEF Under
  <2>3. ASSUME rank[p] < rank[s], rank[s] <= rank[x] PROVE isMDBParentOf(c, p, s)
    <3>1. rank[s] < rank[x]
      BY <1>2, <2>1, <2>3
    <3>2. isMDBParentOf(c, p, x)
      BY <1>4, <2>1, <2>2
    <3>3. p \in c.revocable /\ Kin(c.cap[p], c.cap[x])
      BY <2>1, <3>2, ParentKin
    <3>4. Kin(c.cap[p], c.cap[s]) /\ c.next[s] # Null
      <4>1. rank[p] <= rank[s]
        BY <2>1, <2>3
      <4> QED BY <2>1, <2>3, <3>1, <3>3, <4>1 DEF Structure, Chained
    <3>5. ASSUME c.cap[p].type = "endpoint", c.cap[p].badge # 0
          PROVE  c.cap[p].badge = c.cap[s].badge /\ s \notin c.firstBadged
      <4> DEFINE n == c.next[s]
      <4>1. n \in used(c) /\ rank[s] < rank[n] /\ rank[n] <= rank[x] /\ rank[n] \in Nat
        BY <2>1, <3>1, <3>4, Neighbours
      <4>2. c.prev[n] = s
        BY <1>1, <3>4 DEF Structure, Linked
      <4> HIDE DEF n
      <4>3. n # s /\ n \in used(d) /\ rank[p] < rank[n]
        BY <1>1, <2>1, <2>3, <4>1
      <4>4. isMDBParentOf(d, p, n)
        BY <2>2, <4>1, <4>3
      <4>5. /\ Kin(d.cap[p], d.cap[n]) /\ d.cap[p].badge = d.cap[n].badge /\ n \notin d.firstBadged
        BY <1>1, <1>3, <2>1, <3>5, <4>3, <4>4, ParentKin
      <4>6. c.cap[n].type = "endpoint" /\ c.cap[n].badge = c.cap[p].badge /\ n \notin c.firstBadged /\ s \notin c.firstBadged
        BY <1>1, <2>1, <3>5, <4>2, <4>3, <4>5 DEF Kin
      <4>7. c.cap[s].badge = c.cap[n].badge
        BY <3>5, <4>1, <4>2, <4>6 DEF Structure, BadgesRun
      <4> QED BY <4>6, <4>7
    <3> QED BY <2>1, <3>3, <3>4, <3>5, ParentKin
  <2>4. ASSUME NEW y \in used(c), rank[p] < rank[y], rank[y] <= rank[x] PROVE isMDBParentOf(c, p, y)
    <3>1. CASE y = s
      BY <2>3, <2>4, <3>1
    <3>2. CASE y # s
      BY <1>1, <1>4, <2>1, <2>2, <2>4, <3>2
    <3> QED BY <3>1, <3>2
  <2> QED BY <2>1, <2>4 DEF Under
<1> QED BY <1>5, <1>6

\* The children of a cap that is taken out become children of its parent.
LEMMA UnlinkedForest ==
  ASSUME NEW c, NEW rank, Structure(c, rank), NEW s \in used(c), NEW d, Unlinked(c, s, d), NEW x \in Slots
  PROVE  parentOf(d, x) = IF x = s THEN Null ELSE IF parentOf(c, x) = s THEN parentOf(c, s) ELSE parentOf(c, x)
<1>1. Structure(d, rank) /\ s \in Slots /\ Null \notin Slots
  BY UnlinkedStructure, MemoryMap DEF used
<1>2. \A p, t : Under(d, rank, p, t) <=> p # s /\ t # s /\ Under(c, rank, p, t)
  BY UnlinkedUnder
<1>3. Parent(c, rank, x, parentOf(c, x)) /\ Parent(c, rank, s, parentOf(c, s))
  BY <1>1, ParentOf
<1>4. \A p, t : Under(c, rank, p, t) => p \in used(c) /\ rank[p] \in Nat /\ rank[t] \in Nat /\ rank[p] < rank[t]
  BY DEF Structure, Ordered, Under, used
<1>5. CASE x = s
  <2>1. Parent(d, rank, x, Null)
    BY <1>2, <1>5 DEF Parent
  <2> QED BY <1>1, <1>5, <2>1, ParentIs
<1>6. CASE x # s /\ parentOf(c, x) # s
  <2>1. Parent(d, rank, x, parentOf(c, x))
    BY <1>2, <1>3, <1>6 DEF Parent
  <2> QED BY <1>1, <1>6, <2>1, ParentIs
<1>7. CASE x # s /\ parentOf(c, x) = s
  <2> DEFINE y == parentOf(c, s)
  <2>1. Under(c, rank, s, x) /\ \A q : Under(c, rank, q, x) => rank[q] <= rank[s]
    BY <1>1, <1>3, <1>7 DEF Parent
  <2>2. ASSUME NEW q PROVE Under(d, rank, q, x) <=> Under(c, rank, q, s)
    <3>1. ASSUME Under(c, rank, q, s) PROVE Under(d, rank, q, x)
      <4>1. Under(c, rank, q, x)
        BY <2>1, <3>1, UnderChain
      <4>2. q # s
        BY <1>4, <3>1
      <4> QED BY <1>2, <1>7, <4>1, <4>2
    <3>2. ASSUME Under(d, rank, q, x) PROVE Under(c, rank, q, s)
      <4>1. q # s /\ Under(c, rank, q, x) /\ rank[q] <= rank[s]
        BY <1>2, <2>1, <3>2
      <4>2. rank[q] # rank[s]
        BY <1>4, <4>1 DEF Structure, Ordered
      <4>3. rank[q] < rank[s]
        BY <1>4, <2>1, <4>1, <4>2
      <4> QED BY <2>1, <4>1, <4>3, UnderChain
    <3> QED BY <3>1, <3>2
  <2> HIDE DEF y
  <2>3. Parent(d, rank, x, y)
    <3>1. Parent(c, rank, s, y)
      BY <1>3 DEF y
    <3> QED BY <2>2, <3>1 DEF Parent
  <2> QED BY <1>1, <1>7, <2>3, ParentIs DEF y
<1> QED BY <1>5, <1>6, <1>7

\* A cap that is put in comes between no cap and its parent.
LEMMA InsertedForest ==
  ASSUME NEW c, NEW rank, Structure(c, rank), NEW src \in used(c), NEW dest \in Slots, dest \notin used(c),
         NEW cap \in RealCaps, NEW rev \in BOOLEAN, Fits(c, rank, cap, src, rev),
         NEW d, Inserted(c, cap, src, dest, rev, d)
  PROVE  /\ \A x \in Slots \ {dest} : parentOf(d, x) = parentOf(c, x)
         /\ c.cap[src].type = "untyped" => parentOf(d, dest) = src
<1> DEFINE new == behind(rank, src, dest)
<1>1. Structure(d, new) /\ src \in Slots /\ src # dest
  BY InsertedStructure DEF used
<1>2. /\ used(d) = used(c) \cup {dest} /\ \A x \in used(c) : x \in Slots /\ x # dest /\ x \in used(d) /\ d.cap[x] = c.cap[x]
      /\ d.cap[dest] = cap /\ \A x \in used(c) : c.cap[x] \in RealCaps
      /\ \A x \in used(c) : /\ x \in d.revocable <=> x \in c.revocable
                            /\ x \in d.firstBadged <=> x \in c.firstBadged
      /\ dest \in d.firstBadged <=> rev
      /\ dest \notin c.revocable
      /\ dest \in d.revocable <=> rev
  <2>1. dest \notin c.revocable /\ c \in Databases
    BY DEF Structure, Linked
  <2>2. dest \in used(d)
    BY DEF Inserted
  <2> QED BY <2>1, <2>2, DatabaseFields DEF Inserted, used
<1>3. /\ \A x \in used(c) : rank[x] \in Nat
      /\ \A x, y \in used(c) : rank[x] = rank[y] => x = y
  BY DEF Structure, Ordered, used
<1>4. new[dest] = 2 * rank[src] + 1 /\ \A x \in used(c) : new[x] = 2 * rank[x]
  BY <1>2 DEF behind
<1>5. /\ \A x, t \in used(c) : (new[x] < new[t] <=> rank[x] < rank[t]) /\ (new[x] <= new[t] <=> rank[x] <= rank[t])
      /\ \A x \in used(c) : /\ new[x] < new[dest] <=> rank[x] <= rank[src]
                            /\ new[x] <= new[dest] <=> rank[x] <= rank[src]
                            /\ new[dest] <= new[x] <=> rank[src] < rank[x]
                            /\ new[dest] < new[x] <=> rank[src] < rank[x]
      /\ ~(new[dest] < new[dest])
  BY <1>3, <1>4
<1> HIDE DEF new
<1>6. /\ Kin(c.cap[src], cap) /\ Derived(c.cap[src], cap, rev)
      /\ \A s \in used(c) : rank[src] < rank[s] /\ Kin(cap, c.cap[s]) => Kin(cap, c.cap[src])
      /\ \A s \in used(c) : cap.type = "untyped" /\ inside(cap, c.cap[s]) => rank[s] <= rank[src]
      /\ rev /\ cap.type = "endpoint" /\ cap.badge = 0 => \A s \in used(c) : ~Kin(cap, c.cap[s])
  BY DEF Fits
<1>7. \A p, x \in used(c) : isMDBParentOf(d, p, x) <=> isMDBParentOf(c, p, x)
  BY <1>2 DEF isMDBParentOf
<1>8. ASSUME NEW p \in used(c), p = src \/ isMDBParentOf(c, p, src), p \in c.revocable
      PROVE  isMDBParentOf(d, p, dest)
  <2>1. Kin(c.cap[p], cap)
    <3>1. p = src \/ Kin(c.cap[p], c.cap[src])
      BY <1>8, ParentKin
    <3> QED BY <1>2, <1>6, <3>1, KinTrans
  <2>2. ASSUME c.cap[p].type = "endpoint", c.cap[p].badge # 0 PROVE c.cap[p].badge = cap.badge /\ ~rev
    <3>1. c.cap[src].type = "endpoint" /\ c.cap[src].badge = c.cap[p].badge
      <4>1. CASE p = src
        BY <2>2, <4>1
      <4>2. CASE isMDBParentOf(c, p, src)
        <5>1. Kin(c.cap[p], c.cap[src]) /\ c.cap[p].badge = c.cap[src].badge
          BY <2>2, <4>2, ParentKin
        <5> QED BY <2>2, <5>1 DEF Kin
      <4> QED BY <1>8, <4>1, <4>2
    <3>2. cap.type = "endpoint"
      BY <1>6, <3>1 DEF Kin
    <3> QED BY <1>6, <2>2, <3>1, <3>2 DEF Derived
  <2>3. dest \in used(d) /\ p \in used(d) /\ d.cap[p] = c.cap[p] /\ p \in d.revocable
    BY <1>2, <1>8
  <2> QED BY <1>1, <1>2, <2>1, <2>2, <2>3, ParentKin
<1>9. ASSUME NEW p \in used(c), NEW x \in used(c) PROVE Under(d, new, p, x) <=> Under(c, rank, p, x)
  <2>1. Under(d, new, p, x) => Under(c, rank, p, x)
    BY <1>2, <1>5, <1>7, <1>9 DEF Under
  <2>2. ASSUME Under(c, rank, p, x) PROVE Under(d, new, p, x)
    <3>1. rank[p] < rank[x] /\ rank[p] \in Nat /\ rank[x] \in Nat /\ rank[src] \in Nat
      BY <1>3, <1>9, <2>2 DEF Under
    <3>2. ASSUME NEW y \in used(d), new[p] < new[y], new[y] <= new[x] PROVE isMDBParentOf(d, p, y)
      <4>1. CASE y \in used(c)
        BY <1>5, <1>7, <1>9, <2>2, <3>2, <4>1 DEF Under
      <4>2. CASE y = dest
        <5>1. rank[p] <= rank[src] /\ rank[src] < rank[x]
          BY <1>5, <1>9, <3>2, <4>2
        <5>2. p = src \/ isMDBParentOf(c, p, src)
          <6>1. p = src \/ rank[p] < rank[src]
            BY <1>3, <1>9, <3>1, <5>1
          <6>2. rank[src] <= rank[x]
            BY <3>1, <5>1
          <6> QED BY <2>2, <6>1, <6>2 DEF Under
        <5>3. p \in c.revocable
          <6>1. isMDBParentOf(c, p, x)
            BY <1>9, <2>2, <3>1 DEF Under
          <6> QED BY <6>1 DEF isMDBParentOf
        <5> QED BY <1>8, <1>9, <4>2, <5>2, <5>3
      <4> QED BY <1>2, <4>1, <4>2
    <3> QED BY <1>2, <1>5, <1>9, <3>1, <3>2 DEF Under
  <2> QED BY <2>1, <2>2
<1>10. ASSUME NEW x \in used(c), Under(d, new, dest, x) PROVE FALSE
  <2>1. rank[src] < rank[x] /\ isMDBParentOf(d, dest, x) /\ dest \in used(d) /\ x \in used(d)
    <3>1. x \in used(d) /\ new[x] <= new[x]
      BY <1>2, <1>3, <1>5
    <3> QED BY <1>2, <1>5, <1>10, <3>1 DEF Under
  <2>2. rev /\ Kin(cap, c.cap[x])
    BY <1>1, <1>2, <2>1, ParentKin
  <2>3. CASE cap.type = "untyped"
    <3>1. inside(cap, c.cap[x])
      BY <2>2, <2>3 DEF Kin, Objects
    <3> QED BY <1>3, <1>6, <2>1, <2>3, <3>1
  <2>4. CASE cap.type # "untyped"
    <3>1. Kin(cap, c.cap[src])
      BY <1>6, <2>1, <2>2
    <3>2. c.cap[src].type # "untyped" /\ cap.type = c.cap[src].type
      BY <2>4, <3>1 DEF Kin
    <3>3. cap.type = "endpoint" /\ c.cap[src].badge = 0 /\ cap.badge # 0
      BY <1>6, <2>2, <3>2 DEF Derived
    <3>4. Kin(c.cap[src], c.cap[x])
      BY <1>2, <1>6, <2>2, KinTrans
    <3>5. c.next[src] # Null
      <4>1. rank[src] <= rank[src]
        BY <1>3
      <4> QED BY <2>1, <3>4, <4>1 DEF Structure, Chained
    <3> DEFINE n == c.next[src]
    <3>6. n \in used(c) /\ rank[src] < rank[n] /\ rank[n] <= rank[x]
      BY <2>1, <3>5, Neighbours
    <3>7. c.prev[n] = src
      BY <1>1, <3>5 DEF Structure, Linked
    <3> HIDE DEF n
    <3>8. isMDBParentOf(d, dest, n)
      BY <1>2, <1>5, <1>10, <3>6 DEF Under
    <3>9. cap.badge = c.cap[n].badge /\ n \notin c.firstBadged /\ Kin(cap, c.cap[n])
      <4>1. n \in used(d) /\ d.cap[n] = c.cap[n] /\ (n \in d.firstBadged <=> n \in c.firstBadged)
        BY <1>2, <3>6
      <4> QED BY <1>1, <1>2, <2>1, <3>3, <3>8, <4>1, ParentKin
    <3>10. c.cap[n].type = "endpoint"
      BY <3>3, <3>9 DEF Kin
    <3>11. c.cap[src].badge = c.cap[n].badge
      BY <3>3, <3>6, <3>7, <3>9, <3>10 DEF Structure, BadgesRun
    <3> QED BY <3>3, <3>9, <3>11
  <2> QED BY <2>3, <2>4
<1>11. \A p, x : Under(c, rank, p, x) => p \in used(c) /\ x \in used(c)
  BY DEF Under
<1>12. \A p, x : Under(d, new, p, x) => p \in used(c) \cup {dest} /\ x \in used(c) \cup {dest}
  BY <1>2 DEF Under
<1>13. ASSUME NEW x \in Slots \ {dest} PROVE parentOf(d, x) = parentOf(c, x)
  <2>1. ASSUME NEW p PROVE Under(d, new, p, x) <=> Under(c, rank, p, x)
    BY <1>9, <1>10, <1>11, <1>12, <1>13
  <2>2. Parent(c, rank, x, parentOf(c, x))
    BY <1>13, ParentOf
  <2>3. Parent(d, new, x, parentOf(c, x))
    BY <1>5, <1>11, <2>1, <2>2 DEF Parent
  <2> QED BY <1>1, <1>13, <2>3, ParentIs
<1>14. ASSUME c.cap[src].type = "untyped" PROVE parentOf(d, dest) = src
  <2>1. src \in c.revocable
    BY <1>14 DEF Structure, Sized
  <2>2. isMDBParentOf(d, src, dest)
    BY <1>8, <2>1
  <2>3. Under(d, new, src, dest)
    <3>1. new[src] < new[dest] /\ src \in used(d) /\ dest \in used(d)
      BY <1>2, <1>3, <1>5
    <3>2. ASSUME NEW y \in used(d), new[src] < new[y], new[y] <= new[dest] PROVE y = dest
      <4>1. ~(y \in used(c))
        BY <1>3, <1>5, <3>2
      <4> QED BY <1>2, <4>1
    <3> QED BY <2>2, <3>1, <3>2 DEF Under
  <2>4. ASSUME NEW q, Under(d, new, q, dest) PROVE new[q] <= new[src]
    <3>1. q \in used(c) /\ new[q] < new[dest]
      BY <1>2, <1>5, <2>4 DEF Under
    <3> QED BY <1>5, <3>1
  <2>5. src # Null
    BY <1>1, MemoryMap
  <2>6. Parent(d, new, dest, src)
    BY <2>3, <2>4, <2>5 DEF Parent
  <2> QED BY <1>1, <2>6, ParentIs
<1> QED BY <1>13, <1>14

\* Replacing a cap by one that stands for it keeps the forest.
LEMMA ReplacedForest ==
  ASSUME NEW c, NEW rank, Structure(c, rank), NEW s \in used(c), NEW cap, Stands(c, rank, s, cap),
         NEW d, Replaced(c, s, cap, d), NEW x \in Slots
  PROVE  parentOf(d, x) = parentOf(c, x)
<1>1. /\ Structure(d, rank) /\ used(d) = used(c)
      /\ \A a, b \in used(c) : a # b => (Kin(d.cap[a], d.cap[b]) <=> Kin(c.cap[a], c.cap[b]))
  BY ReplacedStructure
<1>2. c \in Databases /\ d \in Databases /\ used(c) \subseteq Slots /\ \A a \in used(c) : c.cap[a] \in RealCaps
  BY <1>1, DatabaseFields DEF Structure, used
<1>3. /\ \A a \in Slots : d.cap[a] = IF a = s THEN cap ELSE c.cap[a]
      /\ d.revocable = c.revocable /\ d.firstBadged = c.firstBadged
  BY <1>2, DatabaseFields DEF Replaced
<1>4. cap.type # "endpoint" /\ c.cap[s].type # "endpoint"
  BY DEF Stands
<1>5. ASSUME NEW p \in used(c), NEW a \in used(c), p # a
      PROVE  isMDBParentOf(d, p, a) <=> isMDBParentOf(c, p, a)
  <2>1. isMDBParentOf(d, p, a) <=>
            /\ p \in d.revocable /\ Kin(d.cap[p], d.cap[a])
            /\ d.cap[p].type = "endpoint" /\ d.cap[p].badge # 0 =>
                 d.cap[p].badge = d.cap[a].badge /\ a \notin d.firstBadged
    BY <1>1, ParentKin
  <2>2. isMDBParentOf(c, p, a) <=>
            /\ p \in c.revocable /\ Kin(c.cap[p], c.cap[a])
            /\ c.cap[p].type = "endpoint" /\ c.cap[p].badge # 0 =>
                 c.cap[p].badge = c.cap[a].badge /\ a \notin c.firstBadged
    BY ParentKin
  <2>3. Kin(d.cap[p], d.cap[a]) <=> Kin(c.cap[p], c.cap[a])
    BY <1>1, <1>5
  <2>4. d.cap[p].type = "endpoint" <=> c.cap[p].type = "endpoint"
    BY <1>2, <1>3, <1>4
  <2>5. ASSUME c.cap[p].type = "endpoint", Kin(c.cap[p], c.cap[a]) PROVE d.cap[p] = c.cap[p] /\ d.cap[a] = c.cap[a]
    <3>1. c.cap[a].type = "endpoint"
      BY <2>5 DEF Kin
    <3> QED BY <1>2, <1>3, <1>4, <2>5, <3>1
  <2> QED BY <1>3, <2>1, <2>2, <2>3, <2>4, <2>5
<1> QED BY <1>1, <1>5, SameForest

\* d has the caps and the forest of c.
SameTree(c, d) ==
  used(d) = used(c) /\ \A x \in Slots : parentOf(d, x) = parentOf(c, x)

\* The cap in s has gone, and its children are its parent's.
Pruned(c, s, d) ==
  /\ s \in used(c) /\ used(d) = used(c) \ {s}
  /\ \A x \in Slots :
       parentOf(d, x) = IF x = s THEN Null ELSE IF parentOf(c, x) = s THEN parentOf(c, s) ELSE parentOf(c, x)

\* There are new caps in the slots S, all with the same parent or all without one.
Grafted(c, S, d) ==
  /\ S # {} /\ S \subseteq Slots /\ S \cap used(c) = {} /\ used(d) = used(c) \cup S
  /\ \E y \in used(c) \cup {Null} : \A x \in Slots : parentOf(d, x) = IF x \in S THEN y ELSE parentOf(c, x)

\* There is a new cap in slot s, with the parent y.
Adopted(c, y, s, d) == \A x \in Slots : parentOf(d, x) = IF x = s THEN y ELSE parentOf(c, x)

\* The slots a and b have changed places.
Exchanged(c, a, b, d) ==
  /\ a \in Slots /\ b \in Slots /\ a # b
  /\ used(d) = {x \in Slots : flip(a, b, x) \in used(c)}
  /\ \A x \in Slots : parentOf(d, x) = flip(a, b, parentOf(c, flip(a, b, x)))

\* One operation on the forest.
TreeStep(c, d) ==
  \/ SameTree(c, d)
  \/ \E s : Pruned(c, s, d)
  \/ \E S : Grafted(c, S, d)
  \/ \E s, e : Pruned(c, s, e) /\ Grafted(e, {s}, d)
  \/ \E a, b : (a \in used(c) \/ b \in used(c)) /\ Exchanged(c, a, b, d)
  \/ \E src, pivot, dest, e :
       /\ src \in used(c) /\ pivot \in used(c) /\ dest \notin used(c) /\ src # dest
       /\ Exchanged(c, pivot, dest, e) /\ Exchanged(e, src, pivot, d)

\* Flipped, in the forest.
LEMMA Exchange ==
  ASSUME NEW c, NEW rank, Structure(c, rank), NEW a \in Slots, NEW b \in Slots, a # b, NEW d, Flipped(c, a, b, d)
  PROVE  Exchanged(c, a, b, d)
<1>1. \A x \in Slots : flip(a, b, x) \in Slots /\ d.cap[x] = c.cap[flip(a, b, x)]
  BY DEF flip, Flipped
<1>2. used(d) = {x \in Slots : flip(a, b, x) \in used(c)}
  BY <1>1 DEF used
<1>3. \A x \in Slots : parentOf(d, x) = flip(a, b, parentOf(c, flip(a, b, x)))
  BY FlippedForest
<1> QED BY <1>2, <1>3 DEF Exchanged

\* Unlinked, in the forest.
LEMMA Prune ==
  ASSUME NEW c, NEW rank, Structure(c, rank), NEW s \in used(c), NEW d, Unlinked(c, s, d)
  PROVE  Pruned(c, s, d)
<1>1. \A x \in Slots :
        parentOf(d, x) = IF x = s THEN Null ELSE IF parentOf(c, x) = s THEN parentOf(c, s) ELSE parentOf(c, x)
  BY UnlinkedForest
<1> QED BY <1>1 DEF Pruned, Unlinked

\* Inserted, in the forest.
LEMMA Graft ==
  ASSUME NEW c, NEW rank, Structure(c, rank), NEW src \in used(c), NEW dest \in Slots, dest \notin used(c),
         NEW cap \in RealCaps, NEW rev \in BOOLEAN, Fits(c, rank, cap, src, rev),
         NEW d, Inserted(c, cap, src, dest, rev, d)
  PROVE  Grafted(c, {dest}, d) /\ (c.cap[src].type = "untyped" => Adopted(c, src, dest, d))
<1>1. /\ \A x \in Slots \ {dest} : parentOf(d, x) = parentOf(c, x)
      /\ c.cap[src].type = "untyped" => parentOf(d, dest) = src
  BY InsertedForest
<1>2. Structure(d, behind(rank, src, dest)) /\ used(d) = used(c) \cup {dest}
  BY InsertedStructure DEF Inserted
<1>3. parentOf(d, dest) \in used(d) \cup {Null} /\ parentOf(d, dest) # dest
  BY <1>2, ParentType
<1>4. parentOf(d, dest) \in used(c) \cup {Null}
  BY <1>2, <1>3
<1> DEFINE y == parentOf(d, dest)
<1>5. \A x \in Slots : parentOf(d, x) = IF x \in {dest} THEN y ELSE parentOf(c, x)
  BY <1>1
<1> HIDE DEF y
<1>6. y \in used(c) \cup {Null}
  BY <1>4 DEF y
<1>7. c.cap[src].type = "untyped" => Adopted(c, src, dest, d)
  BY <1>1 DEF Adopted
<1> QED BY <1>2, <1>5, <1>6, <1>7 DEF Grafted

\* Replaced, in the forest.
LEMMA Keep ==
  ASSUME NEW c, NEW rank, Structure(c, rank), NEW s \in used(c), NEW cap, Stands(c, rank, s, cap),
         NEW d, Replaced(c, s, cap, d)
  PROVE  SameTree(c, d)
BY ReplacedStructure, ReplacedForest DEF SameTree

\* What keeps the forest can come before or after an operation.
LEMMA SameBefore ==
  ASSUME NEW c, NEW e, SameTree(c, e), NEW d
  PROVE  /\ \A S : Grafted(e, S, d) => Grafted(c, S, d)
         /\ \A a, b : Exchanged(e, a, b, d) => Exchanged(c, a, b, d)
<1>1. ASSUME NEW S, Grafted(e, S, d) PROVE Grafted(c, S, d)
  BY <1>1 DEF SameTree, Grafted
<1>2. ASSUME NEW a, NEW b, Exchanged(e, a, b, d) PROVE Exchanged(c, a, b, d)
  <2>1. \A x \in Slots : flip(a, b, x) \in Slots
    BY <1>2 DEF flip, Exchanged
  <2> QED BY <1>2, <2>1 DEF SameTree, Exchanged
<1> QED BY <1>1, <1>2

\* And the other way round.
LEMMA SameAfter ==
  ASSUME NEW c, NEW e, NEW d, SameTree(e, d)
  PROVE  /\ SameTree(c, e) => SameTree(c, d)
         /\ \A s : Pruned(c, s, e) => Pruned(c, s, d)
BY DEF SameTree, Pruned

\* Each of these is one operation.
LEMMA TreeSteps ==
  ASSUME NEW c, NEW d
  PROVE  /\ SameTree(c, d) => TreeStep(c, d)
         /\ \A s : Pruned(c, s, d) => TreeStep(c, d)
         /\ \A S : Grafted(c, S, d) => TreeStep(c, d)
         /\ \A a, b : (a \in used(c) \/ b \in used(c)) /\ Exchanged(c, a, b, d) => TreeStep(c, d)
         /\ TreeStep(c, c)
<1>1. SameTree(c, c)
  BY DEF SameTree
<1>2. SameTree(c, d) => TreeStep(c, d)
  BY DEF TreeStep
<1>3. TreeStep(c, c)
  BY <1>1 DEF TreeStep
<1>4. \A s : Pruned(c, s, d) => TreeStep(c, d)
  BY DEF TreeStep
<1>5. \A S : Grafted(c, S, d) => TreeStep(c, d)
  BY DEF TreeStep
<1>6. \A a, b : (a \in used(c) \/ b \in used(c)) /\ Exchanged(c, a, b, d) => TreeStep(c, d)
  BY DEF TreeStep
<1> QED BY <1>2, <1>3, <1>4, <1>5, <1>6

-----------------------------------------------------------------------------
(* Copies *)

\* An assertion that holds changes nothing.
LEMMA AssertHolds ==
  ASSUME NEW c \in Databases, NEW cond \in BOOLEAN, cond
  PROVE  Assert_(c, cond) = c
<1>1. c.asserts \in BOOLEAN
  BY DatabaseFields
<1>2. (c.asserts /\ cond) = c.asserts
  BY <1>1
<1> QED BY <1>2 DEF Assert_, Databases

\* A slot that is not in use is empty.
LEMMA Unused ==
  ASSUME NEW c, NEW rank, Structure(c, rank), NEW s \in Slots, s \notin used(c)
  PROVE  slotEmpty(c, s) /\ c.cap[s] = NullCap
<1>1. c \in Databases
  BY DEF Structure
<1>2. c.cap[s] = NullCap
  BY <1>1, DatabaseFields
<1> QED BY <1>2 DEF slotEmpty, Structure, Linked

\* cap is a copy of the cap in slot src, with a new badge or the same.
Copies(c, src, cap) ==
  \/ /\ cap \in RealCaps /\ cap.type \in Objects
     /\ cap.type = c.cap[src].type /\ cap.ptr = c.cap[src].ptr /\ cap.bits = c.cap[src].bits
     /\ cap.type = "endpoint" => cap.badge = c.cap[src].badge \/ c.cap[src].badge = 0
  \/ /\ cap = c.cap[src] /\ cap.type = "untyped" /\ ~hasChildren(c, src)

\* A copy fits behind its source.
LEMMA CopyFits ==
  ASSUME NEW c, NEW rank, Structure(c, rank), NEW src \in used(c), NEW cap \in RealCaps, NEW rev \in BOOLEAN,
         cap.ptr = c.cap[src].ptr, cap.bits = c.cap[src].bits, cap.type = c.cap[src].type, Proper(cap),
         Derived(c.cap[src], cap, rev),
         \/ cap.type \in Objects /\ (rev /\ cap.type = "endpoint" => cap.badge # 0)
         \/ /\ cap.type = "untyped" /\ rev /\ c.cap[src].free = BIT(cap.bits)
            /\ \A s \in used(c) : rank[src] < rank[s] => ~inside(cap, c.cap[s])
  PROVE  Fits(c, rank, cap, src, rev)
<1> DEFINE k == c.cap[src]
<1>1. /\ c \in Databases /\ src \in Slots /\ k \in RealCaps
      /\ \A x \in used(c) : c.cap[x] \in RealCaps /\ x \in Slots
  BY DatabaseFields DEF Structure, used
<1>2. \A x \in used(c) : rank[x] \in Nat
  BY <1>1 DEF Structure, Ordered
<1>3. end(cap) = end(k) /\ cap.ptr \in Nat /\ end(cap) \in Nat /\ end(cap) = cap.ptr + BIT(cap.bits)
  BY CapFields DEF end
<1>4. Kin(k, cap) /\ Kin(cap, k) /\ inside(k, cap)
  <2>1. inside(k, cap) /\ inside(cap, k)
    BY <1>3 DEF inside
  <2> QED BY <2>1 DEF Kin
<1>5. /\ \A x : inside(x, cap) <=> inside(x, k)
      /\ \A x : inside(cap, x) <=> inside(k, x)
      /\ \A x : meets(cap, x) <=> meets(k, x)
  BY <1>3 DEF inside, meets
<1>6. \A u \in used(c) : (Kin(c.cap[u], cap) => Kin(c.cap[u], k)) /\ (Kin(c.cap[u], k) => Kin(c.cap[u], cap))
                         /\ (Kin(k, c.cap[u]) => Kin(cap, c.cap[u]))
  BY <1>1, <1>4, KinTrans
<1>7. ASSUME NEW u \in used(c), c.cap[u].type = "untyped", inside(c.cap[u], cap)
      PROVE  rank[u] <= rank[src] /\ end(cap) <= c.cap[u].ptr + c.cap[u].free
  <2>1. CASE u = src
    BY <1>2, <1>3, <1>7, <2>1 DEF Objects
  <2>2. CASE u # src
    <3>1. \/ rank[u] < rank[src] /\ end(k) <= c.cap[u].ptr + c.cap[u].free
          \/ rank[src] < rank[u] /\ k.type = "untyped" /\ inside(k, c.cap[u])
      BY <1>5, <1>7, <2>2 DEF Structure, Covered
    <3>2. ~(rank[src] < rank[u] /\ k.type = "untyped" /\ inside(k, c.cap[u]))
      BY <1>5 DEF Objects
    <3> QED BY <1>2, <1>3, <3>1, <3>2
  <2> QED BY <2>1, <2>2
<1>8. ASSUME NEW s \in used(c), cap.type = "untyped", inside(cap, c.cap[s])
      PROVE  rank[s] <= rank[src] /\ c.cap[s].type = "untyped" /\ inside(c.cap[s], cap)
  <2>1. CASE s = src
    <3>1. rank[s] <= rank[src]
      BY <1>2, <2>1
    <3>2. c.cap[s] = k /\ k.type = "untyped"
      BY <1>8, <2>1
    <3> QED BY <1>4, <3>1, <3>2
  <2>2. CASE s # src
    <3>1. \/ rank[src] < rank[s]
          \/ rank[s] < rank[src] /\ c.cap[s].type = "untyped" /\ inside(c.cap[s], k)
      BY <1>5, <1>8, <2>2 DEF Structure, Covered
    <3>2. ~(rank[src] < rank[s])
      BY <1>8 DEF Objects
    <3> QED BY <1>2, <1>5, <3>1, <3>2
  <2> QED BY <2>1, <2>2
<1>9. ASSUME NEW s \in used(c), meets(cap, c.cap[s]) PROVE Kin(cap, c.cap[s]) \/ Kin(c.cap[s], cap)
  <2>1. CASE s = src
    BY <1>4, <2>1
  <2>2. CASE s # src
    <3>1. Kin(k, c.cap[s]) \/ Kin(c.cap[s], k)
      BY <1>5, <1>9, <2>2 DEF Structure, Nested
    <3> QED BY <1>6, <3>1
  <2> QED BY <2>1, <2>2
<1>10. ASSUME NEW p \in used(c), p \in c.revocable, Kin(c.cap[p], cap), c.cap[p].type = "endpoint", c.cap[p].badge = 0
       PROVE  rank[p] <= rank[src]
  <2>1. Kin(c.cap[p], k)
    BY <1>6, <1>10
  <2>2. p = src \/ rank[p] < rank[src]
    BY <1>10, <2>1 DEF Structure, OriginalFirst
  <2> QED BY <1>2, <2>2
<1>11. ~(rev /\ cap.type = "endpoint" /\ cap.badge = 0)
  BY DEF Objects
<1>12. cap.type = "untyped" => rev
  BY DEF Objects
<1> HIDE DEF k
<1> QED BY <1>4, <1>6, <1>7, <1>8, <1>9, <1>10, <1>11, <1>12 DEF Fits, k

\* d is c with other caps in the slots S; the rest leads to the same slots.
Grown(c, S, d) ==
  /\ used(d) = used(c) \cup S
  /\ \A x \in used(c) : storage(d.cap[x]) = storage(c.cap[x]) /\ d.cap[x].type = c.cap[x].type
  /\ d.asserts = c.asserts

\* cteInsert of a copy.
LEMMA InsertCopy ==
  ASSUME NEW c, NEW rank, Structure(c, rank), NEW src \in used(c), NEW dest \in Slots, dest \notin used(c),
         NEW cap, Copies(c, src, cap), NEW d, d = cteInsert(c, cap, src, dest)
  PROVE  /\ Structure(d, behind(rank, src, dest)) /\ Grown(c, {dest}, d) /\ Grafted(c, {dest}, d)
         /\ \A x \in Slots : d.cap[x].type = "cnode" => x = dest \/ d.cap[x] = c.cap[x]
<1> DEFINE k == c.cap[src]
           rev == isCapRevocable(cap, k)
<1>1. /\ c \in Databases /\ src \in Slots /\ k \in RealCaps
      /\ c.cap \in [Slots -> Caps]
  BY DatabaseFields DEF Structure, used
<1>2. Assert_(c, slotEmpty(c, dest)) = c
  <2>1. slotEmpty(c, dest)
    BY Unused
  <2>2. slotEmpty(c, dest) \in BOOLEAN
    BY DEF slotEmpty
  <2> QED BY <1>1, <2>1, <2>2, AssertHolds
<1>3. d = linkAfter(setUntypedCapAsFull(c, cap, src), cap, src, dest, rev)
  BY <1>2 DEF cteInsert
<1>4. Proper(k)
  BY DEF Structure, Sized
<1>5. CASE cap \in RealCaps /\ cap.type \in Objects
  <2>1. /\ cap.type = k.type /\ cap.ptr = k.ptr /\ cap.bits = k.bits /\ k.type # "untyped"
        /\ cap.type = "endpoint" => cap.badge = k.badge \/ k.badge = 0
    BY <1>5 DEF Copies, Objects
  <2>2. setUntypedCapAsFull(c, cap, src) = c
    BY <2>1 DEF setUntypedCapAsFull
  <2>3. rev \in BOOLEAN /\ (rev /\ cap.type = "endpoint" => cap.badge # 0)
    BY <1>5, <2>1 DEF isCapRevocable, Objects
  <2>4. Proper(cap)
    BY <1>4, <1>5, <2>1 DEF Proper, Objects, end
  <2> HIDE DEF rev
  <2>5. Fits(c, rank, cap, src, rev)
    <3>1. Derived(k, cap, rev)
      BY <1>5, <2>1 DEF Derived, rev, isCapRevocable, Objects
    <3> QED BY <1>5, <2>1, <2>3, <2>4, <3>1, CopyFits
  <2>6. Inserted(c, cap, src, dest, rev, d)
    BY <1>3, <1>5, <2>2, <2>3, LinkInserted
  <2>7. Structure(d, behind(rank, src, dest))
    BY <1>5, <2>3, <2>5, <2>6, InsertedStructure
  <2>8. \A x \in used(c) : d.cap[x] = c.cap[x]
    BY <2>6 DEF Inserted, used
  <2>9. Grafted(c, {dest}, d)
    BY <1>5, <2>3, <2>5, <2>6, Graft
  <2> QED BY <2>6, <2>7, <2>8, <2>9 DEF Inserted, Grown
<1>6. CASE cap = k /\ cap.type = "untyped" /\ ~hasChildren(c, src)
  <2> DEFINE f == [k EXCEPT !.free = BIT(k.bits)]
             e == [c EXCEPT !.cap[src].free = BIT(k.bits)]
  <2>1. setUntypedCapAsFull(c, cap, src) = e
    BY <1>6 DEF setUntypedCapAsFull
  <2>2. /\ f \in UntypedCaps /\ f.type = "untyped" /\ f.ptr = k.ptr /\ f.bits = k.bits /\ f.free = BIT(k.bits)
        /\ BIT(k.bits) \in Nat
    <3>1. k \in UntypedCaps /\ BIT(k.bits) \in Nat
      BY <1>1, <1>6, CapFields
    <3> QED BY <3>1 DEF UntypedCaps
  <2>3. Proper(f)
    BY <1>4, <1>6, <2>2 DEF Proper, end
  <2>4. e = [c EXCEPT !.cap = [c.cap EXCEPT ![src] = f]]
    BY <1>1 DEF Databases
  <2> HIDE DEF f, e
  <2>5. f \in RealCaps
    BY <2>2 DEF RealCaps
  <2>6. Replaced(c, src, f, e) /\ e.asserts = c.asserts
    <3>1. [c.cap EXCEPT ![src] = f] \in [Slots -> Caps]
      BY <1>1, <2>5 DEF Caps
    <3> QED BY <1>1, <2>4, <3>1 DEF Replaced, Databases
  <2>7. \A s \in used(c) : rank[src] < rank[s] => ~inside(k, c.cap[s])
    BY <1>6, Childless
  <2>8. \A x : inside(f, x) <=> inside(k, x)
    BY <2>2 DEF inside, end
  <2>9. Stands(c, rank, src, f)
    BY <1>6, <2>2, <2>3, <2>5, <2>7, <2>8 DEF Stands
  <2>10. Structure(e, rank) /\ used(e) = used(c)
    BY <2>6, <2>9, ReplacedStructure
  <2>11. e.cap[src] = f /\ \A x \in Slots : x # src => e.cap[x] = c.cap[x]
    BY <1>1, <2>6 DEF Replaced
  <2>12. rev = TRUE /\ cap \in RealCaps /\ Proper(cap)
    BY <1>1, <1>4, <1>6 DEF isCapRevocable
  <2>13. \A s \in used(e) : rank[src] < rank[s] => ~inside(cap, e.cap[s])
    <3>1. \A s \in used(c) : s \in Slots
      BY DEF used
    <3>2. rank \in [Slots -> Nat]
      BY DEF Structure, Ordered
    <3> QED BY <1>1, <1>6, <2>7, <2>10, <2>11, <3>1, <3>2
  <2>14. Fits(e, rank, cap, src, TRUE)
    <3>1. cap.ptr = e.cap[src].ptr /\ cap.bits = e.cap[src].bits /\ cap.type = e.cap[src].type
          /\ e.cap[src].free = BIT(cap.bits)
      BY <1>6, <2>2, <2>11
    <3>2. Derived(e.cap[src], cap, TRUE)
      BY <1>6, <3>1 DEF Derived
    <3> QED BY <1>6, <2>10, <2>12, <2>13, <3>1, <3>2, CopyFits
  <2>15. d = linkAfter(e, cap, src, dest, TRUE)
    BY <1>3, <2>1, <2>12
  <2>16. Inserted(e, cap, src, dest, TRUE, d)
    BY <2>10, <2>12, <2>15, LinkInserted
  <2>17. Structure(d, behind(rank, src, dest))
    BY <2>10, <2>12, <2>14, <2>16, InsertedStructure
  <2>18. used(d) = used(c) \cup {dest} /\ d.asserts = c.asserts
    BY <2>6, <2>10, <2>16 DEF Inserted
  <2>19. \A x \in Slots : x # dest => d.cap[x] = IF x = src THEN f ELSE c.cap[x]
    BY <2>11, <2>16 DEF Inserted
  <2>20. \A x \in used(c) : storage(d.cap[x]) = storage(c.cap[x]) /\ d.cap[x].type = c.cap[x].type
    <3>1. storage(f) = storage(k) /\ f.type = k.type
      BY <1>6, <2>2 DEF storage
    <3>2. \A x \in used(c) : x \in Slots /\ x # dest
      BY DEF used
    <3> QED BY <2>19, <3>1, <3>2
  <2>21. Grafted(c, {dest}, d)
    <3>1. SameTree(c, e)
      BY <2>6, <2>9, Keep
    <3>2. Grafted(e, {dest}, d)
      BY <2>10, <2>12, <2>14, <2>16, Graft
    <3> QED BY <3>1, <3>2, SameBefore
  <2> QED BY <1>6, <2>2, <2>17, <2>18, <2>19, <2>20, <2>21 DEF Grown
<1> QED BY <1>5, <1>6 DEF Copies

-----------------------------------------------------------------------------
(* New objects *)

\* No cap made from the untyped in slot s names memory from lo on.
Fresh(c, rank, s, lo) ==
  \A x \in used(c) : rank[s] < rank[x] /\ inside(c.cap[s], c.cap[x]) => end(c.cap[x]) <= lo

\* A cap to fresh memory of an untyped fits behind it.
LEMMA NewFits ==
  ASSUME NEW c, NEW rank, Structure(c, rank), NEW src \in used(c), c.cap[src].type = "untyped",
         NEW cap \in RealCaps, Proper(cap), cap.type # "zombie", inside(c.cap[src], cap),
         Fresh(c, rank, src, cap.ptr), end(cap) <= c.cap[src].ptr + c.cap[src].free
  PROVE  Fits(c, rank, cap, src, TRUE)
<1> DEFINE k == c.cap[src]
<1>1. /\ c \in Databases /\ src \in Slots /\ k \in RealCaps
      /\ \A x \in used(c) : c.cap[x] \in RealCaps /\ x \in Slots
  BY DatabaseFields DEF Structure, used
<1>2. \A x \in used(c) : rank[x] \in Nat /\ c.cap[x].ptr \in Nat /\ end(c.cap[x]) \in Nat /\ c.cap[x].ptr < end(c.cap[x])
  <2>1. \A x \in used(c) : rank[x] \in Nat
    BY <1>1 DEF Structure, Ordered
  <2> QED BY <1>1, <2>1, CapFields
<1>3. cap.ptr \in Nat /\ end(cap) \in Nat /\ cap.ptr < end(cap)
  BY CapFields
<1>4. ASSUME NEW s \in used(c), meets(cap, c.cap[s]), s # src
      PROVE  c.cap[s].type = "untyped" /\ rank[s] < rank[src] /\ inside(c.cap[s], k)
  <2>1. meets(k, c.cap[s])
    BY <1>2, <1>3, <1>4 DEF meets, inside
  <2>2. ~(end(c.cap[s]) <= cap.ptr)
    BY <1>2, <1>3, <1>4 DEF meets
  <2>3. ~(rank[src] < rank[s] /\ inside(k, c.cap[s]))
    BY <2>2 DEF Fresh
  <2>4. Kin(k, c.cap[s]) \/ Kin(c.cap[s], k)
    BY <1>4, <2>1 DEF Structure, Nested
  <2>5. CASE Kin(k, c.cap[s])
    <3>1. inside(k, c.cap[s])
      BY <2>5 DEF Kin, Objects
    <3> QED BY <1>4, <2>3, <3>1 DEF Structure, Covered
  <2>6. CASE Kin(c.cap[s], k)
    <3>1. c.cap[s].type = "untyped" /\ inside(c.cap[s], k)
      BY <2>6 DEF Kin, Objects
    <3>2. \/ rank[s] < rank[src]
          \/ rank[src] < rank[s] /\ inside(k, c.cap[s])
      BY <1>4, <3>1 DEF Structure, Covered
    <3> QED BY <2>3, <3>1, <3>2
  <2> QED BY <2>4, <2>5, <2>6
<1>5. \A s \in used(c) : inside(c.cap[s], k) => inside(c.cap[s], cap)
  BY <1>1, <1>2, <1>3 DEF inside
<1>6. \A s \in used(c) : Kin(cap, c.cap[s]) \/ Kin(c.cap[s], cap) => meets(cap, c.cap[s])
  <2>1. \A s \in used(c) : meets(c.cap[s], cap) => meets(cap, c.cap[s])
    BY DEF meets
  <2> QED BY <1>1, <2>1, KinMeets
<1>7. Kin(k, cap)
  BY DEF Kin
<1>8. ASSUME NEW u \in used(c), Kin(c.cap[u], cap) PROVE u = src \/ Kin(c.cap[u], k)
  BY <1>4, <1>6, <1>8 DEF Kin
<1>9. ASSUME NEW s \in used(c), rank[src] < rank[s], Kin(cap, c.cap[s]) PROVE FALSE
  <2>1. s # src
    BY <1>2, <1>9
  <2>2. rank[s] < rank[src]
    BY <1>4, <1>6, <1>9, <2>1
  <2> QED BY <1>2, <1>9, <2>2
<1>10. ASSUME NEW u \in used(c), c.cap[u].type = "untyped", inside(c.cap[u], cap)
       PROVE  rank[u] <= rank[src] /\ end(cap) <= c.cap[u].ptr + c.cap[u].free
  <2>1. CASE u = src
    BY <1>2, <2>1
  <2>2. CASE u # src
    <3>1. meets(cap, c.cap[u])
      BY <1>6, <1>10 DEF Kin
    <3>2. rank[u] < rank[src] /\ inside(c.cap[u], k)
      BY <1>4, <2>2, <3>1
    <3>3. end(k) <= c.cap[u].ptr + c.cap[u].free
      BY <1>2, <1>10, <2>2, <3>2 DEF Structure, Covered
    <3>4. end(cap) <= end(k)
      BY DEF inside
    <3>5. c.cap[u].free \in Nat
      BY <1>1, <1>10, CapFields DEF UntypedCaps
    <3> QED BY <1>2, <1>3, <3>2, <3>3, <3>4, <3>5
  <2> QED BY <2>1, <2>2
<1>11. ASSUME NEW s \in used(c), cap.type = "untyped", inside(cap, c.cap[s])
       PROVE  rank[s] <= rank[src] /\ c.cap[s].type = "untyped" /\ inside(c.cap[s], cap)
  <2>1. meets(cap, c.cap[s])
    BY <1>6, <1>11 DEF Kin
  <2>2. CASE s = src
    <3>1. rank[s] <= rank[src]
      BY <1>2, <2>2
    <3> QED BY <2>2, <3>1
  <2>3. CASE s # src
    <3>1. c.cap[s].type = "untyped" /\ rank[s] < rank[src] /\ inside(c.cap[s], k)
      BY <1>4, <2>1, <2>3
    <3>2. rank[s] <= rank[src]
      BY <1>2, <3>1
    <3> QED BY <1>5, <3>1, <3>2
  <2> QED BY <2>2, <2>3
<1>12. ASSUME NEW s \in used(c), meets(cap, c.cap[s]) PROVE Kin(c.cap[s], cap)
  <2>1. CASE s = src
    BY <1>7, <2>1
  <2>2. CASE s # src
    BY <1>4, <1>5, <1>12, <2>2 DEF Kin
  <2> QED BY <2>1, <2>2
<1>13. ASSUME NEW p \in used(c), c.cap[p].type = "endpoint" PROVE ~Kin(c.cap[p], cap) /\ ~Kin(cap, c.cap[p])
  <2>1. CASE p = src
    BY <1>13, <2>1
  <2>2. CASE p # src
    BY <1>4, <1>6, <1>13, <2>2
  <2> QED BY <2>1, <2>2
<1>14. ASSUME cap.type = "endpoint", NEW s \in used(c) PROVE ~Kin(cap, c.cap[s])
  BY <1>13, <1>14 DEF Kin
<1>15. Derived(k, cap, TRUE)
  BY DEF Derived
<1> QED BY <1>7, <1>8, <1>9, <1>10, <1>11, <1>12, <1>13, <1>14, <1>15 DEF Fits, k

\* The caps of new objects.
LEMMA ObjectCap ==
  ASSUME NEW type \in {"untyped", "endpoint", "cnode", "thread"}, NEW p \in Nat, NEW bits \in Nat,
         type \in {"endpoint", "thread"} => bits = 0
  PROVE  /\ objectCap(type, p, bits) \in RealCaps
         /\ objectCap(type, p, bits).ptr = p /\ objectCap(type, p, bits).bits = bits
         /\ objectCap(type, p, bits).type = type
         /\ type = "untyped" => objectCap(type, p, bits).free = 0
<1>1. CASE type = "untyped"
  BY <1>1 DEF objectCap, UntypedCap, RealCaps, UntypedCaps
<1>2. CASE type = "endpoint"
  BY <1>2 DEF objectCap, EndpointCap, RealCaps, EndpointCaps
<1>3. CASE type = "cnode"
  BY <1>3 DEF objectCap, CNodeCap, RealCaps, CNodeCaps
<1>4. CASE type = "thread"
  BY <1>4 DEF objectCap, ThreadCap, RealCaps, ThreadCaps
<1> QED BY <1>1, <1>2, <1>3, <1>4

\* linkAfter makes a database of a database.
LEMMA LinkType ==
  ASSUME NEW c \in Databases, NEW cap \in RealCaps, NEW src \in Slots, NEW dest \in Slots
  PROVE  linkAfter(c, cap, src, dest, TRUE) \in Databases
<1> DEFINE n == c.next[src]
           N == [c.next EXCEPT ![src] = dest, ![dest] = n]
           P == setPrev([c.prev EXCEPT ![dest] = src], n, dest)
           K == [c.cap EXCEPT ![dest] = cap]
           d == linkAfter(c, cap, src, dest, TRUE)
<1>1. /\ c.cap \in [Slots -> Caps] /\ c.next \in [Slots -> Links] /\ c.prev \in [Slots -> Links]
      /\ c.revocable \subseteq Slots /\ c.firstBadged \subseteq Slots /\ c.asserts \in BOOLEAN /\ n \in Links
  BY DatabaseFields
<1>2. N \in [Slots -> Links] /\ P \in [Slots -> Links] /\ K \in [Slots -> Caps]
  BY <1>1 DEF setPrev, Links, Caps
<1>3. d = [c EXCEPT !.cap = K, !.next = N, !.prev = P, !.revocable = c.revocable \cup {dest},
                    !.firstBadged = c.firstBadged \cup {dest}]
  BY DEF linkAfter, Databases
<1> HIDE DEF N, P, K, d
<1>4. d \in Databases
  BY <1>1, <1>2, <1>3 DEF Databases
<1> QED BY <1>4 DEF d

\* The slots a Retype fills, and what its request has been checked for.
destSlots(r) == r.dest .. r.dest + r.n - 1

Request(c, r) ==
  /\ r.slot \in used(c) /\ c.cap[r.slot].type = "untyped"
  /\ r.type \in {"untyped", "endpoint", "cnode", "thread"} /\ r.bits \in Nat
  /\ r.type \in {"endpoint", "thread"} => r.bits = 0
  /\ r.n \in Nat /\ r.n >= 1 /\ r.dest \in Nat
  /\ \A x \in destSlots(r) : x \in Slots /\ x \notin used(c)
  /\ \E t \in used(c) : c.cap[t].type = "cnode" /\ destSlots(r) \subseteq region(c.cap[t])
  /\ r.base \in Nat /\ \E j \in Nat : r.base = j * BIT(r.bits)
  /\ c.cap[r.slot].ptr <= r.base /\ r.base + r.n * BIT(r.bits) <= end(c.cap[r.slot])

\* The address of the i-th object.
objectAt(r, i) == r.base + i * BIT(r.bits)

\* d after i objects of the request r have been made.
Made(c, r, i, d, rank) ==
  /\ Structure(d, rank)
  /\ used(d) = used(c) \cup (r.dest .. r.dest + i - 1)
  /\ \A x \in used(c) : d.cap[x] = c.cap[x]
  /\ d.asserts = c.asserts
  /\ Fresh(d, rank, r.slot, objectAt(r, i))
  /\ \A x \in Slots : parentOf(d, x) = IF x \in r.dest .. r.dest + i - 1 THEN r.slot ELSE parentOf(c, x)

\* Where the objects are.
LEMMA ObjectPlaces ==
  ASSUME NEW c, NEW r, Request(c, r), NEW i \in 1 .. r.n
  PROVE  /\ objectAt(r, i - 1) \in Nat /\ objectAt(r, i) = objectAt(r, i - 1) + BIT(r.bits)
         /\ r.base <= objectAt(r, i - 1) /\ objectAt(r, i) <= objectAt(r, r.n)
         /\ \E j \in Nat : objectAt(r, i - 1) = j * BIT(r.bits)
         /\ BIT(r.bits) \in Nat /\ BIT(r.bits) >= 1
<1> DEFINE B == BIT(r.bits)
<1>1. r.base \in Nat /\ r.n \in Nat /\ B \in Nat /\ B >= 1 /\ i \in Nat /\ i - 1 \in Nat /\ r.n - i \in Nat
  BY BitType DEF Request
<1>2. PICK j \in Nat : r.base = j * B
  BY DEF Request
<1> HIDE DEF B
<1>3. (i - 1) * B \in Nat /\ i * B = (i - 1) * B + B /\ (r.n - i) * B >= 0 /\ r.n * B = i * B + (r.n - i) * B
  BY <1>1
<1>4. j * B + (i - 1) * B = (j + (i - 1)) * B /\ j + (i - 1) \in Nat
  BY <1>1
<1>5. i * B \in Nat /\ r.n * B \in Nat /\ (r.n - i) * B \in Nat
  BY <1>1
<1>6. /\ objectAt(r, i - 1) = r.base + (i - 1) * B /\ objectAt(r, i) = r.base + i * B /\ objectAt(r, r.n) = r.base + r.n * B
  BY DEF objectAt, B
<1>7. /\ objectAt(r, i - 1) \in Nat /\ objectAt(r, i) = objectAt(r, i - 1) + B
      /\ r.base <= objectAt(r, i - 1) /\ objectAt(r, i) <= objectAt(r, r.n)
  BY <1>1, <1>3, <1>5, <1>6
<1>8. objectAt(r, i - 1) = (j + (i - 1)) * B
  BY <1>2, <1>4, <1>6
<1> QED BY <1>1, <1>4, <1>7, <1>8 DEF B

\* One more object is made.
LEMMA MakeOne ==
  ASSUME NEW c, NEW r, Request(c, r), c.cap[r.slot].free = objectAt(r, r.n) - c.cap[r.slot].ptr,
         NEW i \in 1 .. r.n, NEW d, NEW rank, Made(c, r, i - 1, d, rank),
         NEW e, e = insertNewCap(d, r.slot, r.dest + i - 1, objectCap(r.type, objectAt(r, i - 1), r.bits))
  PROVE  Made(c, r, i, e, behind(rank, r.slot, r.dest + i - 1))
<1> DEFINE p == objectAt(r, i - 1)
           cap == objectCap(r.type, p, r.bits)
           dest == r.dest + i - 1
           src == r.slot
           k == d.cap[src]
           new == behind(rank, src, dest)
<1>1. /\ p \in Nat /\ objectAt(r, i) = p + BIT(r.bits) /\ r.base <= p /\ objectAt(r, i) <= objectAt(r, r.n)
      /\ BIT(r.bits) \in Nat /\ BIT(r.bits) >= 1
  BY ObjectPlaces
<1>2. PICK j \in Nat : p = j * BIT(r.bits)
  BY ObjectPlaces
<1> HIDE DEF p
<1>3. /\ cap \in RealCaps /\ cap.ptr = p /\ cap.bits = r.bits /\ cap.type = r.type /\ end(cap) = objectAt(r, i)
      /\ cap.type = "untyped" => cap.free = 0
  <2>1. /\ r.type \in {"untyped", "endpoint", "cnode", "thread"} /\ r.bits \in Nat
        /\ r.type \in {"endpoint", "thread"} => r.bits = 0
    BY DEF Request
  <2>2. /\ cap \in RealCaps /\ cap.ptr = p /\ cap.bits = r.bits /\ cap.type = r.type
        /\ r.type = "untyped" => cap.free = 0
    BY <1>1, <2>1, ObjectCap
  <2> QED BY <1>1, <2>2 DEF end
<1> HIDE DEF cap
<1>4. /\ r.dest \in Nat /\ r.n \in Nat /\ i \in Nat /\ dest \in destSlots(r) /\ dest \in Slots /\ dest \notin used(c)
      /\ dest \notin r.dest .. r.dest + (i - 1) - 1
      /\ (r.dest .. r.dest + (i - 1) - 1) \cup {dest} = r.dest .. r.dest + i - 1
  BY DEF Request, destSlots
<1>5. dest \notin used(d) /\ src \in used(c) /\ src \in used(d) /\ k = c.cap[src] /\ k.type = "untyped"
  BY <1>4 DEF Made, Request
<1>6. d \in Databases /\ k \in RealCaps /\ k.ptr \in Nat /\ end(k) \in Nat /\ Proper(k)
  BY <1>5, DatabaseFields, CapFields DEF Made, Structure, Sized
<1>7. objectAt(r, r.n) <= end(k) /\ k.ptr <= r.base /\ r.base \in Nat /\ objectAt(r, r.n) \in Nat
  <2>1. r.base \in Nat /\ r.n * BIT(r.bits) \in Nat
    BY <1>1, <1>4 DEF Request
  <2> QED BY <1>5, <2>1 DEF Request, objectAt
<1>8. inside(k, cap)
  BY <1>1, <1>3, <1>6, <1>7 DEF inside
<1>9. end(cap) <= k.ptr + k.free
  BY <1>1, <1>3, <1>5, <1>6, <1>7
<1>10. Proper(cap)
  <2>1. \A x \in Nat : cap.ptr <= x /\ x < end(cap) => x \in Slots
    <3>1. \A x \in Nat : cap.ptr <= x /\ x < end(cap) => k.ptr <= x /\ x < end(k)
      BY <1>1, <1>3, <1>6, <1>7
    <3> QED BY <1>6, <3>1 DEF Proper
  <2>2. cap.type = "untyped" => cap.free <= BIT(cap.bits)
    BY <1>1, <1>3
  <2>3. end(cap) <= UntypedSize
    <3>1. end(k) <= UntypedSize /\ UntypedSize \in Nat
      BY <1>5, <1>6, MemoryMap, BitType DEF Proper, UntypedSize
    <3> QED BY <1>1, <1>3, <1>6, <1>7, <3>1
  <2>4. cap.type # "zombie"
    BY <1>3 DEF Request
  <2> QED BY <1>2, <1>3, <2>1, <2>2, <2>3, <2>4 DEF Proper
<1>11. Fits(d, rank, cap, src, TRUE)
  <2>1. Fresh(d, rank, src, cap.ptr) /\ cap.type # "zombie" /\ Structure(d, rank)
    BY <1>3 DEF Made, p, Request
  <2> QED BY <1>3, <1>5, <1>8, <1>9, <1>10, <2>1, NewFits
<1>12. e = linkAfter(d, cap, src, dest, TRUE)
  BY DEF insertNewCap, cap, p
<1>13. Inserted(d, cap, src, dest, TRUE, e)
  <2>1. Structure(d, rank)
    BY DEF Made
  <2>2. Inserted(d, cap, src, dest, TRUE, linkAfter(d, cap, src, dest, TRUE))
    BY <1>3, <1>4, <1>5, <2>1, LinkInserted
  <2> QED BY <1>12, <2>2
<1>14. Structure(e, new)
  BY <1>3, <1>4, <1>5, <1>11, <1>13, InsertedStructure DEF Made
<1>15. used(e) = used(c) \cup (r.dest .. r.dest + i - 1)
  BY <1>4, <1>13 DEF Inserted, Made
<1>16. \A x \in used(c) : e.cap[x] = c.cap[x]
  <2>1. \A x \in used(c) : x \in Slots /\ x # dest
    BY <1>4 DEF used
  <2> QED BY <1>13, <2>1 DEF Inserted, Made
<1>17. e.asserts = c.asserts
  BY <1>13 DEF Inserted, Made
<1>18. Fresh(e, new, src, objectAt(r, i))
  <2> SUFFICES ASSUME NEW x \in used(e), new[src] < new[x], inside(e.cap[src], e.cap[x])
               PROVE  end(e.cap[x]) <= objectAt(r, i)
    BY DEF Fresh
  <2>1. used(e) = used(d) \cup {dest} /\ \A y \in Slots : e.cap[y] = IF y = dest THEN cap ELSE d.cap[y]
    BY <1>13 DEF Inserted
  <2>2. CASE x = dest
    BY <1>1, <1>3, <1>4, <2>1, <2>2
  <2>3. CASE x \in used(d) /\ x # dest
    <3>1. x \in Slots /\ src \in Slots /\ src # dest /\ rank[x] \in Nat /\ rank[src] \in Nat
      BY <1>5, <2>3 DEF Made, Structure, Ordered, used
    <3>2. e.cap[x] = d.cap[x] /\ e.cap[src] = k /\ new[src] = 2 * rank[src] /\ new[x] = 2 * rank[x]
      BY <2>1, <2>3, <3>1 DEF behind
    <3>3. rank[src] < rank[x] /\ inside(k, d.cap[x])
      BY <3>1, <3>2
    <3>4. end(d.cap[x]) <= p
      BY <2>3, <3>3 DEF Made, Fresh, p
    <3>5. end(d.cap[x]) \in Nat
      BY <1>6, <2>3, DatabaseFields, CapFields
    <3> QED BY <1>1, <3>2, <3>4, <3>5
  <2> QED BY <2>1, <2>2, <2>3
<1>19. \A x \in Slots : parentOf(e, x) = IF x \in r.dest .. r.dest + i - 1 THEN src ELSE parentOf(c, x)
  <2>1. Structure(d, rank) /\ d.cap[src].type = "untyped"
    BY <1>5 DEF Made
  <2>2. \A x \in Slots : parentOf(d, x) = IF x \in r.dest .. r.dest + (i - 1) - 1 THEN src ELSE parentOf(c, x)
    BY DEF Made
  <2> HIDE DEF dest, src, k
  <2>3. Adopted(d, src, dest, e)
    BY <1>3, <1>4, <1>5, <1>11, <1>13, <2>1, Graft
  <2>4. \A x : x \in r.dest .. r.dest + i - 1 <=> x \in r.dest .. r.dest + (i - 1) - 1 \/ x = dest
    BY <1>4
  <2> QED BY <2>2, <2>3, <2>4 DEF Adopted
<1> QED BY <1>14, <1>15, <1>16, <1>17, <1>18, <1>19 DEF Made

\* createNewObjects makes them all.
LEMMA MakeAll ==
  ASSUME NEW c, NEW rank, Structure(c, rank), NEW r, Request(c, r), Fresh(c, rank, r.slot, r.base),
         c.cap[r.slot].free = objectAt(r, r.n) - c.cap[r.slot].ptr
  PROVE  \E new : Made(c, r, r.n, createNewObjects(c, r, r.base), new)
<1> DEFINE N == r.n
           step(i, d) == insertNewCap(d, r.slot, r.dest + i - 1, objectCap(r.type, objectAt(r, i - 1), r.bits))
           F == [q \in (1 .. N) \X Databases |-> step(q[1], q[2])]
           rhs(f) == [i \in 0 .. N |-> IF i = 0 THEN c ELSE step(i, f[i - 1])]
           after == CHOOSE f : f = rhs(f)
<1>1. N \in Nat /\ c \in Databases /\ r.slot \in Slots
  BY DEF Request, Structure, used
<1>2. \A i \in 1 .. N : \A d \in Databases : step(i, d) \in Databases
  <2> SUFFICES ASSUME NEW i \in 1 .. N, NEW d \in Databases PROVE step(i, d) \in Databases
    OBVIOUS
  <2>1. objectCap(r.type, objectAt(r, i - 1), r.bits) \in RealCaps
    <3>1. objectAt(r, i - 1) \in Nat
      BY ObjectPlaces
    <3> QED BY <3>1, ObjectCap DEF Request
  <2>2. r.dest + i - 1 \in Slots
    <3>1. r.dest + i - 1 \in destSlots(r)
      BY <1>1 DEF destSlots, Request
    <3> QED BY <3>1 DEF Request
  <2> QED BY <1>1, <2>1, <2>2, LinkType DEF insertNewCap
<1> HIDE DEF step
<1>3. F \in [(1 .. N) \X Databases -> Databases]
  BY <1>2
<1>4. \A i \in 1 .. N : \A d \in Databases : F[<<i, d>>] = step(i, d)
  OBVIOUS
<1> HIDE DEF F
<1>5. PICK g \in [0 .. N -> Databases] : Recursion(N, F, c, g)
  BY <1>1, <1>3, Iterates
<1>6. g = rhs(g)
  <2>1. \A i \in 0 .. N : i # 0 => i \in 1 .. N /\ i - 1 \in 0 .. N
    BY <1>1
  <2>2. \A i \in 0 .. N : i # 0 => F[<<i, g[i - 1]>>] = step(i, g[i - 1])
    BY <2>1, <1>4
  <2> QED BY <1>5, <2>2 DEF Recursion
<1>7. after = rhs(after)
  <2> HIDE DEF rhs
  <2> QED BY <1>6
<1>8. createNewObjects(c, r, r.base) = after[N]
  BY DEF createNewObjects, step, objectAt
<1> HIDE DEF after
<1>9. after[0] = c /\ \A i \in 1 .. N : after[i] = step(i, after[i - 1])
  <2>1. \A i \in 0 .. N : after[i] = IF i = 0 THEN c ELSE step(i, after[i - 1])
    BY <1>7
  <2>2. 0 \in 0 .. N /\ \A i \in 1 .. N : i \in 0 .. N /\ i # 0
    BY <1>1
  <2> QED BY <2>1, <2>2
<1> DEFINE G == {i \in Nat : \E new : Made(c, r, i, after[i], new)}
<1>10. 0 \in G
  <2>1. r.dest .. r.dest + 0 - 1 = {} /\ objectAt(r, 0) = r.base
    <3>1. r.dest \in Nat /\ r.base \in Nat /\ BIT(r.bits) \in Nat
      BY BitType DEF Request
    <3> QED BY <3>1 DEF objectAt
  <2>2. Made(c, r, 0, after[0], rank)
    BY <1>9, <2>1 DEF Made
  <2> QED BY <2>2
<1>11. ASSUME NEW i \in 1 .. N, i - 1 \in G PROVE i \in G
  <2>1. PICK old : Made(c, r, i - 1, after[i - 1], old)
    BY <1>11
  <2>2. after[i] = insertNewCap(after[i - 1], r.slot, r.dest + i - 1, objectCap(r.type, objectAt(r, i - 1), r.bits))
    BY <1>9 DEF step
  <2>3. Made(c, r, i, after[i], behind(old, r.slot, r.dest + i - 1))
    BY <2>1, <2>2, MakeOne
  <2>4. i \in Nat
    BY <1>1
  <2> QED BY <2>3, <2>4
<1>12. N \in G
  <2> HIDE DEF G
  <2>1. N \in 0 .. N
    BY <1>1
  <2> QED BY <1>1, <1>10, <1>11, <2>1, UpTo
<1> QED BY <1>8, <1>12

\* invokeUntyped_Retype after the reset: the free index moves past the objects, and they are made.
LEMMA RetypeStructure ==
  ASSUME NEW c, NEW rank, Structure(c, rank), NEW r, Request(c, r), Fresh(c, rank, r.slot, r.base),
         NEW d, d = retypeObjects(c, r)
  PROVE  (\E new : Structure(d, new)) /\ Grown(c, destSlots(r), d) /\ Grafted(c, destSlots(r), d)
<1> DEFINE k == c.cap[r.slot]
           top == objectAt(r, r.n)
           f == [k EXCEPT !.free = top - k.ptr]
           e == [c EXCEPT !.cap[r.slot].free = top - k.ptr]
<1>1. /\ c \in Databases /\ r.slot \in used(c) /\ r.slot \in Slots /\ k \in RealCaps /\ k \in UntypedCaps
      /\ c.cap \in [Slots -> Caps] /\ k.type = "untyped" /\ k.ptr \in Nat /\ end(k) \in Nat
      /\ \A x \in used(c) : x \in Slots /\ c.cap[x] \in RealCaps
      /\ BIT(k.bits) \in Nat
  BY DatabaseFields, CapFields DEF Structure, used, Request
<1>2. /\ r.base \in Nat /\ top \in Nat /\ k.ptr <= r.base /\ r.base <= top /\ top <= end(k)
      /\ top - k.ptr \in Nat /\ top - k.ptr <= BIT(k.bits)
  <2>1. r.base \in Nat /\ r.n * BIT(r.bits) \in Nat /\ k.ptr <= r.base /\ r.base + r.n * BIT(r.bits) <= end(k)
    BY BitType DEF Request
  <2> QED BY <1>1, <2>1 DEF objectAt, end
<1> HIDE DEF top
<1>3. d = createNewObjects(e, r, r.base)
  <2>0. top - k.ptr = r.base + r.n * BIT(r.bits) - c.cap[r.slot].ptr
    <3>1. r.base \in Nat /\ r.n * BIT(r.bits) \in Nat /\ k.ptr \in Nat
      BY <1>1, BitType DEF Request
    <3> QED BY <3>1 DEF objectAt, top
  <2>1. e = [c EXCEPT !.cap[r.slot].free = r.base + r.n * BIT(r.bits) - c.cap[r.slot].ptr]
    BY <2>0, Zenon
  <2> HIDE DEF e
  <2> QED BY <2>1 DEF retypeObjects
<1>4. /\ f \in UntypedCaps /\ f.type = "untyped" /\ f.ptr = k.ptr /\ f.bits = k.bits /\ f.free = top - k.ptr
  BY <1>1, <1>2 DEF UntypedCaps
<1>5. e = [c EXCEPT !.cap = [c.cap EXCEPT ![r.slot] = f]]
  BY <1>1 DEF Databases
<1> HIDE DEF f, e
<1>6. f \in RealCaps /\ Proper(f)
  <2>1. Proper(k)
    BY <1>1 DEF Structure, Sized
  <2> QED BY <1>1, <1>2, <1>4, <2>1 DEF RealCaps, Proper, end
<1>7. Replaced(c, r.slot, f, e) /\ e.asserts = c.asserts
  <2>1. [c.cap EXCEPT ![r.slot] = f] \in [Slots -> Caps]
    BY <1>1, <1>6 DEF Caps
  <2> QED BY <1>1, <1>5, <2>1 DEF Replaced, Databases
<1>8. /\ \A x : inside(f, x) <=> inside(k, x)
      /\ end(f) = end(k)
  BY <1>4 DEF inside, end
<1>9. Stands(c, rank, r.slot, f)
  <2>1. ASSUME NEW x \in used(c), rank[r.slot] < rank[x], inside(f, c.cap[x])
        PROVE  end(c.cap[x]) <= f.ptr + f.free
    <3>1. end(c.cap[x]) <= r.base
      BY <1>8, <2>1 DEF Fresh
    <3>2. end(c.cap[x]) \in Nat
      BY <1>1, CapFields
    <3> QED BY <1>1, <1>2, <1>4, <3>1, <3>2
  <2> QED BY <1>1, <1>4, <1>6, <2>1 DEF Stands
<1>10. Structure(e, rank) /\ used(e) = used(c)
  BY <1>1, <1>7, <1>9, ReplacedStructure
<1>11. e.cap[r.slot] = f /\ \A x \in Slots : x # r.slot => e.cap[x] = c.cap[x]
  BY <1>1, <1>7 DEF Replaced
<1>12. Request(e, r)
  <2>1. PICK t \in used(c) : c.cap[t].type = "cnode" /\ destSlots(r) \subseteq region(c.cap[t])
    BY DEF Request
  <2>2. t # r.slot /\ e.cap[t] = c.cap[t] /\ t \in used(e)
    BY <1>1, <1>10, <1>11, <2>1
  <2> QED BY <1>4, <1>8, <1>10, <1>11, <2>1, <2>2 DEF Request
<1>13. Fresh(e, rank, r.slot, r.base)
  <2>1. rank[r.slot] \in Nat
    BY <1>1 DEF Structure, Ordered
  <2> QED BY <1>1, <1>8, <1>10, <1>11, <2>1 DEF Fresh
<1>14. e.cap[r.slot].free = objectAt(r, r.n) - e.cap[r.slot].ptr
  BY <1>4, <1>11 DEF top
<1>15. PICK new : Made(e, r, r.n, d, new)
  BY <1>3, <1>10, <1>12, <1>13, <1>14, MakeAll
<1>16. used(d) = used(c) \cup destSlots(r) /\ d.asserts = c.asserts /\ Structure(d, new)
  BY <1>7, <1>10, <1>15 DEF Made, destSlots
<1>17. \A x \in used(c) : storage(d.cap[x]) = storage(c.cap[x]) /\ d.cap[x].type = c.cap[x].type
  <2>1. storage(f) = storage(k) /\ f.type = k.type
    BY <1>1, <1>4 DEF storage
  <2>2. \A x \in used(c) : d.cap[x] = e.cap[x]
    BY <1>10, <1>15 DEF Made
  <2> QED BY <1>1, <1>11, <2>1, <2>2
<1>18. Grafted(c, destSlots(r), d)
  <2>1. SameTree(c, e)
    BY <1>1, <1>7, <1>9, Keep
  <2>2. \A x \in Slots : parentOf(d, x) = IF x \in destSlots(r) THEN r.slot ELSE parentOf(c, x)
    BY <1>15, <2>1 DEF Made, destSlots, SameTree
  <2>3. destSlots(r) # {} /\ destSlots(r) \subseteq Slots /\ destSlots(r) \cap used(c) = {}
    <3>1. r.dest \in destSlots(r)
      BY DEF destSlots, Request
    <3> QED BY <3>1 DEF Request
  <2> QED BY <1>1, <1>16, <2>2, <2>3 DEF Grafted
<1> QED BY <1>16, <1>17, <1>18 DEF Grown

\* The caps in c are held, and those in the new slots are in objects of c.
LEMMA GrownHeld ==
  ASSUME NEW c, Held(c), NEW S, NEW d, Grown(c, S, d),
         \A x \in S : \E t \in used(c) : x \in storage(c.cap[t])
  PROVE  Held(d)
<1> SUFFICES ASSUME NEW x \in used(d) PROVE \E t \in used(d) : x \in storage(d.cap[t])
  BY DEF Held
<1>1. PICK t \in used(c) : x \in storage(c.cap[t])
  BY DEF Held, Grown
<1> QED BY <1>1 DEF Grown

-----------------------------------------------------------------------------
(* Where objects fit *)

\* The larger of two powers of two is a multiple of the other.
LEMMA Divides ==
  ASSUME NEW a \in Nat, NEW b \in Nat, BIT(a) <= BIT(b)
  PROVE  \E m \in Nat : m >= 1 /\ BIT(b) = m * BIT(a)
<1>1. CASE a <= b
  BY <1>1, BitMultiple
<1>2. CASE b <= a
  <2>1. PICK k \in Nat : k >= 1 /\ BIT(a) = k * BIT(b)
    BY <1>2, BitMultiple
  <2>2. BIT(a) \in Nat /\ BIT(b) \in Nat /\ BIT(b) >= 1
    BY BitType
  <2>3. k * BIT(b) >= BIT(b)
    <3>1. (k - 1) * BIT(b) >= 0 /\ (k - 1) * BIT(b) = k * BIT(b) - BIT(b) /\ k * BIT(b) \in Nat
      BY <2>1, <2>2
    <3> QED BY <2>2, <3>1
  <2>4. BIT(b) = 1 * BIT(a)
    BY <2>1, <2>2, <2>3
  <2> QED BY <2>4
<1> QED BY <1>1, <1>2

\* alignUp rounds up to a multiple.
LEMMA AlignUp ==
  ASSUME NEW x \in Nat, NEW bits \in Nat
  PROVE  /\ alignUp(x, bits) \in Nat /\ x <= alignUp(x, bits) /\ alignUp(x, bits) < x + BIT(bits)
         /\ \E j \in Nat : alignUp(x, bits) = j * BIT(bits)
<1> DEFINE B == BIT(bits)
           y == x + B - 1
           q == y \div B
<1>1. B \in Nat /\ B >= 1
  BY BitType
<1>2. alignUp(x, bits) = B * q
  BY DEF alignUp
<1> HIDE DEF B
<1>3. y \in Nat
  BY <1>1
<1>4. q \in Nat /\ B * q <= y /\ y < B * q + B
  BY <1>1, <1>3, RoundDown
<1>5. B * q \in Nat /\ B * q = q * B
  BY <1>1, <1>4
<1>6. x <= B * q /\ B * q < x + B
  BY <1>1, <1>4, <1>5
<1> QED BY <1>2, <1>4, <1>5, <1>6 DEF B

\* The objects of a request that decodeUntypedInvocation lets through lie in the memory of the
\* untyped, although their base is rounded up.
LEMMA ObjectsFit ==
  ASSUME NEW k \in UntypedCaps, Proper(k), NEW free \in Nat, free <= k.free, NEW bits \in Nat,
         NEW n \in Nat, n >= 1, (BIT(k.bits) - free) \div BIT(bits) >= n
  PROVE  alignUp(k.ptr + free, bits) + n * BIT(bits) <= end(k)
<1> DEFINE B == BIT(bits)
           S == BIT(k.bits)
           base == alignUp(k.ptr + free, bits)
           q == (S - free) \div B
<1>1. k.ptr \in Nat /\ k.bits \in Nat /\ k.free \in Nat /\ k.free <= S
  BY DEF UntypedCaps, Proper
<1>2. B \in Nat /\ B >= 1 /\ S \in Nat /\ S >= 1
  BY <1>1, BitType
<1>3. PICK i \in Nat : k.ptr = i * S
  BY DEF UntypedCaps, Proper
<1>4. base \in Nat /\ base < k.ptr + free + B /\ \E j \in Nat : base = j * B
  <2>1. k.ptr + free \in Nat
    BY <1>1
  <2> QED BY <2>1, AlignUp
<1>5. PICK j \in Nat : base = j * B
  BY <1>4
<1>6. S - free \in Nat
  BY <1>1, <1>2
<1> HIDE DEF base
<1>7. q \in Nat /\ q >= n /\ B * q <= S - free
  <2> HIDE DEF B, S
  <2>1. q \in Nat /\ B * q <= S - free
    BY <1>2, <1>6, RoundDown
  <2> QED BY <2>1 DEF B, S
<1> HIDE DEF q, B, S
<1>8. n * B <= S - free /\ n * B >= B /\ n * B \in Nat
  <2>1. (q - n) * B >= 0 /\ (q - n) * B = B * q - n * B /\ B * q \in Nat /\ n * B \in Nat
    BY <1>2, <1>7
  <2>2. (n - 1) * B >= 0 /\ (n - 1) * B = n * B - B
    BY <1>2
  <2> QED BY <1>2, <1>6, <1>7, <2>1, <2>2
<1>9. B <= S
  BY <1>1, <1>2, <1>8
<1>10. PICK m \in Nat : S = m * B
  BY <1>1, <1>9, Divides DEF B, S
<1>11. k.ptr + S = (i * m + m) * B /\ base + n * B = (j + n) * B /\ i * m + m \in Nat /\ j + n \in Nat
  <2>1. i * m \in Nat /\ i * (m * B) = (i * m) * B
    BY <1>2
  <2>2. (i * m + m) * B = (i * m) * B + m * B
    BY <1>2, <2>1
  <2>3. (j + n) * B = j * B + n * B
    BY <1>2
  <2> QED BY <1>3, <1>5, <1>10, <2>1, <2>2, <2>3
<1>12. base + n * B < (k.ptr + S) + B
  BY <1>1, <1>2, <1>4, <1>8
<1>13. (j + n) * B < (i * m + m) * B + B
  BY <1>11, <1>12
<1>14. (j + n) * B <= (i * m + m) * B
  BY <1>2, <1>11, <1>13, Multiples
<1>15. base + n * B <= k.ptr + S
  BY <1>11, <1>14
<1> QED BY <1>15 DEF base, B, S, end

\* The chunks that resetUntypedCap clears lie in the memory of the untyped.
LEMMA ChunkFits ==
  ASSUME NEW bits \in Nat, NEW free \in Nat, free >= 1, free <= BIT(bits), ResetChunk <= BIT(bits)
  PROVE  /\ ResetChunk * ((free - 1) \div ResetChunk) \in Nat
         /\ ResetChunk * ((free - 1) \div ResetChunk) <= free
         /\ ResetChunk * ((free - 1) \div ResetChunk) + ResetChunk <= BIT(bits)
<1> DEFINE R == ResetChunk
           S == BIT(bits)
           q == (free - 1) \div R
<1>1. PICK b \in Nat : R = BIT(b)
  BY MemoryMap
<1>2. R \in Nat /\ R >= 1 /\ S \in Nat
  BY <1>1, BitType
<1>3. PICK m \in Nat : S = m * R
  BY <1>1, Divides
<1>4. q \in Nat /\ R * q <= free - 1
  <2> HIDE DEF R
  <2>1. free - 1 \in Nat
    OBVIOUS
  <2> QED BY <1>2, <2>1, RoundDown
<1> HIDE DEF q, R, S
<1>5. R * q \in Nat /\ (q + 1) * R = R * q + R
  BY <1>2, <1>4
<1>6. (q + 1) * R < m * R + R
  BY <1>2, <1>3, <1>4, <1>5 DEF S
<1>7. (q + 1) * R <= m * R
  BY <1>2, <1>4, <1>6, Multiples
<1> QED BY <1>2, <1>3, <1>4, <1>5, <1>7 DEF q, R, S

-----------------------------------------------------------------------------
(* Resetting an untyped *)

\* A slot that a cap leads to lies in the memory the cap names.
LEMMA StorageRegion ==
  ASSUME NEW k \in RealCaps, Proper(k), NEW x \in storage(k)
  PROVE  /\ x \in Nat /\ k.ptr <= x /\ x < end(k)
         /\ k.type \in {"cnode", "thread", "zombie"}
<1>1. k.ptr \in Nat /\ BIT(k.bits) \in Nat
  BY CapFields
<1>2. k.type \in {"cnode", "thread", "zombie"}
  BY DEF storage
<1>3. CASE k.type \in {"cnode", "thread"}
  BY <1>1, <1>3 DEF storage, region, end
<1>4. CASE k.type = "zombie"
  <2>1. k.num \in Nat /\ k.num <= BIT(k.bits)
    BY <1>4, CapFields DEF ZombieCaps, Proper
  <2> QED BY <1>1, <1>4, <2>1 DEF storage, end
<1> QED BY <1>2, <1>3, <1>4

\* The memory of an untyped from which nothing has been made holds no cap.
LEMMA UnusedMemory ==
  ASSUME NEW c, NEW rank, Structure(c, rank), Held(c), NEW u \in used(c), c.cap[u].type = "untyped",
         Fresh(c, rank, u, c.cap[u].ptr), NEW x \in used(c)
  PROVE  ~(c.cap[u].ptr <= x /\ x < end(c.cap[u]))
<1> SUFFICES ASSUME c.cap[u].ptr <= x, x < end(c.cap[u]) PROVE FALSE
  OBVIOUS
<1>1. PICK t \in used(c) : x \in storage(c.cap[t])
  BY DEF Held
<1>2. c.cap[t] \in RealCaps /\ c.cap[u] \in RealCaps /\ Proper(c.cap[t])
  BY DatabaseFields DEF Structure, Sized
<1>3. x \in Nat /\ c.cap[t].ptr <= x /\ x < end(c.cap[t]) /\ c.cap[t].type \in {"cnode", "thread", "zombie"}
  BY <1>1, <1>2, StorageRegion
<1>4. /\ c.cap[t].ptr \in Nat /\ end(c.cap[t]) \in Nat /\ c.cap[u].ptr \in Nat /\ end(c.cap[u]) \in Nat
      /\ c.cap[t].ptr < end(c.cap[t])
  BY <1>2, CapFields
<1>5. t # u /\ meets(c.cap[u], c.cap[t])
  BY <1>3, <1>4 DEF meets
<1>6. Kin(c.cap[u], c.cap[t]) \/ Kin(c.cap[t], c.cap[u])
  BY <1>5 DEF Structure, Nested
<1>7. inside(c.cap[u], c.cap[t])
  BY <1>3, <1>6 DEF Kin, Objects
<1>8. rank[u] < rank[t]
  BY <1>3, <1>5, <1>7 DEF Structure, Covered
<1>9. end(c.cap[t]) <= c.cap[u].ptr /\ c.cap[u].ptr <= c.cap[t].ptr
  BY <1>7, <1>8 DEF Fresh, inside
<1> QED BY <1>4, <1>9

\* Clearing slots that are not in use changes nothing.
LEMMA ClearUnused ==
  ASSUME NEW c, NEW rank, Structure(c, rank), NEW S, \A x \in S : x \notin used(c)
  PROVE  clearSlots(c, S) = c
<1>1. c \in Databases
  BY DEF Structure
<1>2. /\ c.cap \in [Slots -> Caps] /\ c.next \in [Slots -> Links] /\ c.prev \in [Slots -> Links]
      /\ c.revocable \subseteq Slots /\ c.firstBadged \subseteq Slots
  BY <1>1, DatabaseFields
<1>3. \A x \in Slots : x \in S => c.cap[x] = NullCap /\ c.next[x] = Null /\ c.prev[x] = Null
                                  /\ x \notin c.revocable /\ x \notin c.firstBadged
  BY Unused DEF Structure, Linked
<1>4. /\ [s \in Slots |-> IF s \in S THEN NullCap ELSE c.cap[s]] = c.cap
      /\ [s \in Slots |-> IF s \in S THEN Null ELSE c.next[s]] = c.next
      /\ [s \in Slots |-> IF s \in S THEN Null ELSE c.prev[s]] = c.prev
  BY <1>2, <1>3
<1>5. c.revocable \ S = c.revocable /\ c.firstBadged \ S = c.firstBadged
  BY <1>2, <1>3
<1>6. clearSlots(c, S) = [c EXCEPT !.cap = c.cap, !.next = c.next, !.prev = c.prev,
                                   !.revocable = c.revocable, !.firstBadged = c.firstBadged]
  BY <1>1, <1>4, <1>5 DEF clearSlots, Databases
<1> QED BY <1>1, <1>6 DEF Databases

\* d is c with another free index in the untyped u, from which nothing has been made.
Reset(c, rank, u, d) ==
  /\ Structure(d, rank) /\ used(d) = used(c) /\ SameTree(c, d) /\ Held(d) /\ d.asserts = c.asserts
  /\ Fresh(d, rank, u, c.cap[u].ptr)
  /\ \A x \in Slots \ {u} : d.cap[x] = c.cap[x]
  /\ d.cap[u].type = "untyped" /\ d.cap[u].ptr = c.cap[u].ptr /\ d.cap[u].bits = c.cap[u].bits

\* A step of resetUntypedCap.
LEMMA ResetStructure ==
  ASSUME NEW c, NEW rank, Structure(c, rank), Held(c), NEW u \in used(c), c.cap[u].type = "untyped",
         Fresh(c, rank, u, c.cap[u].ptr), NEW v \in Nat, v <= c.cap[u].free,
         NEW S, \A x \in S : x \in Nat /\ c.cap[u].ptr <= x /\ x < end(c.cap[u])
  PROVE  Reset(c, rank, u, [clearSlots(c, S) EXCEPT !.cap[u].free = v])
<1> DEFINE d == [clearSlots(c, S) EXCEPT !.cap[u].free = v]
           k == c.cap[u]
           f == [k EXCEPT !.free = v]
<1>1. /\ c \in Databases /\ u \in Slots /\ k \in RealCaps /\ k \in UntypedCaps /\ k.ptr \in Nat /\ k.free \in Nat
      /\ c.cap \in [Slots -> Caps] /\ BIT(k.bits) \in Nat
      /\ \A x \in used(c) : x \in Slots /\ c.cap[x] \in RealCaps
  BY DatabaseFields, CapFields DEF Structure, used, UntypedCaps
<1>2. \A x \in S : x \notin used(c)
  BY UnusedMemory
<1>3. d = [c EXCEPT !.cap[u].free = v]
  BY <1>2, ClearUnused
<1>4. f \in UntypedCaps /\ f.type = "untyped" /\ f.ptr = k.ptr /\ f.bits = k.bits /\ f.free = v
  BY <1>1 DEF UntypedCaps
<1>5. d = [c EXCEPT !.cap = [c.cap EXCEPT ![u] = f]]
  BY <1>1, <1>3 DEF Databases
<1> HIDE DEF f, d
<1>6. f \in RealCaps /\ Proper(f)
  <2>1. Proper(k)
    BY <1>1 DEF Structure, Sized
  <2>2. v <= BIT(k.bits)
    BY <1>1, <2>1 DEF Proper
  <2> QED BY <1>1, <1>4, <2>1, <2>2 DEF RealCaps, Proper, end
<1>7. Replaced(c, u, f, d) /\ d.asserts = c.asserts
  <2>1. [c.cap EXCEPT ![u] = f] \in [Slots -> Caps]
    BY <1>1, <1>6 DEF Caps
  <2> QED BY <1>1, <1>5, <2>1 DEF Replaced, Databases
<1>8. /\ \A x : inside(f, x) <=> inside(k, x)
      /\ end(f) = end(k)
  BY <1>4 DEF inside, end
<1>9. ASSUME NEW x \in used(c), rank[u] < rank[x], inside(k, c.cap[x]) PROVE FALSE
  <2>1. end(c.cap[x]) <= k.ptr /\ k.ptr <= c.cap[x].ptr
    BY <1>9 DEF Fresh, inside
  <2>2. c.cap[x].ptr \in Nat /\ end(c.cap[x]) \in Nat /\ c.cap[x].ptr < end(c.cap[x])
    BY <1>1, CapFields
  <2> QED BY <1>1, <2>1, <2>2
<1>10. Stands(c, rank, u, f)
  BY <1>1, <1>4, <1>6, <1>8, <1>9 DEF Stands
<1>11. Structure(d, rank) /\ used(d) = used(c)
  BY <1>7, <1>10, ReplacedStructure
<1>12. d.cap[u] = f /\ \A x \in Slots : x # u => d.cap[x] = c.cap[x]
  BY <1>1, <1>7 DEF Replaced
<1>13. Fresh(d, rank, u, k.ptr)
  <2>1. rank[u] \in Nat
    BY <1>1 DEF Structure, Ordered
  <2> QED BY <1>1, <1>8, <1>9, <1>11, <1>12, <2>1 DEF Fresh
<1>14. Held(d)
  <2>1. storage(f) = storage(k)
    BY <1>1, <1>4 DEF storage
  <2>2. \A x \in used(c) : storage(d.cap[x]) = storage(c.cap[x])
    BY <1>1, <1>12, <2>1
  <2> QED BY <1>11, <2>2 DEF Held
<1>15. SameTree(c, d)
  BY <1>7, <1>10, Keep
<1>16. Reset(c, rank, u, d)
  BY <1>4, <1>7, <1>11, <1>12, <1>13, <1>14, <1>15 DEF Reset
<1> QED BY <1>16 DEF d

-----------------------------------------------------------------------------
(* Deleting caps *)

\* The neighbours of a cap to an object tell whether another cap names the object.
LEMMA Final ==
  ASSUME NEW c, NEW rank, Structure(c, rank), NEW s \in used(c), c.cap[s].type \in Objects
  PROVE  isFinalCapability(c, s) <=> \A t \in used(c) \ {s} : ~Kin(c.cap[s], c.cap[t])
<1> DEFINE k == c.cap[s]
           n == c.next[s]
           p == c.prev[s]
<1>1. /\ c \in Databases /\ s \in Slots /\ k.type # "untyped"
      /\ \A x \in used(c) : x \in Slots /\ c.cap[x] \in RealCaps /\ rank[x] \in Nat
  BY DatabaseFields DEF Structure, Ordered, used, Objects
<1>2. /\ n # Null => n \in used(c) /\ n # s
      /\ p # Null => p \in used(c) /\ p # s /\ c.next[p] = s
  BY <1>1, NoLoops DEF Structure, Linked
<1>3. \A x, y \in used(c) : x # y => rank[x] # rank[y]
  BY DEF Structure, Ordered
<1>4. /\ \A x \in used(c) : sameObjectAs(c.cap[x], k) => Kin(c.cap[x], k) /\ c.cap[x].type # "untyped"
      /\ \A x \in used(c) : Kin(k, c.cap[x]) => sameObjectAs(k, c.cap[x])
      /\ \A x \in used(c) : sameObjectAs(k, c.cap[x]) => Kin(k, c.cap[x])
      /\ \A x \in used(c) : Kin(c.cap[x], k) /\ c.cap[x].type # "untyped" => sameObjectAs(c.cap[x], k)
  BY <1>1, SameRegion
<1>5. ASSUME \A t \in used(c) \ {s} : ~Kin(k, c.cap[t]) PROVE isFinalCapability(c, s)
  <2>1. ASSUME p # Null, sameObjectAs(c.cap[p], k) PROVE FALSE
    <3>1. Kin(k, c.cap[p])
      BY <1>1, <1>2, <1>4, <2>1, KinSym
    <3> QED BY <1>2, <1>5, <2>1, <3>1
  <2>2. ASSUME n # Null, sameObjectAs(k, c.cap[n]) PROVE FALSE
    BY <1>2, <1>4, <1>5, <2>2
  <2> QED BY <2>1, <2>2 DEF isFinalCapability
<1>6. ASSUME isFinalCapability(c, s), NEW t \in used(c) \ {s}, Kin(k, c.cap[t]) PROVE FALSE
  <2>0. /\ p # Null => ~sameObjectAs(c.cap[p], k)
        /\ n # Null => ~sameObjectAs(k, c.cap[n])
    BY <1>6 DEF isFinalCapability
  <2>1. CASE rank[s] < rank[t]
    <3>1. n # Null
      BY <1>1, <1>6, <2>1 DEF Structure, Chained
    <3>2. rank[s] < rank[n] /\ ~(rank[t] < rank[n])
      BY <2>1, <3>1 DEF Structure, Ordered
    <3>3. Kin(k, c.cap[n])
      BY <1>1, <1>2, <1>6, <2>1, <3>1, <3>2 DEF Structure, Chained
    <3> QED BY <1>2, <1>4, <2>0, <3>1, <3>3
  <2>2. CASE rank[t] < rank[s]
    <3>1. Kin(c.cap[t], k) /\ c.cap[t].type = k.type /\ c.cap[t].type # "untyped"
      BY <1>1, <1>6, KinSym
    <3>2. p # Null
      BY <1>1, <2>2, <3>1 DEF Structure, Chained
    <3>3. rank[p] < rank[s] /\ ~(rank[p] < rank[t] /\ rank[t] < rank[s])
      BY <1>1, <1>2, <3>2, MemoryMap DEF Structure, Ordered
    <3>4. CASE t = p
      BY <1>4, <2>0, <3>1, <3>2, <3>4
    <3>5. CASE t # p
      <4>1. rank[t] < rank[p]
        BY <1>1, <1>2, <1>3, <2>2, <3>2, <3>3, <3>5
      <4>2. Kin(c.cap[t], c.cap[p])
        BY <1>1, <1>2, <2>2, <3>1, <3>2, <3>3, <4>1 DEF Structure, Chained
      <4>3. Kin(c.cap[p], c.cap[t]) /\ c.cap[p].type = c.cap[t].type
        BY <1>1, <1>2, <3>1, <3>2, <4>2, KinSym
      <4>4. Kin(c.cap[p], k)
        BY <1>1, <1>2, <3>1, <3>2, <4>3, KinTrans
      <4> QED BY <1>2, <1>4, <2>0, <3>1, <3>2, <4>3, <4>4
    <3> QED BY <3>4, <3>5
  <2> QED BY <1>1, <1>3, <1>6, <2>1, <2>2
<1> QED BY <1>5, <1>6

\* A zombie always counts as the last cap to its object.
LEMMA ZombieFinal ==
  ASSUME NEW c, NEW s, c.cap[s].type = "zombie"
  PROVE  isFinalCapability(c, s)
BY DEF isFinalCapability, sameObjectAs, sameRegionAs

\* z is what finaliseCap leaves of an object that cannot be deleted in one step.
Remains(c, rank, s, z) ==
  /\ z \in ZombieCaps /\ z.type = "zombie" /\ z.num >= 1 /\ ~(z.num = 1 /\ z.ptr = s)
  /\ Stands(c, rank, s, z)
  /\ storage(z) = storage(c.cap[s])
  /\ c.cap[s].type \in {"cnode", "thread", "zombie"}
  /\ c.cap[s].type = "zombie" => z = c.cap[s]

\* finaliseCap turns the last cap to a CNode or a TCB into a zombie.
LEMMA FinaliseRemains ==
  ASSUME NEW c, NEW rank, Structure(c, rank), NEW s \in used(c), ~capRemovable(finaliseCap(c, s), s)
  PROVE  Remains(c, rank, s, finaliseCap(c, s))
<1> DEFINE k == c.cap[s]
           z == finaliseCap(c, s)
<1>1. /\ k \in RealCaps /\ k.ptr \in Nat /\ k.bits \in Nat /\ BIT(k.bits) \in Nat /\ BIT(k.bits) >= 1
      /\ Proper(k) /\ s \in Slots
  BY DatabaseFields, CapFields DEF Structure, Sized, used
<1>2. NullCap.type = "null"
  BY DEF NullCap
<1>3. z.type = "zombie" /\ z.num # 0 /\ ~(z.num = 1 /\ z.ptr = s)
  BY DEF capRemovable
<1>4. CASE k.type = "cnode" /\ isFinalCapability(c, s)
  <2>1. z = [type |-> "zombie", ptr |-> k.ptr, bits |-> k.bits, num |-> BIT(k.bits), ztype |-> "cnode"]
    BY <1>4 DEF finaliseCap, Zombie_new
  <2> HIDE DEF z
  <2>2. z \in ZombieCaps /\ z.ptr = k.ptr /\ z.bits = k.bits /\ z.num = BIT(k.bits)
    BY <1>1, <2>1 DEF ZombieCaps
  <2>3. \A t \in used(c) \ {s} : ~Kin(k, c.cap[t])
    BY <1>4, Final DEF Objects
  <2>4. z \in RealCaps /\ Proper(z)
    BY <1>1, <1>3, <2>2 DEF RealCaps, Proper, end
  <2>5. Stands(c, rank, s, z)
    BY <1>3, <1>4, <2>2, <2>3, <2>4 DEF Stands
  <2>6. storage(z) = storage(k)
    BY <1>3, <1>4, <2>2 DEF storage, region
  <2> QED BY <1>1, <1>3, <1>4, <2>2, <2>5, <2>6 DEF Remains, z
<1>5. CASE k.type = "thread" /\ isFinalCapability(c, s)
  <2>1. z = [type |-> "zombie", ptr |-> k.ptr, bits |-> 0, num |-> 1, ztype |-> "tcb"]
    BY <1>5 DEF finaliseCap, Zombie_new
  <2> HIDE DEF z
  <2>2. k.bits = 0
    BY <1>1, <1>5, CapFields DEF ThreadCaps
  <2>3. z \in ZombieCaps /\ z.ptr = k.ptr /\ z.bits = k.bits /\ z.num = 1
    BY <1>1, <2>1, <2>2 DEF ZombieCaps
  <2>4. \A t \in used(c) \ {s} : ~Kin(k, c.cap[t])
    BY <1>5, Final DEF Objects
  <2>5. z \in RealCaps /\ Proper(z)
    BY <1>1, <1>3, <2>3 DEF RealCaps, Proper, end
  <2>6. Stands(c, rank, s, z)
    BY <1>3, <1>5, <2>3, <2>4, <2>5 DEF Stands
  <2>7. BIT(0) = 1
    <3>1. PICK f : Powers(0, f) /\ BIT(0) = f[0]
      BY BitPowers
    <3> QED BY <3>1 DEF Powers
  <2>8. storage(z) = storage(k)
    BY <1>3, <1>5, <2>2, <2>3, <2>7 DEF storage, region
  <2> QED BY <1>1, <1>3, <1>5, <2>3, <2>6, <2>8 DEF Remains, z
<1>6. CASE k.type = "zombie"
  <2>1. z = k
    BY <1>6 DEF finaliseCap
  <2> HIDE DEF z
  <2>2. k \in ZombieCaps /\ k.num \in Nat
    BY <1>1, <1>6, CapFields DEF ZombieCaps
  <2>3. Stands(c, rank, s, z)
    BY <1>1, <1>6, <2>1 DEF Stands, Kin, Objects
  <2> QED BY <1>1, <1>3, <1>6, <2>1, <2>2, <2>3 DEF Remains, z
<1>7. CASE ~(k.type = "cnode" /\ isFinalCapability(c, s)) /\ ~(k.type = "thread" /\ isFinalCapability(c, s)) /\ k.type # "zombie"
  <2>1. z = NullCap
    BY <1>7 DEF finaliseCap
  <2> QED BY <1>2, <1>3, <2>1
<1> QED BY <1>4, <1>5, <1>6, <1>7

\* The cap in slot s is not needed to hold another.
Spare(c, s) ==
  \A x \in storage(c.cap[s]) : x = s \/ \E t \in used(c) \ {s} : x \in storage(c.cap[t])

\* A cap that finaliseCap lets go is not needed.
LEMMA FinaliseSpare ==
  ASSUME NEW c, NEW rank, Structure(c, rank), NEW s \in used(c), capRemovable(finaliseCap(c, s), s)
  PROVE  Spare(c, s)
<1> DEFINE k == c.cap[s]
           z == finaliseCap(c, s)
<1>1. /\ k \in RealCaps /\ k.ptr \in Nat /\ BIT(k.bits) \in Nat /\ BIT(k.bits) >= 1
      /\ k.type \in {"untyped", "endpoint", "thread", "cnode", "zombie"}
      /\ \A x \in used(c) : c.cap[x] \in RealCaps
  BY DatabaseFields, CapFields DEF Structure
<1>2. CASE k.type \in {"untyped", "endpoint"}
  BY <1>2 DEF Spare, storage
<1>3. CASE k.type = "zombie"
  <2>1. z = k
    BY <1>3 DEF finaliseCap
  <2>2. k.num = 0 \/ (k.num = 1 /\ k.ptr = s)
    BY <1>3, <2>1 DEF capRemovable
  <2>3. storage(k) = k.ptr .. k.ptr + k.num - 1
    BY <1>3 DEF storage
  <2>4. \A x \in storage(k) : x = s
    BY <1>1, <2>2, <2>3
  <2> QED BY <2>4 DEF Spare
<1>4. CASE k.type \in {"cnode", "thread"} /\ isFinalCapability(c, s)
  <2>1. z.type = "zombie" /\ z.ptr = k.ptr /\ z.num = IF k.type = "cnode" THEN BIT(k.bits) ELSE 1
    BY <1>4 DEF finaliseCap, Zombie_new
  <2>2. z.num = 1 /\ z.ptr = s
    BY <1>1, <1>4, <2>1 DEF capRemovable
  <2>3. BIT(k.bits) = 1
    <3>1. CASE k.type = "cnode"
      BY <2>1, <2>2, <3>1
    <3>2. CASE k.type = "thread"
      <4>1. k.bits = 0
        BY <1>1, <3>2, CapFields DEF ThreadCaps
      <4>2. PICK f : Powers(0, f) /\ BIT(0) = f[0]
        BY BitPowers
      <4> QED BY <4>1, <4>2 DEF Powers
    <3> QED BY <1>4, <3>1, <3>2
  <2>4. \A x \in storage(k) : x = s
    BY <1>1, <1>4, <2>1, <2>2, <2>3 DEF storage, region
  <2> QED BY <2>4 DEF Spare
<1>5. CASE k.type \in {"cnode", "thread"} /\ ~isFinalCapability(c, s)
  <2>1. PICK t \in used(c) \ {s} : Kin(k, c.cap[t])
    BY <1>5, Final DEF Objects
  <2>2. c.cap[t].type = k.type /\ c.cap[t].ptr = k.ptr /\ c.cap[t].bits = k.bits
    BY <1>5, <2>1 DEF Kin
  <2>3. storage(c.cap[t]) = storage(k)
    BY <1>5, <2>2 DEF storage, region
  <2> QED BY <2>3 DEF Spare
<1> QED BY <1>1, <1>2, <1>3, <1>4, <1>5

\* Taking out a cap that is not needed leaves the others held.
LEMMA UnlinkedHeld ==
  ASSUME NEW c, Held(c), NEW s, Spare(c, s), NEW d, Unlinked(c, s, d)
  PROVE  Held(d)
<1> SUFFICES ASSUME NEW x \in used(d) PROVE \E t \in used(d) : x \in storage(d.cap[t])
  BY DEF Held
<1>1. used(d) = used(c) \ {s} /\ \A t \in used(d) : d.cap[t] = c.cap[t]
  BY DEF Unlinked, used
<1>2. x \in used(c) /\ x # s
  BY <1>1
<1>3. PICK t \in used(c) : x \in storage(c.cap[t])
  BY <1>2 DEF Held
<1>4. CASE t # s
  BY <1>1, <1>3, <1>4
<1>5. CASE t = s
  <2>1. PICK t2 \in used(c) \ {s} : x \in storage(c.cap[t2])
    BY <1>2, <1>3, <1>5 DEF Spare
  <2> QED BY <1>1, <2>1
<1> QED BY <1>4, <1>5

\* Caps that change places between slots of objects stay held.
LEMMA FlippedHeld ==
  ASSUME NEW c, Held(c), NEW a \in Slots, NEW b \in Slots, NEW d, Flipped(c, a, b, d),
         \A x \in {a, b} : \E t \in used(c) : x \in storage(c.cap[t])
  PROVE  Held(d)
<1> SUFFICES ASSUME NEW x \in used(d) PROVE \E t \in used(d) : x \in storage(d.cap[t])
  BY DEF Held
<1>1. \A t \in Slots : flip(a, b, t) \in Slots /\ flip(a, b, flip(a, b, t)) = t
  BY DEF flip
<1>2. \A t \in Slots : d.cap[t] = c.cap[flip(a, b, t)]
  BY DEF Flipped
<1>3. \A t \in Slots : t \in used(d) <=> flip(a, b, t) \in used(c)
  BY <1>1, <1>2 DEF used
<1>4. \E t \in used(c) : x \in storage(c.cap[t])
  <2>1. CASE x \in {a, b}
    BY <2>1
  <2>2. CASE x \notin {a, b}
    <3>1. x \in used(c)
      BY <1>3, <2>2 DEF flip, used
    <3> QED BY <3>1 DEF Held
  <2> QED BY <2>1, <2>2
<1>5. PICK t \in used(c) : x \in storage(c.cap[t])
  BY <1>4
<1>6. t \in Slots
  BY DEF used
<1>7. flip(a, b, t) \in used(d) /\ d.cap[flip(a, b, t)] = c.cap[t]
  BY <1>1, <1>2, <1>3, <1>6
<1> QED BY <1>5, <1>7

-----------------------------------------------------------------------------
(* The slots that user programs name *)

\* The slots of the CNodes that caps name.
named(c) == {s \in Slots : \E t \in used(c) : c.cap[t].type = "cnode" /\ s \in region(c.cap[t])}

\* The slots of a CNode are slots, and a cap to it leads to them.
LEMMA CNodeRegion ==
  ASSUME NEW c, NEW rank, Structure(c, rank), NEW t \in Slots, c.cap[t].type = "cnode"
  PROVE  /\ t \in used(c) /\ region(c.cap[t]) \subseteq Slots /\ storage(c.cap[t]) = region(c.cap[t])
         /\ region(c.cap[t]) \subseteq named(c)
<1>1. t \in used(c)
  BY DEF used
<1>2. c.cap[t] \in RealCaps /\ Proper(c.cap[t])
  BY <1>1, DatabaseFields DEF Structure, Sized
<1>3. c.cap[t].ptr \in Nat /\ BIT(c.cap[t].bits) \in Nat
  BY <1>2, CapFields
<1>4. region(c.cap[t]) \subseteq Slots
  BY <1>2, <1>3 DEF region, Proper, end
<1>5. storage(c.cap[t]) = region(c.cap[t])
  BY DEF storage
<1> QED BY <1>1, <1>4, <1>5 DEF named

\* A path of CNodes leads to slots of CNodes.
LEMMA Reach ==
  ASSUME NEW c, NEW rank, Structure(c, rank)
  PROVE  reach(c) \subseteq named(c)
<1> DEFINE N == UntypedSize
           X == SUBSET named(c)
           z == cnodeSlots(c, liveTCBs(c))
           step(S) == S \cup cnodeSlots(c, S)
           F == [q \in (1 .. N) \X X |-> step(q[2])]
           rhs(f) == [n \in 0 .. N |-> IF n = 0 THEN z ELSE step(f[n - 1])]
           r == CHOOSE f : f = rhs(f)
<1>1. N \in Nat
  BY MemoryMap, BitType DEF UntypedSize
<1>2. \A S : S \subseteq Slots => cnodeSlots(c, S) \subseteq named(c)
  BY CNodeRegion DEF cnodeSlots
<1>3. z \in X /\ \A S \in X : step(S) \in X
  <2>1. liveTCBs(c) \subseteq Slots /\ named(c) \subseteq Slots
    BY DEF liveTCBs, named
  <2> QED BY <1>2, <2>1
<1> HIDE DEF z, step, X
<1>4. F \in [(1 .. N) \X X -> X] /\ \A n \in 1 .. N : \A S \in X : F[<<n, S>>] = step(S)
  BY <1>3
<1> HIDE DEF F
<1>5. PICK g \in [0 .. N -> X] : Recursion(N, F, z, g)
  BY <1>1, <1>3, <1>4, Iterates
<1>6. g = rhs(g)
  <2>1. \A n \in 0 .. N : n # 0 => n \in 1 .. N /\ n - 1 \in 0 .. N
    BY <1>1
  <2>2. \A n \in 0 .. N : n # 0 => F[<<n, g[n - 1]>>] = step(g[n - 1])
    BY <2>1, <1>4
  <2> QED BY <1>5, <2>2 DEF Recursion
<1>7. r = rhs(r)
  <2> HIDE DEF rhs
  <2> QED BY <1>6
<1>8. reach(c) = r[N]
  BY DEF reach, step, z
<1> HIDE DEF r
<1>9. \A n \in 0 .. N : r[n] = IF n = 0 THEN z ELSE step(r[n - 1])
  BY <1>7
<1> DEFINE G == {n \in Nat : r[n] \in X}
<1>10. 0 \in G
  BY <1>1, <1>3, <1>9
<1>11. ASSUME NEW n \in 1 .. N, n - 1 \in G PROVE n \in G
  <2>1. n \in 0 .. N /\ n # 0 /\ n \in Nat
    BY <1>1
  <2>2. r[n] = step(r[n - 1]) /\ r[n - 1] \in X
    BY <1>9, <1>11, <2>1
  <2> QED BY <1>3, <2>1, <2>2
<1>12. N \in G
  <2> HIDE DEF G
  <2>1. N \in 0 .. N
    BY <1>1
  <2> QED BY <1>1, <1>10, <1>11, <2>1, UpTo
<1> QED BY <1>8, <1>12 DEF X

-----------------------------------------------------------------------------
(* The operations of one step keep the structure *)

Holds(c, x) == \E t \in used(c) : x \in storage(c.cap[t])

Sound(c, rank) == Structure(c, rank) /\ Held(c) /\ c.asserts

\* The slots of CNodes are held.
LEMMA NamedHolds ==
  ASSUME NEW c, NEW rank, Structure(c, rank), NEW x \in named(c)
  PROVE  Holds(c, x) /\ x \in Slots
<1>1. x \in Slots /\ \E t \in used(c) : c.cap[t].type = "cnode" /\ x \in region(c.cap[t])
  BY DEF named
<1>2. PICK t \in used(c) : c.cap[t].type = "cnode" /\ x \in region(c.cap[t])
  BY <1>1
<1>3. t \in Slots
  BY DEF used
<1>4. storage(c.cap[t]) = region(c.cap[t])
  BY <1>2, <1>3, CNodeRegion
<1> QED BY <1>1, <1>2, <1>4 DEF Holds

\* cteInsert of a copy into an empty slot of an object.
LEMMA CopyStep ==
  ASSUME NEW c, NEW rank, Sound(c, rank), NEW src \in used(c), NEW dest \in Slots, dest \notin used(c),
         Holds(c, dest), NEW cap, Copies(c, src, cap), NEW d, d = cteInsert(c, cap, src, dest)
  PROVE  (\E new : Sound(d, new)) /\ Grafted(c, {dest}, d)
<1>1. Structure(c, rank) /\ Held(c) /\ c.asserts
  BY DEF Sound
<1>2. Structure(d, behind(rank, src, dest)) /\ Grown(c, {dest}, d) /\ Grafted(c, {dest}, d)
  BY <1>1, InsertCopy
<1>3. \A x \in {dest} : \E t \in used(c) : x \in storage(c.cap[t])
  BY DEF Holds
<1>4. Held(d)
  BY <1>1, <1>2, <1>3, GrownHeld
<1>5. d.asserts
  BY <1>1, <1>2 DEF Grown
<1> QED BY <1>2, <1>4, <1>5 DEF Sound

\* Two slots of objects change places.
LEMMA FlipStep ==
  ASSUME NEW c, NEW rank, Sound(c, rank), NEW a \in Slots, NEW b \in Slots, Holds(c, a), Holds(c, b),
         NEW d, Flipped(c, a, b, d), d.asserts = c.asserts
  PROVE  Sound(d, [s \in Slots |-> rank[flip(a, b, s)]])
<1>1. Structure(c, rank) /\ Held(c) /\ c.asserts
  BY DEF Sound
<1>2. Structure(d, [s \in Slots |-> rank[flip(a, b, s)]])
  BY <1>1, FlippedStructure
<1>3. \A x \in {a, b} : \E t \in used(c) : x \in storage(c.cap[t])
  BY DEF Holds
<1>4. Held(d)
  BY <1>1, <1>3, FlippedHeld
<1> QED BY <1>1, <1>2, <1>4 DEF Sound

\* What is held stays held when two slots change places.
LEMMA FlipHolds ==
  ASSUME NEW c, NEW a \in Slots, NEW b \in Slots, NEW d, Flipped(c, a, b, d), NEW x, Holds(c, x)
  PROVE  Holds(d, x)
<1>1. PICK t \in used(c) : x \in storage(c.cap[t])
  BY DEF Holds
<1>2. t \in Slots /\ flip(a, b, t) \in Slots /\ flip(a, b, flip(a, b, t)) = t
  BY DEF flip, used
<1>3. d.cap[flip(a, b, t)] = c.cap[t]
  BY <1>2 DEF Flipped
<1>4. flip(a, b, t) \in used(d)
  BY <1>2, <1>3 DEF used
<1> QED BY <1>1, <1>3, <1>4 DEF Holds

\* cteMove into an empty slot.
LEMMA MoveStep ==
  ASSUME NEW c, NEW rank, Sound(c, rank), NEW a \in Slots, NEW b \in Slots, a # b, b \notin used(c),
         Holds(c, a), Holds(c, b), NEW d, d = cteMove(c, c.cap[a], a, b)
  PROVE  /\ Sound(d, [s \in Slots |-> rank[flip(a, b, s)]])
         /\ Flipped(c, a, b, d) /\ Exchanged(c, a, b, d)
<1>1. Structure(c, rank)
  BY DEF Sound
<1>2. Flipped(c, a, b, d) /\ d.asserts = c.asserts
  BY <1>1, MoveFlipped
<1> QED BY <1>1, <1>2, FlipStep, Exchange

\* cteSwap.
LEMMA SwapStep ==
  ASSUME NEW c, NEW rank, Sound(c, rank), NEW a \in Slots, NEW b \in Slots, a # b,
         Holds(c, a), Holds(c, b), NEW d, d = cteSwap(c, c.cap[a], a, c.cap[b], b)
  PROVE  /\ Sound(d, [s \in Slots |-> rank[flip(a, b, s)]])
         /\ Flipped(c, a, b, d) /\ Exchanged(c, a, b, d)
<1>1. Structure(c, rank)
  BY DEF Sound
<1>2. Flipped(c, a, b, d) /\ d.asserts = c.asserts
  BY <1>1, SwapFlipped
<1> QED BY <1>1, <1>2, FlipStep, Exchange

\* CNodeRotate with three slots is two moves.
LEMMA RotateStep ==
  ASSUME NEW c, NEW rank, Sound(c, rank), NEW src \in Slots, NEW pivot \in Slots, NEW dest \in Slots,
         src # pivot, src # dest, pivot # dest, dest \notin used(c),
         Holds(c, src), Holds(c, pivot), Holds(c, dest),
         NEW d, d = cteMove(cteMove(c, c.cap[pivot], pivot, dest), c.cap[src], src, pivot)
  PROVE  /\ \E new : Sound(d, new)
         /\ \E e : Exchanged(c, pivot, dest, e) /\ Exchanged(e, src, pivot, d)
<1> DEFINE e == cteMove(c, c.cap[pivot], pivot, dest)
           r == [s \in Slots |-> rank[flip(pivot, dest, s)]]
<1>1. Sound(e, r) /\ Flipped(c, pivot, dest, e) /\ Exchanged(c, pivot, dest, e)
  BY MoveStep
<1>2. d = cteMove(e, c.cap[src], src, pivot)
  OBVIOUS
<1> HIDE DEF e, r
<1>3. e.cap[src] = c.cap[src] /\ e.cap[pivot] = c.cap[dest]
  BY <1>1 DEF Flipped, flip
<1>4. pivot \notin used(e)
  BY <1>3 DEF used
<1>5. Holds(e, src) /\ Holds(e, pivot)
  BY <1>1, FlipHolds
<1>6. d = cteMove(e, e.cap[src], src, pivot)
  BY <1>2, <1>3
<1> QED BY <1>1, <1>4, <1>5, <1>6, MoveStep

\* d is c without the cap in slot s, if there was one.
Emptied(c, s, d) ==
  /\ used(d) = used(c) \ {s}
  /\ d.cap[s] = NullCap
  /\ \A x \in Slots \ {s} : d.cap[x] = c.cap[x]
  /\ SameTree(c, d) \/ Pruned(c, s, d)

\* emptySlot, for a cap that finaliseCap lets go.
LEMMA EmptyStep ==
  ASSUME NEW c, NEW rank, Sound(c, rank), NEW s \in Slots,
         c.cap[s] = NullCap \/ capRemovable(finaliseCap(c, s), s), NEW d, d = emptySlot(c, s)
  PROVE  Sound(d, rank) /\ Emptied(c, s, d)
<1>1. Structure(c, rank) /\ Held(c) /\ c.asserts
  BY DEF Sound
<1>2. CASE c.cap[s] = NullCap
  <2>1. d = c
    BY <1>2 DEF emptySlot
  <2>2. s \notin used(c)
    BY <1>2 DEF used, NullCap
  <2> QED BY <1>1, <1>2, <2>1, <2>2 DEF Sound, Emptied, SameTree
<1>3. CASE c.cap[s] # NullCap
  <2>1. s \in used(c)
    BY <1>1, <1>3, DatabaseFields DEF Structure
  <2>2. Unlinked(c, s, d)
    BY <1>1, <2>1, EmptyUnlinked
  <2>3. Structure(d, rank)
    BY <1>1, <2>1, <2>2, UnlinkedStructure
  <2>4. Spare(c, s)
    BY <1>1, <1>3, <2>1, FinaliseSpare
  <2>5. Held(d)
    BY <1>1, <2>2, <2>4, UnlinkedHeld
  <2>6. d.asserts
    BY <1>1, <2>2 DEF Unlinked
  <2>7. Emptied(c, s, d)
    <3>1. Pruned(c, s, d)
      BY <1>1, <2>1, <2>2, Prune
    <3> QED BY <2>2, <3>1 DEF Unlinked, Emptied
  <2> QED BY <2>3, <2>5, <2>6, <2>7 DEF Sound
<1> QED BY <1>2, <1>3

\* d is c with the zombie z in slot s.
Zombified(c, rank, s, z, d) ==
  /\ Sound(d, rank) /\ used(d) = used(c) /\ SameTree(c, d) /\ s \in Slots
  /\ d.cap[s] = z /\ \A x \in Slots \ {s} : d.cap[x] = c.cap[x]

\* The zombie that finaliseCap leaves takes the place of the cap.
LEMMA ZombieStep ==
  ASSUME NEW c, NEW rank, Sound(c, rank), NEW s \in used(c), NEW z, Remains(c, rank, s, z)
  PROVE  Zombified(c, rank, s, z, [c EXCEPT !.cap[s] = z])
<1> DEFINE d == [c EXCEPT !.cap[s] = z]
<1>1. Structure(c, rank) /\ Held(c) /\ c.asserts /\ c \in Databases /\ s \in Slots
  BY DEF Sound, Structure, used
<1>2. Stands(c, rank, s, z) /\ z \in RealCaps /\ storage(z) = storage(c.cap[s])
  BY DEF Remains, Stands
<1>3. Replaced(c, s, z, d) /\ d.asserts = c.asserts
  <2>1. [c.cap EXCEPT ![s] = z] \in [Slots -> Caps]
    BY <1>1, <1>2, DatabaseFields DEF Caps
  <2>2. d = [c EXCEPT !.cap = [c.cap EXCEPT ![s] = z]]
    BY <1>1 DEF Databases
  <2> HIDE DEF d
  <2> QED BY <1>1, <2>1, <2>2 DEF Replaced, Databases
<1> HIDE DEF d
<1>4. Structure(d, rank) /\ used(d) = used(c)
  BY <1>1, <1>2, <1>3, ReplacedStructure
<1>5. d.cap[s] = z /\ \A x \in Slots \ {s} : d.cap[x] = c.cap[x]
  BY <1>1, <1>3, DatabaseFields DEF Replaced
<1>6. Held(d)
  <2>1. \A x \in used(c) : x \in Slots /\ storage(d.cap[x]) = storage(c.cap[x])
    BY <1>2, <1>5 DEF used
  <2> QED BY <1>1, <1>4, <2>1 DEF Held
<1>7. SameTree(c, d)
  BY <1>1, <1>2, <1>3, Keep
<1>8. Zombified(c, rank, s, z, d)
  BY <1>1, <1>3, <1>4, <1>5, <1>6, <1>7 DEF Sound, Zombified
<1> QED BY <1>8 DEF d

\* A zombie whose last slot is empty becomes smaller.
LEMMA ShrinkStep ==
  ASSUME NEW c, NEW rank, Sound(c, rank), NEW s \in Slots, c.cap[s].type = "zombie", c.cap[s].num >= 1,
         c.cap[s].ptr + c.cap[s].num - 1 \notin used(c)
  PROVE  Sound([c EXCEPT !.cap[s].num = @ - 1], rank) /\ SameTree(c, [c EXCEPT !.cap[s].num = @ - 1])
<1> DEFINE d == [c EXCEPT !.cap[s].num = @ - 1]
           k == c.cap[s]
           z == [k EXCEPT !.num = k.num - 1]
<1>1. Structure(c, rank) /\ Held(c) /\ c.asserts /\ c \in Databases /\ s \in used(c)
  BY DEF Sound, Structure, used
<1>2. k \in ZombieCaps /\ k.ptr \in Nat /\ k.num \in Nat /\ Proper(k) /\ c.cap \in [Slots -> Caps] /\ BIT(k.bits) \in Nat
  BY <1>1, DatabaseFields, CapFields DEF Structure, Sized, ZombieCaps
<1>3. /\ z \in ZombieCaps /\ z.type = "zombie" /\ z.ptr = k.ptr /\ z.bits = k.bits /\ z.num = k.num - 1
      /\ z.num \in Nat
  BY <1>2 DEF ZombieCaps
<1>4. d = [c EXCEPT !.cap = [c.cap EXCEPT ![s] = z]]
  BY <1>1, <1>2 DEF Databases
<1> HIDE DEF z, d
<1>5. z \in RealCaps /\ Proper(z)
  BY <1>2, <1>3 DEF RealCaps, Proper, end
<1>6. Stands(c, rank, s, z)
  BY <1>3, <1>5 DEF Stands, Kin, Objects
<1>7. Replaced(c, s, z, d) /\ d.asserts = c.asserts
  <2>1. [c.cap EXCEPT ![s] = z] \in [Slots -> Caps]
    BY <1>2, <1>5 DEF Caps
  <2> QED BY <1>1, <1>4, <2>1 DEF Replaced, Databases
<1>8. Structure(d, rank) /\ used(d) = used(c)
  BY <1>1, <1>6, <1>7, ReplacedStructure
<1>9. d.cap[s] = z /\ \A x \in Slots \ {s} : d.cap[x] = c.cap[x]
  BY <1>2, <1>7 DEF Replaced
<1>10. Held(d)
  <2> SUFFICES ASSUME NEW x \in used(c) PROVE \E t \in used(c) : x \in storage(d.cap[t])
    BY <1>8 DEF Held
  <2>1. PICK t \in used(c) : x \in storage(c.cap[t])
    BY <1>1 DEF Held
  <2>2. CASE t # s
    <3>1. d.cap[t] = c.cap[t]
      BY <1>9, <2>2 DEF used
    <3> QED BY <2>1, <3>1
  <2>3. CASE t = s
    <3>1. storage(k) = k.ptr .. k.ptr + k.num - 1 /\ storage(z) = z.ptr .. z.ptr + z.num - 1
      BY <1>3 DEF storage
    <3>2. x # k.ptr + k.num - 1
      OBVIOUS
    <3>3. x \in k.ptr .. k.ptr + k.num - 1
      BY <2>1, <2>3, <3>1
    <3>4. x \in k.ptr .. k.ptr + (k.num - 1) - 1
      BY <1>2, <3>2, <3>3
    <3>5. x \in storage(z)
      BY <1>3, <3>1, <3>4
    <3> QED BY <1>9, <2>3, <3>5
  <2> QED BY <2>2, <2>3
<1>11. Sound(d, rank)
  BY <1>1, <1>7, <1>8, <1>10 DEF Sound
<1>12. SameTree(c, d)
  BY <1>1, <1>6, <1>7, Keep
<1> QED BY <1>11, <1>12 DEF d

-----------------------------------------------------------------------------
(* The inductive invariant *)

\* The slots an invocation works on.
Shape(o) ==
  o \in [pc : {o.pc}, target : Links, del : Links, zombie : {o.zombie}, inner : Links, retype : {o.retype}]

Progress(o) ==
  /\ Shape(o)
  /\ o.pc \in {"idle", "cteRevoke", "finaliseSlot", "endSlot", "resetUntypedCap"}
  /\ o.pc = "idle" => o = Idle
  /\ o.pc = "cteRevoke" => o.target \in Slots
  /\ o.pc \in {"finaliseSlot", "endSlot"} => o.del \in Slots

\* The zombie that reduceZombie works on is in the slot to be deleted; or it was swapped with
\* a zombie that refers to its own slot; or it is in its own first slot and the slot to be
\* deleted is the one it does not yet reach.
Reducing(c, o) ==
  LET z == o.zombie
  IN  /\ z \in ZombieCaps /\ z.num >= 1 /\ o.inner = z.ptr + z.num - 1
      /\ o.inner \in Slots /\ z.ptr \in Slots
      /\ \/ c.cap[o.del] = z /\ ~capRemovable(z, o.del)
         \/ /\ c.cap[o.inner] = z \/ c.cap[z.ptr] = z
            /\ c.cap[o.del].type = "zombie" /\ c.cap[o.del].ptr = o.del /\ o.del # z.ptr
         \/ c.cap[z.ptr] = z /\ o.del = o.inner /\ z.num > 1

\* The untyped that is being reset stays as the request found it.
Resetting(c, rank, o) ==
  /\ Request(c, o.retype)
  /\ Fresh(c, rank, o.retype.slot, c.cap[o.retype.slot].ptr)

Safe(c, o) ==
  \E rank :
    /\ Sound(c, rank)
    /\ Progress(o)
    /\ o.pc = "endSlot" => Reducing(c, o)
    /\ o.pc = "resetUntypedCap" => Resetting(c, rank, o)

IInv == Safe(cs, op)

\* Between invocations the structure is all there is.
LEMMA SafeIdle ==
  ASSUME NEW c, NEW rank, Sound(c, rank)
  PROVE  Safe(c, Idle)
<1>1. Shape(Idle) /\ Idle.pc = "idle"
  BY DEF Shape, Idle, Links
<1>2. Progress(Idle)
  BY <1>1 DEF Progress
<1> QED BY <1>1, <1>2 DEF Safe

\* An invocation that has no zombie or untyped in hand.
LEMMA SafePlain ==
  ASSUME NEW c, NEW rank, Sound(c, rank), NEW o, Progress(o), o.pc \notin {"endSlot", "resetUntypedCap"}
  PROVE  Safe(c, o)
BY DEF Safe

\* The end of a deletion.
LEMMA DeleteDone ==
  ASSUME NEW c, NEW rank, Sound(c, rank), NEW o, Shape(o), deleteDone(o, c)
  PROVE  Safe(cs', op') /\ cs' = c
<1>1. cs' = c
  BY DEF deleteDone
<1>2. CASE op' = Idle
  BY <1>1, <1>2, SafeIdle
<1>3. CASE op' # Idle
  <2> DEFINE p == [o EXCEPT !.pc = "cteRevoke", !.del = Null]
  <2>1. o.target # Null /\ op' = p
    BY <1>3 DEF deleteDone, PreemptionPoint
  <2>2. /\ p \in [pc : {"cteRevoke"}, target : Links, del : Links, zombie : {o.zombie}, inner : Links,
                   retype : {o.retype}]
        /\ p.pc = "cteRevoke" /\ p.target = o.target /\ p.zombie = o.zombie /\ p.retype = o.retype
    BY DEF Shape, Links
  <2> HIDE DEF p
  <2>3. Shape(p) /\ p.target \in Slots
    BY <2>1, <2>2 DEF Shape, Links
  <2>4. Progress(p) /\ p.pc \notin {"endSlot", "resetUntypedCap"}
    BY <2>2, <2>3 DEF Progress
  <2> QED BY <1>1, <2>1, <2>4, SafePlain
<1> QED BY <1>2, <1>3

\* The last slot of a zombie is a slot.
LEMMA LastSlot ==
  ASSUME NEW z \in ZombieCaps, Proper(z), z.num >= 1
  PROVE  z.ptr + z.num - 1 \in Slots /\ z.ptr \in Slots
<1>1. z \in RealCaps /\ z.type = "zombie"
  BY DEF RealCaps, ZombieCaps
<1>2. z.ptr \in Nat /\ z.num \in Nat /\ BIT(z.bits) \in Nat /\ z.num <= BIT(z.bits)
  BY <1>1, CapFields DEF ZombieCaps, Proper
<1>3. z.ptr + z.num - 1 \in Nat /\ z.ptr <= z.ptr + z.num - 1 /\ z.ptr + z.num - 1 < end(z) /\ z.ptr < end(z)
  BY <1>2 DEF end
<1> QED BY <1>2, <1>3 DEF Proper

\* An iteration of finaliseSlot.
LEMMA FinaliseSlotSafe ==
  ASSUME NEW rank, Sound(cs, rank), NEW o, Shape(o), o.del \in Slots, finaliseSlot(o)
  PROVE  Safe(cs', op') /\ TreeStep(cs, cs')
<1> DEFINE s == o.del
           z == finaliseCap(cs, s)
<1>1. CASE (cs.cap[s] = NullCap \/ capRemovable(z, s)) /\ deleteDone(o, emptySlot(cs, s))
  <2>1. Sound(emptySlot(cs, s), rank) /\ Emptied(cs, s, emptySlot(cs, s))
    BY <1>1, EmptyStep
  <2>2. Safe(cs', op') /\ cs' = emptySlot(cs, s)
    BY <1>1, <2>1, DeleteDone
  <2>3. TreeStep(cs, cs')
    BY <2>1, <2>2, TreeSteps DEF Emptied
  <2> QED BY <2>2, <2>3
<1>2. CASE /\ cs.cap[s] # NullCap /\ ~capRemovable(z, s)
           /\ cs' = [Assert_(cs, z.num > 0) EXCEPT !.cap[s] = z]
           /\ op' = [o EXCEPT !.pc = "endSlot", !.zombie = z, !.inner = z.ptr + z.num - 1]
  <2>1. Structure(cs, rank) /\ cs \in Databases
    BY DEF Sound, Structure
  <2>2. s \in used(cs)
    BY <1>2, <2>1, DatabaseFields
  <2>3. Remains(cs, rank, s, z)
    BY <1>2, <2>1, <2>2, FinaliseRemains
  <2> HIDE DEF z
  <2>4. z \in ZombieCaps /\ z.num >= 1 /\ z.num \in Nat /\ Proper(z) /\ z.type = "zombie" /\ z.ptr \in Nat
    BY <2>3 DEF Remains, ZombieCaps, Stands
  <2>5. Assert_(cs, z.num > 0) = cs
    <3>1. z.num > 0
      BY <2>4
    <3>2. (z.num > 0) \in BOOLEAN
      OBVIOUS
    <3> QED BY <2>1, <3>1, <3>2, AssertHolds
  <2>6. cs' = [cs EXCEPT !.cap[s] = z]
    BY <1>2, <2>5
  <2>7. Sound(cs', rank) /\ cs'.cap[s] = z /\ SameTree(cs, cs')
    <3>1. Zombified(cs, rank, s, z, [cs EXCEPT !.cap[s] = z])
      BY <2>2, <2>3, ZombieStep
    <3> QED BY <2>6, <3>1 DEF Zombified
  <2>9. z.ptr + z.num - 1 \in Slots /\ z.ptr \in Slots
    BY <2>4, LastSlot
  <2>10. /\ op' \in [pc : {"endSlot"}, target : Links, del : Links, zombie : {z}, inner : Links,
                     retype : {o.retype}]
         /\ op'.pc = "endSlot" /\ op'.del = s /\ op'.zombie = z /\ op'.inner = z.ptr + z.num - 1
         /\ op'.retype = o.retype
    <3>1. z.ptr + z.num - 1 \in Links
      BY <2>9 DEF Links
    <3> QED BY <1>2, <3>1 DEF Shape
  <2>11. Shape(op')
    BY <2>10 DEF Shape
  <2>12. Progress(op')
    BY <2>10, <2>11 DEF Progress
  <2>13. ~capRemovable(z, s)
    BY <1>2
  <2>14. Reducing(cs', op')
    BY <2>4, <2>7, <2>9, <2>10, <2>13 DEF Reducing
  <2> QED BY <2>7, <2>10, <2>12, <2>14, TreeSteps DEF Safe
<1> QED BY <1>1, <1>2 DEF finaliseSlot

\* A zombie shares no memory with another cap, except with untyped ones.
LEMMA ZombieAlone ==
  ASSUME NEW c, NEW rank, Structure(c, rank), NEW a \in used(c), NEW b \in used(c), a # b,
         c.cap[a].type = "zombie", c.cap[b].type # "untyped",
         NEW x \in Nat, c.cap[a].ptr <= x, x < end(c.cap[a])
  PROVE  ~(c.cap[b].ptr <= x /\ x < end(c.cap[b]))
<1> SUFFICES ASSUME c.cap[b].ptr <= x, x < end(c.cap[b]) PROVE FALSE
  OBVIOUS
<1>1. c.cap[a] \in RealCaps /\ c.cap[b] \in RealCaps
  BY DatabaseFields DEF Structure
<1>2. c.cap[a].ptr \in Nat /\ end(c.cap[a]) \in Nat /\ c.cap[b].ptr \in Nat /\ end(c.cap[b]) \in Nat
  BY <1>1, CapFields
<1>3. meets(c.cap[a], c.cap[b])
  BY <1>2 DEF meets
<1>4. Kin(c.cap[a], c.cap[b]) \/ Kin(c.cap[b], c.cap[a])
  BY <1>3 DEF Structure, Nested
<1> QED BY <1>4 DEF Kin, Objects

\* reduceZombie, when the zombie is where it was and its last slot is empty.
LEMMA ReduceSmaller ==
  ASSUME NEW c, NEW rank, Sound(c, rank), op.del \in Slots, c.cap[op.del] = op.zombie,
         op.zombie.type = "zombie", op.zombie.num >= 1, op.inner = op.zombie.ptr + op.zombie.num - 1,
         c.cap[op.inner] = NullCap
  PROVE  Sound(reduceZombie(c), rank) /\ SameTree(c, reduceZombie(c))
<1> DEFINE s == op.del
<1>1. c \in Databases
  BY DEF Sound, Structure
<1>2. Assert_(c, c.cap[op.inner] = NullCap) = c
  <2>1. (c.cap[op.inner] = NullCap) \in BOOLEAN
    OBVIOUS
  <2> QED BY <1>1, <2>1, AssertHolds
<1>3. reduceZombie(c) = [c EXCEPT !.cap[s].num = @ - 1]
  <2>1. reduceZombie(c) = [Assert_(c, c.cap[op.inner] = NullCap) EXCEPT !.cap[s].num = @ - 1]
    BY DEF reduceZombie
  <2> QED BY <1>2, <2>1
<1>4. op.inner \notin used(c)
  BY DEF used, NullCap
<1>5. c.cap[s].type = "zombie" /\ c.cap[s].num >= 1 /\ c.cap[s].ptr + c.cap[s].num - 1 \notin used(c)
  BY <1>4
<1>6. Sound([c EXCEPT !.cap[s].num = @ - 1], rank) /\ SameTree(c, [c EXCEPT !.cap[s].num = @ - 1])
  BY <1>5, ShrinkStep
<1> QED BY <1>3, <1>6

\* reduceZombie, when a zombie that refers to its own slot is in its place.
LEMMA ReduceCyclic ==
  ASSUME NEW c, NEW rank, Sound(c, rank), c.cap[op.del].type = "zombie", c.cap[op.del].ptr = op.del,
         op.zombie.ptr # op.del
  PROVE  reduceZombie(c) = c
<1> DEFINE k == c.cap[op.del]
<1>1. c \in Databases /\ k # op.zombie /\ k.type = "zombie"
  BY DEF Sound, Structure
<1>2. Assert_(c, k.ptr = op.del /\ op.zombie.ptr # op.del) = c
  <2>1. (k.ptr = op.del /\ op.zombie.ptr # op.del) \in BOOLEAN
    OBVIOUS
  <2> QED BY <1>1, <2>1, AssertHolds
<1> QED BY <1>1, <1>2 DEF reduceZombie

\* reduceZombie, when the slot to be deleted is empty.
LEMMA ReduceGone ==
  ASSUME NEW c, NEW rank, Sound(c, rank), c.cap[op.del] = NullCap, op.zombie.type = "zombie"
  PROVE  reduceZombie(c) = c
<1>1. c \in Databases /\ NullCap.type = "null"
  BY DEF Sound, Structure, NullCap
<1>2. NullCap # op.zombie /\ NullCap.type # "zombie"
  BY <1>1
<1>3. Assert_(c, c.cap[op.del] = NullCap) = c
  <2>1. (c.cap[op.del] = NullCap) \in BOOLEAN
    OBVIOUS
  <2> QED BY <1>1, <2>1, AssertHolds
<1> QED BY <1>2, <1>3 DEF reduceZombie

\* After reduceZombie, finaliseSlot goes on or is preempted.
LEMMA EndSlotDoneSafe ==
  ASSUME NEW c, NEW rank, Sound(reduceZombie(c), rank), Shape(op), op.del \in Slots, EndSlotDone(c)
  PROVE  Safe(cs', op') /\ cs' = reduceZombie(c)
<1> DEFINE p == [op EXCEPT !.pc = "finaliseSlot", !.zombie = NullCap, !.inner = Null]
<1>1. Sound(cs', rank) /\ cs' = reduceZombie(c)
  BY DEF EndSlotDone
<1>2. CASE op' = Idle
  BY <1>1, <1>2, SafeIdle
<1>3. CASE op' = p
  <2>1. /\ p \in [pc : {"finaliseSlot"}, target : Links, del : Links, zombie : {NullCap}, inner : Links,
                  retype : {op.retype}]
        /\ p.pc = "finaliseSlot" /\ p.del = op.del /\ p.zombie = NullCap /\ p.retype = op.retype
    BY DEF Shape, Links
  <2> HIDE DEF p
  <2>2. Shape(p)
    BY <2>1 DEF Shape
  <2>3. Progress(p) /\ p.pc \notin {"endSlot", "resetUntypedCap"}
    BY <2>1, <2>2 DEF Progress
  <2> QED BY <1>1, <1>3, <2>3, SafePlain
<1> QED BY <1>2, <1>3 DEF EndSlotDone, PreemptionPoint

\* An iteration of finaliseSlot for the last slot of a zombie.
LEMMA EndSlotSafe ==
  ASSUME Safe(cs, op), EndSlot
  PROVE  Safe(cs', op') /\ TreeStep(cs, cs')
<1> DEFINE s == op.inner
           y == op.del
           w == finaliseCap(cs, s)
           z == op.zombie
           c == [cs EXCEPT !.cap[s] = w]
           ptr == w.ptr
<1>1. PICK rank : Sound(cs, rank) /\ Progress(op) /\ (op.pc = "endSlot" => Reducing(cs, op))
  BY DEF Safe
<1>2. op.pc = "endSlot"
  BY DEF EndSlot
<1>3. /\ Shape(op) /\ y \in Slots /\ s \in Slots /\ Structure(cs, rank) /\ cs \in Databases /\ Reducing(cs, op)
  BY <1>1, <1>2 DEF Progress, Sound, Structure, Reducing
<1>4. /\ z \in ZombieCaps /\ z.type = "zombie" /\ z.num \in Nat /\ z.num >= 1 /\ s = z.ptr + z.num - 1
      /\ z.ptr \in Nat /\ z.ptr \in Slots /\ z # NullCap
  BY <1>3 DEF Reducing, ZombieCaps, NullCap
<1>5. \/ cs.cap[y] = z /\ ~capRemovable(z, y)
      \/ /\ cs.cap[s] = z \/ cs.cap[z.ptr] = z
         /\ cs.cap[y].type = "zombie" /\ cs.cap[y].ptr = y /\ y # z.ptr
      \/ cs.cap[z.ptr] = z /\ y = s /\ z.num > 1
  BY <1>3 DEF Reducing
<1>6. s \in Nat /\ z.ptr <= s /\ (z.ptr = s <=> z.num = 1) /\ NullCap.type = "null"
  <2>1. z.num \in Nat /\ z.num >= 1 /\ z.ptr \in Nat /\ s = z.ptr + (z.num - 1)
    BY <1>4
  <2>2. NullCap.type = "null"
    BY DEF NullCap
  <2> HIDE DEF s, z
  <2> QED BY <2>1, <2>2
<1>7. \A x \in Slots : cs.cap[x] # NullCap => x \in used(cs)
  BY <1>3, DatabaseFields
<1>8. \A x \in Slots : cs.cap[x] = z => s < end(cs.cap[x]) /\ z.ptr \in Slots
  <2> SUFFICES ASSUME NEW x \in Slots, cs.cap[x] = z PROVE s < end(z) /\ z.ptr \in Slots
    OBVIOUS
  <2>1. x \in used(cs)
    BY <1>4, <1>7
  <2>2. Proper(z) /\ z \in RealCaps
    BY <1>3, <2>1, DatabaseFields DEF Structure, Sized
  <2>3. z.num <= BIT(z.bits) /\ BIT(z.bits) \in Nat
    BY <1>4, <2>2, CapFields DEF Proper
  <2> QED BY <1>4, <2>2, <2>3, LastSlot DEF end
<1>9. z.ptr \in Slots => (cs.cap[z.ptr] = z => z.ptr \in used(cs))
  BY <1>4, <1>7
<1>10. CASE (cs.cap[s] = NullCap \/ capRemovable(w, s)) /\ EndSlotDone(emptySlot(cs, s))
  <2> DEFINE e == emptySlot(cs, s)
  <2>1. Sound(e, rank) /\ Emptied(cs, s, e)
    BY <1>1, <1>3, <1>10, EmptyStep
  <2> HIDE DEF e
  <2>2. e.cap[s] = NullCap /\ (y # s => e.cap[y] = cs.cap[y])
    BY <1>3, <2>1 DEF Emptied
  <2>3. CASE cs.cap[y] = z /\ ~capRemovable(z, y)
    <3>1. y # s
      <4> SUFFICES ASSUME y = s PROVE FALSE
        OBVIOUS
      <4>1. cs.cap[s] = z /\ w = z
        BY <1>4, <2>3 DEF finaliseCap
      <4> QED BY <1>4, <1>10, <2>3, <4>1
    <3>2. e.cap[y] = z
      BY <2>2, <2>3, <3>1
    <3>3. Sound(reduceZombie(e), rank) /\ SameTree(e, reduceZombie(e))
      BY <1>3, <1>4, <2>1, <2>2, <3>2, ReduceSmaller
    <3>4. Safe(cs', op') /\ cs' = reduceZombie(e)
      BY <1>3, <1>10, <3>3, EndSlotDoneSafe DEF e
    <3>5. SameTree(cs, cs') \/ Pruned(cs, s, cs')
      BY <2>1, <3>3, <3>4, SameAfter DEF Emptied
    <3> QED BY <3>4, <3>5, TreeSteps
  <2>4. CASE y # s /\ cs.cap[y].type = "zombie" /\ cs.cap[y].ptr = y /\ y # z.ptr
    <3>1. reduceZombie(e) = e
      BY <2>1, <2>2, <2>4, ReduceCyclic
    <3>2. Safe(cs', op') /\ cs' = e
      BY <1>3, <1>10, <2>1, <3>1, EndSlotDoneSafe DEF e
    <3> QED BY <2>1, <3>2, TreeSteps DEF Emptied
  <2>5. CASE y = s
    <3>1. reduceZombie(e) = e
      BY <1>4, <2>1, <2>2, <2>5, ReduceGone
    <3>2. Safe(cs', op') /\ cs' = e
      BY <1>3, <1>10, <2>1, <3>1, EndSlotDoneSafe DEF e
    <3> QED BY <2>1, <3>2, TreeSteps DEF Emptied
  <2> QED BY <1>5, <2>3, <2>4, <2>5
<1>11. ASSUME cs.cap[s] # NullCap, ~capRemovable(w, s)
       PROVE  /\ Sound(c, rank) /\ used(c) = used(cs) /\ SameTree(cs, c) /\ s \in used(cs) /\ c.cap[s] = w
              /\ \A x \in Slots \ {s} : c.cap[x] = cs.cap[x]
              /\ w \in ZombieCaps /\ w.type = "zombie" /\ w.num >= 1 /\ w.num \in Nat /\ ~(w.num = 1 /\ ptr = s)
              /\ cs.cap[s].type \in {"cnode", "thread", "zombie"} /\ cs.cap[s].ptr = ptr
              /\ cs.cap[s].type = "zombie" => w = cs.cap[s]
              /\ ptr \in Nat /\ ptr \in Slots /\ ptr < end(w) /\ end(w) = end(cs.cap[s])
  <2>1. s \in used(cs)
    BY <1>3, <1>7, <1>11
  <2>2. Remains(cs, rank, s, w)
    BY <1>3, <1>11, <2>1, FinaliseRemains
  <2> HIDE DEF w
  <2>3. Zombified(cs, rank, s, w, c)
    BY <1>1, <2>1, <2>2, ZombieStep
  <2>4. w \in ZombieCaps /\ w \in RealCaps /\ Proper(w) /\ w.ptr = cs.cap[s].ptr /\ w.bits = cs.cap[s].bits /\ w.num >= 1
    BY <2>2 DEF Remains, Stands
  <2>5. ptr \in Nat /\ ptr < end(w) /\ w.num \in Nat
    BY <2>4, CapFields DEF ZombieCaps
  <2>6. ptr \in Slots
    BY <2>4, LastSlot
  <2> HIDE DEF c
  <2> QED BY <2>1, <2>2, <2>3, <2>4, <2>5, <2>6 DEF Remains, Zombified, end
<1> HIDE DEF c, w
<1>12. CASE cs.cap[s] # NullCap /\ ~capRemovable(w, s) /\ capCyclicZombie(w, s) /\ EndSlotDone(c)
  <2>1. ptr = s /\ w.num # 1
    BY <1>11, <1>12 DEF capCyclicZombie
  <2>2. ASSUME NEW x \in used(cs), x # s, cs.cap[x] = z PROVE FALSE
    <3>1. x \in Slots
      BY DEF used
    <3>2. s < end(cs.cap[x]) /\ cs.cap[x].ptr <= s /\ cs.cap[x].type = "zombie"
      BY <1>4, <1>6, <1>8, <2>2, <3>1
    <3>3. cs.cap[s].ptr <= s /\ s < end(cs.cap[s]) /\ cs.cap[s].type # "untyped"
      BY <1>6, <1>11, <1>12, <2>1
    <3> QED BY <1>3, <1>6, <1>11, <1>12, <2>2, <3>2, <3>3, ZombieAlone
  <2>3. CASE cs.cap[y] = z /\ ~capRemovable(z, y)
    <3>1. y = s
      <4>1. y \in used(cs)
        BY <1>3, <1>4, <1>7, <2>3
      <4> QED BY <2>2, <2>3, <4>1
    <3>2. w = z
      BY <1>4, <1>11, <1>12, <2>3, <3>1
    <3> QED BY <1>6, <2>1, <3>2
  <2>4. CASE cs.cap[y].type = "zombie" /\ cs.cap[y].ptr = y /\ y # z.ptr
    <3>1. c.cap[y] = cs.cap[y]
      BY <1>3, <1>11, <1>12, <2>4
    <3>2. reduceZombie(c) = c
      BY <1>11, <1>12, <2>4, <3>1, ReduceCyclic
    <3>3. Safe(cs', op') /\ cs' = c
      BY <1>3, <1>11, <1>12, <3>2, EndSlotDoneSafe
    <3> QED BY <1>11, <1>12, <3>3, TreeSteps
  <2>5. CASE cs.cap[z.ptr] = z /\ y = s /\ z.num > 1
    <3>1. z.ptr # s
      BY <1>6, <2>5
    <3>2. z.ptr \in Slots
      BY <1>4
    <3> QED BY <1>9, <2>2, <2>5, <3>1, <3>2
  <2> QED BY <1>5, <2>3, <2>4, <2>5
<1>13. CASE /\ cs.cap[s] # NullCap /\ ~capRemovable(w, s) /\ ~capCyclicZombie(w, s)
            /\ cs' = capSwapForDelete(Assert_(c, ~capCyclicZombie(c.cap[ptr], ptr)), ptr, s)
            /\ PreemptionPoint(op)
  <2>1. ptr # s /\ ptr \in Slots /\ Sound(c, rank) /\ Structure(c, rank) /\ c \in Databases
    BY <1>11, <1>13 DEF capCyclicZombie, Sound, Structure
  <2>2. ASSUME NEW x \in used(cs), x # s, cs.cap[x].type # "untyped", cs.cap[x].ptr <= ptr, ptr < end(cs.cap[x])
        PROVE  FALSE
    <3>1. x \in Slots /\ c.cap[x] = cs.cap[x] /\ x \in used(c) /\ s \in used(c) /\ c.cap[s] = w
      BY <1>11, <1>13, <2>2 DEF used
    <3>2. w.type = "zombie" /\ ptr \in Nat /\ w.ptr <= ptr /\ ptr < end(w)
      BY <1>11, <1>13
    <3> HIDE DEF ptr
    <3> QED BY <2>1, <2>2, <3>1, <3>2, ZombieAlone
  <2>3. ASSUME NEW x \in used(cs), x # s, cs.cap[x].type = "zombie" PROVE cs.cap[x].ptr # ptr
    <3>1. cs.cap[x] \in RealCaps
      BY <1>3, DatabaseFields
    <3>2. cs.cap[x].ptr \in Nat /\ cs.cap[x].ptr < end(cs.cap[x])
      BY <3>1, CapFields
    <3> QED BY <2>2, <2>3, <3>2
  <2>4. ~capCyclicZombie(c.cap[ptr], ptr)
    <3> SUFFICES ASSUME c.cap[ptr].type = "zombie", c.cap[ptr].ptr = ptr PROVE FALSE
      BY DEF capCyclicZombie
    <3>1. c.cap[ptr] = cs.cap[ptr]
      BY <1>11, <1>13, <2>1
    <3>2. ptr \in used(cs)
      BY <2>1, <3>1 DEF used
    <3> QED BY <2>1, <2>3, <3>1, <3>2
  <2>5. Assert_(c, ~capCyclicZombie(c.cap[ptr], ptr)) = c
    <3>1. (~capCyclicZombie(c.cap[ptr], ptr)) \in BOOLEAN
      OBVIOUS
    <3> QED BY <2>1, <2>4, <3>1, AssertHolds
  <2>6. cs' = cteSwap(c, c.cap[ptr], ptr, c.cap[s], s)
    <3>1. cs' = capSwapForDelete(c, ptr, s)
      BY <1>13, <2>5
    <3> QED BY <2>1, <3>1 DEF capSwapForDelete
  <2>7. Holds(c, s) /\ Holds(c, ptr)
    <3>1. s \in used(c) /\ c.cap[s] = w /\ w.type = "zombie" /\ w.num \in Nat /\ w.num >= 1 /\ ptr \in Nat
      BY <1>11, <1>13
    <3>2. Holds(c, s)
      BY <2>1, <3>1 DEF Holds, Sound, Held
    <3>3. ptr \in w.ptr .. w.ptr + w.num - 1
      BY <3>1
    <3>4. ptr \in storage(c.cap[s])
      BY <3>1, <3>3 DEF storage
    <3> QED BY <3>1, <3>2, <3>4 DEF Holds
  <2>8. /\ Flipped(c, ptr, s, cs') /\ Sound(cs', [x \in Slots |-> rank[flip(ptr, s, x)]])
        /\ Exchanged(c, ptr, s, cs')
    BY <1>3, <2>1, <2>6, <2>7, SwapStep
  <2>9. /\ cs'.cap[ptr] = w /\ cs'.cap[s] = cs.cap[ptr]
        /\ \A x \in Slots \ {s, ptr} : cs'.cap[x] = cs.cap[x]
    BY <1>3, <1>11, <1>13, <2>1, <2>8 DEF Flipped, flip
  <2>10. ASSUME NEW x \in used(cs), x # s, cs.cap[x] = z PROVE ~(z.ptr <= ptr /\ ptr <= s) /\ z.ptr # ptr
    <3>1. x \in Slots /\ s < end(cs.cap[x]) /\ cs.cap[x].type = "zombie" /\ ptr \in Nat /\ end(cs.cap[x]) \in Nat
      <4>1. x \in Slots /\ cs.cap[x] \in RealCaps
        BY <1>3, DatabaseFields
      <4> QED BY <1>4, <1>8, <1>11, <1>13, <2>10, <4>1, CapFields
    <3>2. s \in Nat
      BY <1>6
    <3> HIDE DEF s, ptr
    <3> QED BY <2>2, <2>3, <2>10, <3>1, <3>2
  <2>11. Reducing(cs', op)
    <3>1. CASE cs.cap[y] = z /\ ~capRemovable(z, y)
      <4>1. CASE y \notin {s, ptr}
        <5>1. cs'.cap[y] = z
          BY <1>3, <2>9, <3>1, <4>1
        <5> QED BY <1>3, <3>1, <5>1 DEF Reducing
      <4>2. CASE y = s
        <5>1. w = z
          BY <1>4, <1>11, <1>13, <3>1, <4>2
        <5>2. cs'.cap[z.ptr] = z /\ z.num # 1
          BY <1>6, <2>1, <2>9, <5>1
        <5>3. z.num > 1
          BY <1>4, <5>2
        <5> QED BY <1>3, <4>2, <5>2, <5>3 DEF Reducing
      <4>3. CASE y = ptr
        <5>1. y \in used(cs) /\ y # s
          BY <1>3, <1>4, <1>7, <2>1, <3>1, <4>3
        <5>2. y # z.ptr
          BY <2>10, <3>1, <4>3, <5>1
        <5>3. cs'.cap[s] = z /\ cs'.cap[y] = w /\ w.type = "zombie"
          BY <1>11, <1>13, <2>9, <3>1, <4>3
        <5> QED BY <1>3, <4>3, <5>2, <5>3 DEF Reducing
      <4> QED BY <4>1, <4>2, <4>3
    <3>2. CASE /\ cs.cap[s] = z \/ cs.cap[z.ptr] = z
               /\ cs.cap[y].type = "zombie" /\ cs.cap[y].ptr = y /\ y # z.ptr
      <4>1. y # s
        <5> SUFFICES ASSUME y = s PROVE FALSE
          OBVIOUS
        <5> QED BY <1>11, <1>13, <2>1, <3>2
      <4>2. y \in used(cs)
        BY <1>3, <3>2 DEF used
      <4>3. y # ptr
        BY <2>3, <3>2, <4>1, <4>2
      <4>4. cs'.cap[y] = cs.cap[y]
        BY <1>3, <2>9, <4>1, <4>3
      <4>5. CASE cs.cap[s] = z
        <5>1. w = z
          BY <1>4, <1>11, <1>13, <4>5
        <5>2. cs'.cap[z.ptr] = z
          BY <2>9, <5>1
        <5> QED BY <1>3, <3>2, <4>4, <5>2 DEF Reducing
      <4>6. CASE cs.cap[s] # z /\ cs.cap[z.ptr] = z
        <5>1. z.ptr # s /\ z.ptr \in used(cs)
          BY <1>4, <1>9, <4>6
        <5>2. z.ptr # ptr
          BY <2>10, <4>6, <5>1
        <5>3. cs'.cap[z.ptr] = z
          BY <1>4, <2>9, <4>6, <5>1, <5>2
        <5> QED BY <1>3, <3>2, <4>4, <5>3 DEF Reducing
      <4> QED BY <3>2, <4>5, <4>6
    <3>3. CASE cs.cap[z.ptr] = z /\ y = s /\ z.num > 1
      <4>1. z.ptr # s /\ z.ptr \in used(cs)
        BY <1>4, <1>6, <1>9, <3>3
      <4>2. z.ptr # ptr
        BY <2>10, <3>3, <4>1
      <4>3. cs'.cap[z.ptr] = z
        BY <1>4, <2>9, <3>3, <4>1, <4>2
      <4> QED BY <1>3, <3>3, <4>3 DEF Reducing
    <3> QED BY <1>5, <3>1, <3>2, <3>3
  <2>12. ASSUME op' = Idle PROVE Safe(cs', op')
    BY <2>8, <2>12, SafeIdle
  <2>13. ASSUME op' = op PROVE Safe(cs', op')
    BY <1>1, <1>2, <2>8, <2>11, <2>13 DEF Safe
  <2>14. TreeStep(cs, cs')
    <3>1. SameTree(cs, c) /\ s \in used(cs)
      BY <1>11, <1>13
    <3>2. Exchanged(cs, ptr, s, cs')
      BY <2>8, <3>1, SameBefore
    <3> QED BY <3>1, <3>2, TreeSteps
  <2> QED BY <1>13, <2>12, <2>13, <2>14 DEF PreemptionPoint
<1> QED BY <1>10, <1>12, <1>13 DEF EndSlot, c, w


-----------------------------------------------------------------------------
(* Each action keeps the inductive invariant and is an operation on the forest *)

\* The slots that user programs name are slots of objects.
LEMMA Lookup ==
  ASSUME NEW rank, Sound(cs, rank), NEW s \in lookupSlot
  PROVE  s \in Slots /\ Holds(cs, s)
<1>1. Structure(cs, rank) /\ s \in reach(cs)
  BY DEF Sound, lookupSlot
<1>2. s \in named(cs)
  BY <1>1, Reach
<1> QED BY <1>1, <1>2, NamedHolds

\* An invocation that ends with a sound database.
LEMMA FinishSafe ==
  ASSUME NEW c, NEW rank, Sound(c, rank), TreeStep(cs, c), Finish(c)
  PROVE  Safe(cs', op') /\ TreeStep(cs, cs')
BY SafeIdle DEF Finish

\* What the slots of a sound database hold.
LEMMA SoundFields ==
  ASSUME NEW c, NEW rank, Sound(c, rank)
  PROVE  /\ Structure(c, rank) /\ c \in Databases /\ Held(c) /\ c.asserts
         /\ \A s \in Slots : s \in used(c) <=> c.cap[s] # NullCap
         /\ \A s \in used(c) : s \in Slots /\ c.cap[s] \in RealCaps /\ Proper(c.cap[s]) /\ Holds(c, s)
BY DatabaseFields DEF Sound, Structure, Sized, Held, Holds

\* CNode_Copy.
LEMMA CopySafe ==
  ASSUME NEW rank, Sound(cs, rank), NEW src \in Slots, NEW dest \in Slots, Holds(cs, dest), CNodeCopy(src, dest)
  PROVE  Safe(cs', op') /\ TreeStep(cs, cs')
<1> DEFINE k == cs.cap[src]
           d == cteInsert(cs, k, src, dest)
<1>1. /\ cs.cap[dest] = NullCap /\ k.type \notin {"null", "zombie"}
      /\ k.type = "untyped" => ~hasChildren(cs, src)
      /\ Finish(d)
  BY DEF CNodeCopy, derivable
<1>2. src \in used(cs) /\ dest \notin used(cs) /\ k \in RealCaps
  BY <1>1, SoundFields DEF used
<1>3. Copies(cs, src, k)
  <2>1. k.type \in Objects \cup {"untyped"}
    BY <1>1, <1>2, CapFields DEF Objects
  <2>2. k.ptr = cs.cap[src].ptr
    OBVIOUS
  <2> QED BY <1>1, <1>2, <2>1 DEF Copies, Objects
<1>4. (\E new : Sound(d, new)) /\ TreeStep(cs, d)
  BY <1>2, <1>3, CopyStep, TreeSteps
<1> HIDE DEF d
<1> QED BY <1>1, <1>4, FinishSafe

\* CNode_Mint.
LEMMA MintSafe ==
  ASSUME NEW rank, Sound(cs, rank), NEW src \in Slots, NEW dest \in Slots, Holds(cs, dest),
         NEW badge \in Badges, CNodeMint(src, dest, badge)
  PROVE  Safe(cs', op') /\ TreeStep(cs, cs')
<1> DEFINE k == [cs.cap[src] EXCEPT !.badge = badge]
           d == cteInsert(cs, k, src, dest)
<1>1. /\ cs.cap[dest] = NullCap /\ cs.cap[src].type = "endpoint" /\ cs.cap[src].badge = 0
      /\ Finish(d)
  BY DEF CNodeMint
<1>2. src \in used(cs) /\ dest \notin used(cs) /\ cs.cap[src] \in EndpointCaps
  BY <1>1, SoundFields, CapFields DEF used
<1>3. badge \in Nat
  BY MemoryMap
<1>4. k \in EndpointCaps /\ k.type = "endpoint" /\ k.ptr = cs.cap[src].ptr /\ k.bits = cs.cap[src].bits
  BY <1>2, <1>3 DEF EndpointCaps
<1>5. Copies(cs, src, k)
  <2> HIDE DEF k
  <2> QED BY <1>1, <1>4 DEF Copies, Objects, RealCaps
<1>6. (\E new : Sound(d, new)) /\ TreeStep(cs, d)
  <2> HIDE DEF k
  <2> QED BY <1>2, <1>5, CopyStep, TreeSteps
<1> HIDE DEF d
<1> QED BY <1>1, <1>6, FinishSafe

\* CNode_Move.
LEMMA MoveSafe ==
  ASSUME NEW rank, Sound(cs, rank), NEW src \in Slots, NEW dest \in Slots, Holds(cs, src), Holds(cs, dest),
         CNodeMove(src, dest)
  PROVE  Safe(cs', op') /\ TreeStep(cs, cs')
<1> DEFINE d == cteMove(cs, cs.cap[src], src, dest)
<1>1. cs.cap[dest] = NullCap /\ cs.cap[src] # NullCap /\ Finish(d)
  BY DEF CNodeMove
<1>2. src # dest /\ dest \notin used(cs) /\ src \in used(cs)
  BY <1>1, SoundFields
<1>3. Sound(d, [s \in Slots |-> rank[flip(src, dest, s)]]) /\ Exchanged(cs, src, dest, d)
  BY <1>2, MoveStep
<1> HIDE DEF d
<1>4. TreeStep(cs, d)
  BY <1>2, <1>3, TreeSteps
<1> QED BY <1>1, <1>3, <1>4, FinishSafe

\* CNode_Rotate.
LEMMA RotateSafe ==
  ASSUME NEW rank, Sound(cs, rank), NEW src \in Slots, NEW pivot \in Slots, NEW dest \in Slots,
         Holds(cs, src), Holds(cs, pivot), Holds(cs, dest), CNodeRotate(src, pivot, dest)
  PROVE  Safe(cs', op') /\ TreeStep(cs, cs')
<1> DEFINE d == cteSwap(cs, cs.cap[src], src, cs.cap[pivot], pivot)
           e == cteMove(cteMove(cs, cs.cap[pivot], pivot, dest), cs.cap[src], src, pivot)
<1>1. /\ src # pivot /\ pivot # dest /\ (src # dest => cs.cap[dest] = NullCap)
      /\ src \in used(cs) /\ pivot \in used(cs)
      /\ IF src = dest THEN Finish(d) ELSE Finish(e)
  BY DEF CNodeRotate, used
<1>2. CASE src = dest
  <2>1. Sound(d, [s \in Slots |-> rank[flip(src, pivot, s)]]) /\ Exchanged(cs, src, pivot, d)
    BY <1>1, SwapStep
  <2> HIDE DEF d, e
  <2>2. TreeStep(cs, d)
    BY <1>1, <2>1, TreeSteps
  <2> QED BY <1>1, <1>2, <2>1, <2>2, FinishSafe
<1>3. CASE src # dest
  <2>1. dest \notin used(cs)
    BY <1>1, <1>3, SoundFields
  <2>2. /\ \E new : Sound(e, new)
        /\ \E f : Exchanged(cs, pivot, dest, f) /\ Exchanged(f, src, pivot, e)
    BY <1>1, <1>3, <2>1, RotateStep
  <2> HIDE DEF d, e
  <2>3. TreeStep(cs, e)
    BY <1>1, <1>3, <2>1, <2>2 DEF TreeStep
  <2> QED BY <1>1, <1>3, <2>2, <2>3, FinishSafe
<1> QED BY <1>2, <1>3

\* TCB_SetSpace: the old root is no zombie and not the last cap to its CNode, so that emptying its
\* slot is all that deleting it takes.
LEMMA SetSpaceSafe ==
  ASSUME NEW rank, Sound(cs, rank), NEW t \in Slots, NEW src \in Slots, TCBSetSpace(t, src)
  PROVE  Safe(cs', op') /\ TreeStep(cs, cs')
<1> DEFINE tcb == cs.cap[t].ptr
           k == cs.cap[src]
           ok == cs.cap[tcb] # NullCap => capRemovable(finaliseCap(cs, tcb), tcb)
           e == emptySlot(cs, tcb)
           same == sameObjectAs(k, e.cap[src]) /\ sameObjectAs(ThreadCap(tcb), e.cap[t])
           d == cteInsert(e, k, src, tcb)
<1>1. cs.cap[t].type = "thread" /\ k.type = "cnode" /\ ~slotCapLongRunningDelete(cs, tcb)
  BY DEF TCBSetSpace
<1>2. /\ t \in used(cs) /\ src \in used(cs) /\ cs \in Databases
      /\ cs.cap[t] \in RealCaps /\ Proper(cs.cap[t]) /\ k \in RealCaps
  BY <1>1, SoundFields DEF used
<1>3. tcb \in Nat /\ tcb < end(cs.cap[t]) /\ tcb \in Slots
  <2>1. tcb \in Nat /\ tcb < end(cs.cap[t])
    BY <1>2, CapFields
  <2> QED BY <1>2, <2>1 DEF Proper
<1>4. cs.cap[tcb] # NullCap => capRemovable(finaliseCap(cs, tcb), tcb)
  <2>1. CASE cs.cap[tcb].type = "zombie"
    BY <1>1, <2>1, ZombieFinal DEF slotCapLongRunningDelete
  <2>2. CASE cs.cap[tcb].type # "zombie"
    <3>1. finaliseCap(cs, tcb) = NullCap
      BY <1>1, <2>2 DEF slotCapLongRunningDelete, finaliseCap
    <3> QED BY <3>1 DEF capRemovable, NullCap
  <2> QED BY <2>1, <2>2
<1>5. Assert_(cs, ok) = cs
  <2>1. ok \in BOOLEAN
    OBVIOUS
  <2>2. ok
    BY <1>4
  <2> HIDE DEF ok
  <2> QED BY <1>2, <2>1, <2>2, AssertHolds
<1>6. IF same THEN Finish(d) ELSE Finish(e)
  <2>1. /\ emptySlot(Assert_(cs, ok), tcb) = e
    BY <1>5
  <2> HIDE DEF e
  <2> QED BY <2>1 DEF TCBSetSpace
<1>7. Sound(e, rank) /\ Emptied(cs, tcb, e)
  BY <1>3, <1>4, EmptyStep
<1> HIDE DEF e
<1>8. CASE same
  <2>1. /\ src \in used(e) /\ t \in used(e) /\ src # tcb /\ t # tcb
    <3>1. e.cap[src] \in Caps /\ e.cap[t] \in Caps /\ k \in Caps /\ ThreadCap(tcb) \in Caps
      <4>1. ThreadCap(tcb) \in Caps
        BY <1>3 DEF Caps, RealCaps, ThreadCap, ThreadCaps
      <4> QED BY <1>2, <1>7, <4>1, DatabaseFields DEF Sound, Structure, Caps
    <3>2. e.cap[src] # NullCap /\ e.cap[t] # NullCap
      BY <1>8, <3>1, NullRegion
    <3> QED BY <1>7, <3>2, SoundFields DEF Emptied
  <2>2. e.cap[src] = k /\ e.cap[t] = cs.cap[t] /\ tcb \notin used(e)
    BY <1>7, <2>1 DEF Emptied
  <2>3. Holds(e, tcb)
    <3>1. tcb \in region(cs.cap[t])
      <4>1. BIT(cs.cap[t].bits) \in Nat /\ BIT(cs.cap[t].bits) >= 1
        BY <1>2, CapFields
      <4> QED BY <1>3, <4>1 DEF region
    <3>2. tcb \in storage(e.cap[t])
      BY <1>1, <2>2, <3>1 DEF storage
    <3> QED BY <2>1, <3>2 DEF Holds
  <2>4. Copies(e, src, k)
    BY <1>1, <1>2, <2>2 DEF Copies, Objects
  <2>5. (\E new : Sound(d, new)) /\ Grafted(e, {tcb}, d)
    <3> HIDE DEF tcb, k
    <3> QED BY <1>3, <1>7, <2>1, <2>2, <2>3, <2>4, CopyStep
  <2>6. TreeStep(cs, d)
    <3> HIDE DEF tcb, d
    <3>1. CASE SameTree(cs, e)
      <4>1. Grafted(cs, {tcb}, d)
        BY <2>5, <3>1, SameBefore
      <4> QED BY <4>1, TreeSteps
    <3>2. CASE Pruned(cs, tcb, e)
      BY <2>5, <3>2 DEF TreeStep
    <3> QED BY <1>7, <3>1, <3>2 DEF Emptied
  <2> HIDE DEF d, same
  <2> QED BY <1>6, <1>8, <2>5, <2>6, FinishSafe
<1>9. CASE ~same
  <2> HIDE DEF d, same
  <2>1. TreeStep(cs, e)
    BY <1>7, TreeSteps DEF Emptied
  <2> QED BY <1>6, <1>7, <1>9, <2>1, FinishSafe
<1> QED BY <1>8, <1>9

\* An iteration of cteRevoke.
LEMMA RevokeSafe ==
  ASSUME NEW rank, Sound(cs, rank), NEW o, Shape(o), o.target \in Slots, cteRevoke(o)
  PROVE  Safe(cs', op') /\ TreeStep(cs, cs')
<1> DEFINE n == cs.next[o.target]
           p == [o EXCEPT !.pc = "finaliseSlot", !.del = n]
<1>1. CASE hasChildren(cs, o.target) /\ finaliseSlot(p)
  <2>1. n \in Slots
    <3>1. n # Null
      BY <1>1 DEF hasChildren
    <3> QED BY <3>1, SoundFields, DatabaseFields DEF Links
  <2> HIDE DEF n
  <2>2. /\ p \in [pc : {"finaliseSlot"}, target : Links, del : Links, zombie : {o.zombie}, inner : Links,
                  retype : {o.retype}]
        /\ p.pc = "finaliseSlot" /\ p.del = n /\ p.zombie = o.zombie /\ p.retype = o.retype
    BY <2>1 DEF Shape, Links
  <2> HIDE DEF p
  <2>3. Shape(p)
    BY <2>2 DEF Shape
  <2> QED BY <1>1, <2>1, <2>2, <2>3, FinaliseSlotSafe
<1>2. CASE op' = Idle /\ cs' = cs
  BY <1>2, SafeIdle, TreeSteps
<1> QED BY <1>1, <1>2 DEF cteRevoke

\* CNode_Delete and CNode_Revoke.
LEMMA DeleteSafe ==
  ASSUME NEW rank, Sound(cs, rank), NEW s \in Slots, CNodeDelete(s) \/ CNodeRevoke(s)
  PROVE  Safe(cs', op') /\ TreeStep(cs, cs')
<1> DEFINE d == [Idle EXCEPT !.del = s]
           r == [Idle EXCEPT !.target = s]
           New == [pc : {"idle"}, target : Links, del : Links, zombie : {NullCap}, inner : Links, retype : {NoRetype}]
<1>1. /\ d \in New /\ d.pc = "idle" /\ d.del = s /\ d.zombie = NullCap /\ d.retype = NoRetype
      /\ r \in New /\ r.pc = "idle" /\ r.target = s /\ r.zombie = NullCap /\ r.retype = NoRetype
  BY DEF Idle, Links
<1>2. CASE CNodeDelete(s)
  <2>1. finaliseSlot(d)
    BY <1>2 DEF CNodeDelete
  <2> HIDE DEF d
  <2>2. Shape(d)
    BY <1>1 DEF Shape
  <2> QED BY <1>1, <2>1, <2>2, FinaliseSlotSafe
<1>3. CASE CNodeRevoke(s)
  <2>1. cteRevoke(r)
    BY <1>3 DEF CNodeRevoke
  <2> HIDE DEF r
  <2>2. Shape(r)
    BY <1>1 DEF Shape
  <2> QED BY <1>1, <2>1, <2>2, RevokeSafe
<1> QED BY <1>2, <1>3

\* Making the objects of a request.
LEMMA RetypeStep ==
  ASSUME NEW c, NEW rank, Sound(c, rank), NEW r, Request(c, r), NEW lo, Fresh(c, rank, r.slot, lo), lo \in Nat,
         lo <= r.base
  PROVE  (\E new : Sound(retypeObjects(c, r), new)) /\ TreeStep(c, retypeObjects(c, r))
<1> DEFINE d == retypeObjects(c, r)
<1>1. Structure(c, rank) /\ Held(c) /\ c.asserts /\ c \in Databases
  BY SoundFields
<1>2. Fresh(c, rank, r.slot, r.base)
  <2> SUFFICES ASSUME NEW x \in used(c), rank[r.slot] < rank[x], inside(c.cap[r.slot], c.cap[x])
               PROVE  end(c.cap[x]) <= r.base
    BY DEF Fresh
  <2>1. end(c.cap[x]) <= lo
    BY DEF Fresh
  <2>2. end(c.cap[x]) \in Nat /\ r.base \in Nat
    BY <1>1, DatabaseFields, CapFields DEF Request
  <2> QED BY <2>1, <2>2
<1>3. (\E new : Structure(d, new)) /\ Grown(c, destSlots(r), d) /\ Grafted(c, destSlots(r), d)
  BY <1>1, <1>2, RetypeStructure
<1> HIDE DEF d
<1>4. ASSUME NEW x \in destSlots(r) PROVE \E t \in used(c) : x \in storage(c.cap[t])
  <2>1. PICK t \in used(c) : c.cap[t].type = "cnode" /\ destSlots(r) \subseteq region(c.cap[t])
    BY DEF Request
  <2>2. x \in storage(c.cap[t])
    BY <2>1 DEF storage
  <2> QED BY <2>2
<1>5. Held(d)
  BY <1>1, <1>3, <1>4, GrownHeld
<1>6. d.asserts
  BY <1>1, <1>3 DEF Grown
<1>7. TreeStep(c, d)
  BY <1>3, TreeSteps
<1> QED BY <1>3, <1>5, <1>6, <1>7 DEF Sound, d

\* decodeUntypedInvocation lets a request through only if the new objects lie in memory that no
\* cap names.
LEMMA RetypeSafe ==
  ASSUME NEW rank, Sound(cs, rank), NEW slot \in Slots, NEW dest \in lookupSlot, NEW o \in ObjectSizes,
         NEW n \in 1 .. MaxRetype, dest .. dest + n - 1 \subseteq lookupSlot,
         \E t \in Slots : cs.cap[t].type = "cnode" /\ dest .. dest + n - 1 \subseteq region(cs.cap[t]),
         UntypedRetype(slot, o[1], o[2], dest, n)
  PROVE  Safe(cs', op') /\ TreeStep(cs, cs')
<1> DEFINE cap == cs.cap[slot]
           reset == ~hasChildren(cs, slot)
           free == IF reset THEN 0 ELSE cap.free
           bits == o[2]
           r == [slot |-> slot, type |-> o[1], bits |-> bits, dest |-> dest, n |-> n,
                 base |-> alignUp(cap.ptr + free, bits)]
<1>1. /\ op = Idle /\ cap.type = "untyped" /\ \A s \in dest .. dest + n - 1 : cs.cap[s] = NullCap
      /\ (BIT(cap.bits) - free) \div BIT(bits) >= n
      /\ IF reset /\ cap.free # 0
         THEN op' = [op EXCEPT !.pc = "resetUntypedCap", !.retype = r] /\ UNCHANGED cs
         ELSE Finish(retypeObjects(cs, r))
  BY DEF UntypedRetype, Invoke
<1>2. Structure(cs, rank) /\ cs \in Databases
  BY SoundFields
<1>3. slot \in used(cs) /\ cap \in RealCaps /\ cap \in UntypedCaps /\ Proper(cap)
  BY <1>1, SoundFields, CapFields DEF used
<1>4. /\ cap.ptr \in Nat /\ cap.free \in Nat /\ cap.bits \in Nat /\ BIT(cap.bits) \in Nat
      /\ free \in Nat /\ free <= cap.free
  <2>1. /\ cap.ptr \in Nat /\ cap.free \in Nat /\ cap.bits \in Nat /\ BIT(cap.bits) \in Nat
    BY <1>3, CapFields DEF UntypedCaps
  <2> QED BY <2>1
<1>5. /\ o[1] \in {"untyped", "endpoint", "cnode", "thread"} /\ bits \in Nat
      /\ o[1] \in {"endpoint", "thread"} => bits = 0
      /\ n \in Nat /\ n >= 1
  BY MemoryMap
<1>6. dest \in Nat /\ dest \in Slots
  <2>1. dest \in Slots /\ Holds(cs, dest)
    BY Lookup
  <2>2. PICK t \in used(cs) : dest \in storage(cs.cap[t])
    BY <2>1 DEF Holds
  <2> QED BY <2>1, <2>2, SoundFields, StorageRegion
<1>7. \A s \in used(cs) : rank[slot] < rank[s] /\ inside(cap, cs.cap[s]) =>
        ~reset /\ end(cs.cap[s]) <= cap.ptr + cap.free
  <2> SUFFICES ASSUME NEW s \in used(cs), rank[slot] < rank[s], inside(cap, cs.cap[s])
               PROVE  ~reset /\ end(cs.cap[s]) <= cap.ptr + cap.free
    OBVIOUS
  <2>1. rank[slot] \in Nat /\ rank[s] \in Nat
    BY <1>2 DEF Structure, Ordered, used
  <2>2. ~reset
    BY <1>1, <1>2, <1>3, Childless
  <2>3. s # slot
    BY <2>1
  <2>4. ~(rank[s] < rank[slot])
    BY <2>1
  <2>5. end(cs.cap[s]) <= cap.ptr + cap.free
    BY <1>1, <1>2, <1>3, <2>3, <2>4 DEF Structure, Covered
  <2> QED BY <2>2, <2>5
<1>8. /\ alignUp(cap.ptr + free, bits) \in Nat /\ cap.ptr + free <= alignUp(cap.ptr + free, bits)
      /\ \E j \in Nat : alignUp(cap.ptr + free, bits) = j * BIT(bits)
  <2>1. cap.ptr + free \in Nat
    BY <1>4
  <2> HIDE DEF free, cap
  <2> QED BY <1>5, <2>1, AlignUp
<1>9. alignUp(cap.ptr + free, bits) + n * BIT(bits) <= end(cap)
  <2> HIDE DEF free, cap
  <2> QED BY <1>1, <1>3, <1>4, <1>5, ObjectsFit
<1>10. /\ r.slot = slot /\ r.type = o[1] /\ r.bits = bits /\ r.dest = dest /\ r.n = n
       /\ r.base = alignUp(cap.ptr + free, bits)
  OBVIOUS
<1> HIDE DEF r
<1>11. Request(cs, r)
  <2>1. ASSUME NEW x \in destSlots(r) PROVE x \in Slots /\ x \notin used(cs)
    <3>1. x \in lookupSlot /\ cs.cap[x] = NullCap
      BY <1>1, <1>10, <2>1 DEF destSlots
    <3>2. x \in Slots
      BY <3>1, Lookup
    <3> QED BY <3>1, <3>2, SoundFields
  <2>2. \E t \in used(cs) : cs.cap[t].type = "cnode" /\ destSlots(r) \subseteq region(cs.cap[t])
    <3>1. PICK t \in Slots : cs.cap[t].type = "cnode" /\ dest .. dest + n - 1 \subseteq region(cs.cap[t])
      OBVIOUS
    <3> QED BY <1>10, <3>1 DEF used, destSlots
  <2>3. r.base \in Nat /\ (\E j \in Nat : r.base = j * BIT(r.bits)) /\ cap.ptr <= r.base
    <3> HIDE DEF free, cap
    <3> QED BY <1>4, <1>8, <1>10
  <2>4. r.base + r.n * BIT(r.bits) <= end(cap)
    BY <1>9, <1>10
  <2> QED BY <1>1, <1>3, <1>5, <1>6, <1>10, <2>1, <2>2, <2>3, <2>4 DEF Request
<1>12. CASE reset /\ cap.free # 0
  <2>1. op' = [Idle EXCEPT !.pc = "resetUntypedCap", !.retype = r] /\ cs' = cs
    BY <1>1, <1>12 DEF r
  <2>2. /\ op' \in [pc : {"resetUntypedCap"}, target : Links, del : Links, zombie : {NullCap}, inner : Links,
                    retype : {r}]
        /\ op'.pc = "resetUntypedCap" /\ op'.zombie = NullCap /\ op'.retype = r
    BY <2>1 DEF Idle, Links
  <2>3. Shape(op')
    BY <2>2 DEF Shape
  <2>4. Progress(op')
    BY <2>2, <2>3 DEF Progress
  <2>5. Fresh(cs, rank, slot, cap.ptr)
    BY <1>7, <1>12 DEF Fresh
  <2>6. Resetting(cs', rank, op')
    BY <1>10, <1>11, <2>1, <2>2, <2>5 DEF Resetting
  <2> QED BY <2>1, <2>2, <2>4, <2>6, TreeSteps DEF Safe
<1>13. CASE ~(reset /\ cap.free # 0)
  <2> DEFINE lo == cap.ptr + free
  <2>1. Fresh(cs, rank, slot, lo)
    <3> SUFFICES ASSUME NEW s \in used(cs), rank[slot] < rank[s], inside(cap, cs.cap[s])
                 PROVE  end(cs.cap[s]) <= lo
      BY DEF Fresh
    <3> QED BY <1>7
  <2>2. lo \in Nat /\ lo <= r.base
    BY <1>4, <1>8, <1>10
  <2> HIDE DEF lo
  <2>3. (\E new : Sound(retypeObjects(cs, r), new)) /\ TreeStep(cs, retypeObjects(cs, r))
    BY <1>10, <1>11, <2>1, <2>2, RetypeStep
  <2>4. Finish(retypeObjects(cs, r))
    BY <1>1, <1>13 DEF r
  <2> QED BY <2>3, <2>4, FinishSafe
<1> QED BY <1>12, <1>13

\* An iteration of resetUntypedCap.
LEMMA ResetSafe ==
  ASSUME Safe(cs, op), ResetUntypedCap
  PROVE  Safe(cs', op') /\ TreeStep(cs, cs')
<1> DEFINE u == op.retype.slot
           cap == cs.cap[u]
           small == BIT(cap.bits) < ResetChunk
           offset == IF small THEN 0 ELSE ResetChunk * ((cap.free - 1) \div ResetChunk)
           size == IF small THEN BIT(cap.bits) ELSE ResetChunk
           S == cap.ptr + offset .. cap.ptr + offset + size - 1
<1>1. /\ op.pc = "resetUntypedCap" /\ cap.free # 0
      /\ cs' = [clearSlots(cs, S) EXCEPT !.cap[u].free = offset]
      /\ op' \in {op, Idle}
  BY DEF ResetUntypedCap, PreemptionPoint
<1>2. PICK rank : Sound(cs, rank) /\ Progress(op) /\ Resetting(cs, rank, op)
  BY <1>1 DEF Safe
<1>3. /\ Structure(cs, rank) /\ cs \in Databases /\ Held(cs) /\ cs.asserts
      /\ u \in used(cs) /\ cap.type = "untyped" /\ cap \in RealCaps /\ Proper(cap)
      /\ Fresh(cs, rank, u, cap.ptr) /\ Request(cs, op.retype)
  BY <1>2, SoundFields DEF Resetting, Request
<1>4. /\ cap.ptr \in Nat /\ cap.bits \in Nat /\ BIT(cap.bits) \in Nat /\ BIT(cap.bits) >= 1
      /\ cap.free \in Nat /\ cap.free >= 1 /\ cap.free <= BIT(cap.bits) /\ end(cap) = cap.ptr + BIT(cap.bits)
  <2>1. /\ cap.ptr \in Nat /\ cap.bits \in Nat /\ BIT(cap.bits) \in Nat /\ BIT(cap.bits) >= 1
        /\ cap \in UntypedCaps
    BY <1>3, CapFields
  <2>2. cap.free \in Nat /\ cap.free <= BIT(cap.bits)
    BY <1>3, <2>1 DEF UntypedCaps, Proper
  <2>3. end(cap) = cap.ptr + BIT(cap.bits)
    BY DEF end
  <2>4. cap.free >= 1
    <3>1. cap.free # 0
      BY <1>1
    <3> HIDE DEF cap
    <3> QED BY <2>2, <3>1
  <2> HIDE DEF cap
  <2> QED BY <2>1, <2>2, <2>3, <2>4
<1>5. ResetChunk \in Nat
  BY MemoryMap, BitType
<1>6. offset \in Nat /\ offset <= cap.free /\ offset + size <= BIT(cap.bits) /\ size \in Nat
  <2>1. CASE small
    <3>1. offset = 0 /\ size = BIT(cap.bits)
      BY <2>1
    <3> HIDE DEF cap, offset, size, small
    <3> QED BY <1>4, <3>1
  <2>2. CASE ~small
    <3>1. ResetChunk <= BIT(cap.bits)
      <4> HIDE DEF cap
      <4> QED BY <1>4, <1>5, <2>2
    <3>2. offset = ResetChunk * ((cap.free - 1) \div ResetChunk) /\ size = ResetChunk
      BY <2>2
    <3> HIDE DEF cap, offset, size, small
    <3> QED BY <1>4, <1>5, <3>1, <3>2, ChunkFits
  <2> QED BY <2>1, <2>2
<1> HIDE DEF offset, size
<1>7. \A x \in S : x \in Nat /\ cap.ptr <= x /\ x < end(cap)
  <2> SUFFICES ASSUME NEW x \in S PROVE x \in Nat /\ cap.ptr <= x /\ x < end(cap)
    OBVIOUS
  <2>1. x \in Int /\ cap.ptr + offset <= x /\ x <= cap.ptr + offset + size - 1
    BY <1>4, <1>6
  <2> HIDE DEF S, cap
  <2> QED BY <1>4, <1>6, <2>1
<1> HIDE DEF S
<1>8. Reset(cs, rank, u, [clearSlots(cs, S) EXCEPT !.cap[u].free = offset])
  <2> HIDE DEF u
  <2> QED BY <1>3, <1>6, <1>7, ResetStructure
<1>9. Reset(cs, rank, u, cs')
  BY <1>1, <1>8
<1>10. Sound(cs', rank)
  BY <1>3, <1>9 DEF Reset, Sound
<1>11. Request(cs', op.retype)
  <2>1. PICK t \in used(cs) : cs.cap[t].type = "cnode" /\ destSlots(op.retype) \subseteq region(cs.cap[t])
    BY <1>3 DEF Request
  <2>2. t \in used(cs') /\ cs'.cap[t] = cs.cap[t]
    <3>1. t \in Slots /\ t # u
      BY <1>3, <2>1 DEF used
    <3> QED BY <1>9, <3>1 DEF Reset
  <2>3. /\ used(cs') = used(cs) /\ cs'.cap[u].type = "untyped" /\ cs'.cap[u].ptr = cap.ptr
        /\ end(cs'.cap[u]) = end(cap)
    BY <1>9 DEF Reset, end
  <2> QED BY <1>3, <2>1, <2>2, <2>3 DEF Request
<1>12. Resetting(cs', rank, op)
  BY <1>9, <1>11 DEF Reset, Resetting
<1>13. ASSUME op' = Idle PROVE Safe(cs', op')
  BY <1>10, <1>13, SafeIdle
<1>14. ASSUME op' = op PROVE Safe(cs', op')
  BY <1>1, <1>2, <1>10, <1>12, <1>14 DEF Safe
<1>15. TreeStep(cs, cs')
  BY <1>9, TreeSteps DEF Reset
<1> QED BY <1>1, <1>13, <1>14, <1>15

\* The rest of a Retype, once the untyped has been reset.
LEMMA AfterResetSafe ==
  ASSUME Safe(cs, op), RetypeAfterReset
  PROVE  Safe(cs', op') /\ TreeStep(cs, cs')
<1> DEFINE r == op.retype
<1>1. op.pc = "resetUntypedCap" /\ Finish(retypeObjects(cs, r))
  BY DEF RetypeAfterReset
<1>2. PICK rank : Sound(cs, rank) /\ Resetting(cs, rank, op)
  BY <1>1 DEF Safe
<1>3. /\ Request(cs, r) /\ Fresh(cs, rank, r.slot, cs.cap[r.slot].ptr)
      /\ cs.cap[r.slot].ptr <= r.base /\ r.slot \in used(cs)
  BY <1>2 DEF Resetting, Request
<1>4. cs.cap[r.slot].ptr \in Nat
  BY <1>2, <1>3, SoundFields, CapFields
<1> HIDE DEF r
<1>5. (\E new : Sound(retypeObjects(cs, r), new)) /\ TreeStep(cs, retypeObjects(cs, r))
  BY <1>2, <1>3, <1>4, RetypeStep
<1> QED BY <1>1, <1>5, FinishSafe

\* An invocation by a user program.
LEMMA UserSafe ==
  ASSUME Safe(cs, op), UserInvocation
  PROVE  Safe(cs', op') /\ TreeStep(cs, cs')
<1> DEFINE Named == lookupSlot
           Dest == destSlot(Named)
           Goal == Safe(cs', op') /\ TreeStep(cs, cs')
<1>1. PICK rank : Sound(cs, rank)
  BY DEF Safe
<1>2. \A s \in Named : s \in Slots /\ Holds(cs, s)
  BY <1>1, Lookup
<1>3. Dest \subseteq Named
  BY DEF destSlot
<1>4. \A d \in Dest : d \in Named /\ d \in Slots /\ Holds(cs, d)
  BY <1>2, <1>3
<1> HIDE DEF Dest, Named
<1>5. ASSUME NEW s \in Named, NEW d \in Dest, CNodeCopy(s, d) \/ CNodeMove(s, d) PROVE Goal
  BY <1>1, <1>2, <1>4, <1>5, CopySafe, MoveSafe
<1>6. ASSUME NEW s \in Named, NEW d \in Dest, NEW b \in Badges, CNodeMint(s, d, b) PROVE Goal
  BY <1>1, <1>2, <1>4, <1>6, MintSafe
<1>7. ASSUME NEW s \in Named, NEW p \in Named, NEW d \in Named, CNodeRotate(s, p, d) PROVE Goal
  BY <1>1, <1>2, <1>7, RotateSafe
<1>8. ASSUME NEW t \in Named, NEW s \in Named, TCBSetSpace(t, s) PROVE Goal
  BY <1>1, <1>2, <1>8, SetSpaceSafe
<1>9. ASSUME NEW s \in Named, CNodeDelete(s) \/ CNodeRevoke(s) PROVE Goal
  BY <1>1, <1>2, <1>9, DeleteSafe
<1>10. ASSUME NEW s \in Named, NEW d \in Dest, NEW o \in ObjectSizes, NEW n \in 1 .. MaxRetype,
              d .. d + n - 1 \subseteq Named,
              \E t \in Slots : cs.cap[t].type = "cnode" /\ d .. d + n - 1 \subseteq region(cs.cap[t]),
              UntypedRetype(s, o[1], o[2], d, n)
       PROVE  Goal
  BY <1>1, <1>2, <1>4, <1>10, RetypeSafe DEF Named
<1> QED BY <1>5, <1>6, <1>7, <1>8, <1>9, <1>10 DEF UserInvocation, Named, Dest

\* Every step keeps the inductive invariant and is one operation on the forest.
LEMMA StepSafe ==
  ASSUME Safe(cs, op), [Next]_vars
  PROVE  Safe(cs', op') /\ TreeStep(cs, cs')
<1>1. CASE UserInvocation
  BY <1>1, UserSafe
<1>2. CASE RevokeNext
  <2>1. PICK rank : Sound(cs, rank) /\ Progress(op)
    BY DEF Safe
  <2>2. Shape(op) /\ op.target \in Slots /\ cteRevoke(op)
    BY <1>2, <2>1 DEF RevokeNext, Progress
  <2> QED BY <2>1, <2>2, RevokeSafe
<1>3. CASE FinaliseSlot
  <2>1. PICK rank : Sound(cs, rank) /\ Progress(op)
    BY DEF Safe
  <2>2. Shape(op) /\ op.del \in Slots /\ finaliseSlot(op)
    BY <1>3, <2>1 DEF FinaliseSlot, Progress
  <2> QED BY <2>1, <2>2, FinaliseSlotSafe
<1>4. CASE EndSlot
  BY <1>4, EndSlotSafe
<1>5. CASE ResetUntypedCap
  BY <1>5, ResetSafe
<1>6. CASE RetypeAfterReset
  BY <1>6, AfterResetSafe
<1>7. CASE UNCHANGED vars
  <2>1. cs' = cs /\ op' = op
    BY <1>7 DEF vars
  <2> QED BY <2>1, TreeSteps
<1> QED BY <1>1, <1>2, <1>3, <1>4, <1>5, <1>6, <1>7 DEF Next, KernelStep

-----------------------------------------------------------------------------
(* The state at boot *)

\* The database before the root CNode is installed in the initial thread.
boot == {rootSlot(i) : i \in 0 .. 2}

BootCS ==
  [cap         |-> [s \in Slots |->
                      CASE s = rootSlot(0) -> ThreadCap(InitTCB)
                        [] s = rootSlot(1) -> CNodeCap(RootCNode, RootBits)
                        [] s = rootSlot(2) -> UntypedCap(0, UntypedBits, 0)
                        [] OTHER -> NullCap],
   next        |-> [s \in Slots |-> Null],
   prev        |-> [s \in Slots |-> Null],
   revocable   |-> boot,
   firstBadged |-> boot,
   asserts     |-> TRUE]

\* The slots of the root CNode that are in use at boot.
LEMMA BootSlots ==
  /\ rootSlot(0) \in Slots /\ rootSlot(1) \in Slots /\ rootSlot(2) \in Slots /\ InitTCB \in Slots
  /\ rootSlot(0) = RootCNode /\ rootSlot(1) = RootCNode + 1 /\ rootSlot(2) = RootCNode + 2
  /\ boot = {rootSlot(0), rootSlot(1), rootSlot(2)} /\ InitTCB \notin boot
<1>1. rootSlot(0) = RootCNode /\ rootSlot(1) = RootCNode + 1 /\ rootSlot(2) = RootCNode + 2
  BY BootMemory DEF rootSlot
<1>2. RootCNode \in Slots /\ RootCNode + 1 \in Slots /\ RootCNode + 2 \in Slots /\ InitTCB \in Slots
  BY BootMemory DEF Slots
<1>3. boot = {rootSlot(0), rootSlot(1), rootSlot(2)}
  <2>1. 0 .. 2 = {0, 1, 2}
    OBVIOUS
  <2> QED BY <2>1 DEF boot
<1>4. InitTCB \notin {RootCNode, RootCNode + 1, RootCNode + 2}
  BY BootMemory
<1> QED BY <1>1, <1>2, <1>3, <1>4

\* The caps at boot name disjoint memory.
LEMMA BootCaps ==
  LET T == ThreadCap(InitTCB)
      N == CNodeCap(RootCNode, RootBits)
      U == UntypedCap(0, UntypedBits, 0)
  IN  /\ T \in RealCaps /\ N \in RealCaps /\ U \in RealCaps
      /\ T.type = "thread" /\ N.type = "cnode" /\ U.type = "untyped"
      /\ T.ptr = InitTCB /\ end(T) = InitTCB + 1
      /\ N.ptr = RootCNode /\ end(N) = RootCNode + RootSize
      /\ U.ptr = 0 /\ end(U) = UntypedSize /\ U.free = 0 /\ U.bits = UntypedBits
<1>1. InitTCB \in Nat /\ RootCNode \in Nat /\ RootBits \in Nat /\ UntypedBits \in Nat /\ BIT(0) = 1
      /\ UntypedSize \in Nat
  BY BootMemory, MemoryMap
<1>2. /\ ThreadCap(InitTCB) \in ThreadCaps /\ CNodeCap(RootCNode, RootBits) \in CNodeCaps
      /\ UntypedCap(0, UntypedBits, 0) \in UntypedCaps
  BY <1>1 DEF ThreadCap, CNodeCap, UntypedCap, ThreadCaps, CNodeCaps, UntypedCaps
<1>3. /\ ThreadCap(InitTCB).bits = 0 /\ CNodeCap(RootCNode, RootBits).bits = RootBits
      /\ UntypedCap(0, UntypedBits, 0).bits = UntypedBits
      /\ ThreadCap(InitTCB).ptr = InitTCB /\ CNodeCap(RootCNode, RootBits).ptr = RootCNode
      /\ UntypedCap(0, UntypedBits, 0).ptr = 0 /\ UntypedCap(0, UntypedBits, 0).free = 0
      /\ ThreadCap(InitTCB).type = "thread" /\ CNodeCap(RootCNode, RootBits).type = "cnode"
      /\ UntypedCap(0, UntypedBits, 0).type = "untyped"
  BY DEF ThreadCap, CNodeCap, UntypedCap
<1>4. 0 + BIT(UntypedBits) = BIT(UntypedBits)
  BY <1>1 DEF UntypedSize
<1> QED BY <1>1, <1>2, <1>3, <1>4 DEF RealCaps, end, RootSize, UntypedSize

\* What the slots hold.
LEMMA BootContents ==
  /\ BootCS.next = [s \in Slots |-> Null] /\ BootCS.prev = [s \in Slots |-> Null]
  /\ BootCS.revocable = boot /\ BootCS.firstBadged = boot /\ BootCS.asserts = TRUE
  /\ \A s \in Slots : s \notin boot => BootCS.cap[s] = NullCap
  /\ BootCS.cap[rootSlot(0)] = ThreadCap(InitTCB)
  /\ BootCS.cap[rootSlot(1)] = CNodeCap(RootCNode, RootBits)
  /\ BootCS.cap[rootSlot(2)] = UntypedCap(0, UntypedBits, 0)
<1> DEFINE c == BootCS
           T == ThreadCap(InitTCB)
           N == CNodeCap(RootCNode, RootBits)
           U == UntypedCap(0, UntypedBits, 0)
<1>2. rootSlot(0) # rootSlot(1) /\ rootSlot(0) # rootSlot(2) /\ rootSlot(1) # rootSlot(2)
  BY BootSlots, BootMemory
<1> HIDE DEF T, N, U
<1>3. /\ c.next = [s \in Slots |-> Null] /\ c.prev = [s \in Slots |-> Null]
      /\ c.revocable = boot /\ c.firstBadged = boot /\ c.asserts = TRUE
      /\ \A s \in Slots : s \notin boot => c.cap[s] = NullCap
      /\ c.cap[rootSlot(0)] = T /\ c.cap[rootSlot(1)] = N /\ c.cap[rootSlot(2)] = U
  BY <1>2, BootSlots DEF BootCS, T, N, U
<1> QED BY <1>3 DEF T, N, U

bootRank == [s \in Slots |-> IF s = rootSlot(0) THEN 0 ELSE IF s = rootSlot(1) THEN 1 ELSE 2]

\* That database is sound: three caps, none derived from another.
LEMMA BootSound == Sound(BootCS, bootRank)
<1> DEFINE c == BootCS
           T == ThreadCap(InitTCB)
           N == CNodeCap(RootCNode, RootBits)
           U == UntypedCap(0, UntypedBits, 0)
<1>1. /\ T \in RealCaps /\ N \in RealCaps /\ U \in RealCaps
      /\ T.type = "thread" /\ N.type = "cnode" /\ U.type = "untyped"
      /\ T.ptr = InitTCB /\ end(T) = InitTCB + 1
      /\ N.ptr = RootCNode /\ end(N) = RootCNode + RootSize
      /\ U.ptr = 0 /\ end(U) = UntypedSize /\ U.free = 0 /\ U.bits = UntypedBits
  BY BootCaps
<1>2. rootSlot(0) # rootSlot(1) /\ rootSlot(0) # rootSlot(2) /\ rootSlot(1) # rootSlot(2)
  BY BootSlots, BootMemory
<1>3. /\ c.next = [s \in Slots |-> Null] /\ c.prev = [s \in Slots |-> Null]
      /\ c.revocable = boot /\ c.firstBadged = boot /\ c.asserts = TRUE
      /\ \A s \in Slots : s \notin boot => c.cap[s] = NullCap
      /\ c.cap[rootSlot(0)] = T /\ c.cap[rootSlot(1)] = N /\ c.cap[rootSlot(2)] = U
  BY BootContents
<1> HIDE DEF T, N, U
<1>4. c \in Databases
  <2>1. \A s \in Slots : (CASE s = rootSlot(0) -> T
                            [] s = rootSlot(1) -> N
                            [] s = rootSlot(2) -> U
                            [] OTHER -> NullCap) \in Caps
    BY <1>1, <1>2 DEF Caps
  <2>2. boot \subseteq Slots /\ Null \in Links
    BY BootSlots DEF Links
  <2> QED BY <2>1, <2>2 DEF BootCS, Databases, T, N, U
<1> HIDE DEF c
<1>5. used(c) = boot
  <2>1. \A s \in Slots : s \in used(c) <=> c.cap[s] # NullCap
    BY <1>4, DatabaseFields
  <2>2. T # NullCap /\ N # NullCap /\ U # NullCap
    BY <1>1 DEF NullCap
  <2>3. used(c) \subseteq Slots /\ boot \subseteq Slots
    BY BootSlots DEF used
  <2>4. \A s \in boot : c.cap[s] # NullCap
    BY <1>3, <2>2, BootSlots
  <2> QED BY <1>3, <2>1, <2>3, <2>4
<1>6. \A s \in boot : (s = rootSlot(0) /\ c.cap[s] = T) \/ (s = rootSlot(1) /\ c.cap[s] = N)
                      \/ (s = rootSlot(2) /\ c.cap[s] = U)
  BY <1>3, BootSlots
<1>7. ASSUME NEW s \in boot, NEW t \in boot, s # t
      PROVE  ~meets(c.cap[s], c.cap[t]) /\ ~inside(c.cap[s], c.cap[t]) /\ ~Kin(c.cap[s], c.cap[t])
  <2>1. ~meets(c.cap[s], c.cap[t]) /\ ~inside(c.cap[s], c.cap[t])
    <3>1. c.cap[s] \in {T, N, U} /\ c.cap[t] \in {T, N, U} /\ c.cap[s] # c.cap[t]
      BY <1>1, <1>6, <1>7
    <3>2. ASSUME NEW a \in {T, N, U}, NEW b \in {T, N, U}, a # b PROVE ~meets(a, b) /\ ~inside(a, b)
      BY <1>1, <3>2, BootMemory DEF meets, inside
    <3> QED BY <3>1, <3>2
  <2>2. c.cap[s] \in RealCaps /\ c.cap[t] \in RealCaps
    BY <1>1, <1>6
  <2> QED BY <2>1, <2>2, KinMeets
<1>8. \A s \in Slots : c.next[s] = Null /\ c.prev[s] = Null
  BY <1>3
<1>9. Linked(c)
  BY <1>3, <1>5, <1>8 DEF Linked
<1>10. /\ bootRank \in [Slots -> Nat] /\ bootRank[rootSlot(0)] = 0 /\ bootRank[rootSlot(1)] = 1
       /\ bootRank[rootSlot(2)] = 2
  BY <1>2, BootSlots DEF bootRank
<1> HIDE DEF bootRank
<1>11. Ordered(c, bootRank)
  BY <1>5, <1>6, <1>8, <1>10, BootSlots DEF Ordered
<1>12. ASSUME NEW s \in boot, NEW t \in boot, bootRank[s] < bootRank[t] PROVE s # t
  <2>1. bootRank[s] \in Nat
    BY <1>10, BootSlots
  <2> QED BY <1>12, <2>1
<1>13. Chained(c, bootRank)
  BY <1>5, <1>7, <1>12 DEF Chained
<1>14. Covered(c, bootRank) /\ Nested(c) /\ OriginalFirst(c, bootRank)
  BY <1>5, <1>7 DEF Covered, Nested, OriginalFirst
<1>15. Proper(T)
  <2>1. \A x \in Nat : InitTCB <= x /\ x < InitTCB + 1 => x \in Slots
    BY BootMemory DEF Slots
  <2> QED BY <1>1, <2>1 DEF Proper
<1>16. Proper(N)
  <2>1. \A x \in Nat : RootCNode <= x /\ x < RootCNode + RootSize => x \in Slots
    BY BootMemory DEF Slots
  <2> QED BY <1>1, <2>1 DEF Proper
<1>17. Proper(U)
  <2>1. \A x \in Nat : 0 <= x /\ x < UntypedSize => x \in Slots
    BY BootMemory DEF Slots, Memory
  <2>2. BIT(U.bits) = UntypedSize
    BY <1>1 DEF UntypedSize
  <2>3. 0 = 0 * BIT(U.bits) /\ 0 <= BIT(U.bits) /\ UntypedSize <= UntypedSize
    BY <2>2, BootMemory
  <2> QED BY <1>1, <2>1, <2>3 DEF Proper
<1>18. Sized(c)
  BY <1>3, <1>5, <1>6, <1>15, <1>16, <1>17 DEF Sized
<1>19. Held(c)
  <2>1. storage(N) = RootCNode .. RootCNode + RootSize - 1
    <3>1. storage(N) = region(N)
      BY <1>1 DEF storage
    <3>2. N.bits = RootBits
      BY DEF N, CNodeCap
    <3> QED BY <1>1, <3>1, <3>2 DEF region, RootSize
  <2>2. boot \subseteq storage(N)
    BY <2>1, BootSlots, BootMemory
  <2>3. rootSlot(1) \in used(c) /\ c.cap[rootSlot(1)] = N
    BY <1>3, <1>5, BootSlots
  <2> QED BY <1>5, <2>2, <2>3 DEF Held
<1>20. BadgesRun(c)
  BY <1>3, <1>5 DEF BadgesRun
<1> QED BY <1>3, <1>4, <1>9, <1>11, <1>13, <1>14, <1>18, <1>19, <1>20 DEF Sound, Structure, c

\* The invariant holds at boot.
LEMMA InitSafe ==
  ASSUME Init
  PROVE  Safe(cs, op)
<1> DEFINE c == BootCS
           N == CNodeCap(RootCNode, RootBits)
           d == cteInsert(c, N, rootSlot(1), InitTCB)
<1>1. c.cap[rootSlot(1)] = N /\ c.cap[rootSlot(0)] = ThreadCap(InitTCB) /\ c.cap[InitTCB] = NullCap
  BY BootContents, BootSlots
<1>2. cs = d /\ op = Idle
  BY <1>1 DEF Init, InitCS, BootCS, boot
<1>3. Sound(c, bootRank)
  BY BootSound
<1> HIDE DEF c
<1>4. N.type = "cnode" /\ N \in RealCaps /\ ThreadCap(InitTCB).type = "thread" /\ ThreadCap(InitTCB) \in RealCaps
  BY BootCaps
<1>5. rootSlot(1) \in used(c) /\ rootSlot(0) \in used(c) /\ InitTCB \in Slots /\ InitTCB \notin used(c)
  <2>1. c.cap[InitTCB].type = "null"
    BY <1>1 DEF NullCap
  <2> QED BY <1>1, <1>4, <2>1, BootSlots DEF used
<1>6. Copies(c, rootSlot(1), N)
  BY <1>1, <1>4 DEF Copies, Objects
<1>7. Holds(c, InitTCB)
  <2>1. region(ThreadCap(InitTCB)) = InitTCB .. InitTCB + BIT(0) - 1
    BY DEF region, ThreadCap
  <2>2. InitTCB \in region(ThreadCap(InitTCB))
    BY <2>1, BootMemory
  <2>3. InitTCB \in storage(c.cap[rootSlot(0)])
    BY <1>1, <1>4, <2>2 DEF storage
  <2> QED BY <1>5, <2>3 DEF Holds
<1>8. \E new : Sound(d, new)
  <2> HIDE DEF N
  <2> QED BY <1>3, <1>5, <1>6, <1>7, CopyStep
<1> HIDE DEF d
<1> QED BY <1>2, <1>8, SafeIdle

-----------------------------------------------------------------------------
(* What cteRevoke and isFinalCapability find by following the lists *)

\* The caps before a cap, by their ranks.
LEMMA BeforeFinds ==
  ASSUME NEW rank, Structure(cs, rank), NEW u \in used(cs), NEW s \in used(cs), rank[u] < rank[s],
         \A x \in used(cs) : rank[u] < rank[x] /\ rank[x] <= rank[s] => cs.prev[x] # Null
  PROVE  u \in before(cs, s)
<1> DEFINE joined(x, t) == /\ t \in used(cs) /\ rank[x] < rank[t]
                           /\ \A y \in used(cs) : rank[x] < rank[y] /\ rank[y] <= rank[t] => cs.prev[y] # Null
           B == [t \in Slots |-> {x \in used(cs) : joined(x, t)}]
           rhs(f) == [t \in Slots |-> IF cs.prev[t] = Null THEN {} ELSE {cs.prev[t]} \cup f[cs.prev[t]]]
           b == CHOOSE f : f = rhs(f)
<1>1. /\ used(cs) \subseteq Slots /\ \A x \in used(cs) : rank[x] \in Nat
      /\ \A x, y \in used(cs) : rank[x] = rank[y] => x = y
      /\ \A t \in Slots : t \notin used(cs) => cs.prev[t] = Null
  BY DEF Structure, Ordered, Linked, used
<1>2. ASSUME NEW t \in Slots, cs.prev[t] = Null PROVE B[t] = {}
  <2> SUFFICES ASSUME NEW x \in used(cs), joined(x, t) PROVE FALSE
    OBVIOUS
  <2>1. t \in used(cs) /\ rank[t] \in Nat /\ rank[x] < rank[t]
    BY <1>1
  <2>2. rank[t] <= rank[t]
    BY <2>1
  <2> QED BY <1>2, <2>1, <2>2
<1>3. ASSUME NEW t \in Slots, cs.prev[t] # Null PROVE B[t] = {cs.prev[t]} \cup B[cs.prev[t]]
  <2> DEFINE p == cs.prev[t]
  <2>1. t \in used(cs)
    BY <1>1, <1>3
  <2>2. /\ p \in used(cs) /\ p \in Slots /\ rank[p] \in Nat /\ rank[t] \in Nat /\ rank[p] < rank[t]
        /\ \A x \in used(cs) : rank[x] < rank[t] <=> rank[x] <= rank[p]
    BY <1>1, <1>3, <2>1, Neighbours
  <2>3. \A y \in used(cs) : rank[y] <= rank[t] <=> (y = t \/ rank[y] <= rank[p])
    BY <1>1, <2>1, <2>2
  <2>4. cs.prev[t] # Null
    BY <1>3
  <2> HIDE DEF p
  <2>5. ASSUME NEW x \in used(cs) PROVE joined(x, t) <=> (x = p \/ joined(x, p))
    <3>1. rank[x] \in Nat /\ (rank[x] < rank[t] <=> (x = p \/ rank[x] < rank[p]))
      BY <1>1, <2>2
    <3>2. CASE x = p
      <4>1. ASSUME NEW y \in used(cs), rank[p] < rank[y], rank[y] <= rank[t] PROVE cs.prev[y] # Null
        <5>1. rank[y] \in Nat /\ ~(rank[y] <= rank[p])
          BY <1>1, <2>2, <4>1
        <5> QED BY <2>3, <2>4, <4>1, <5>1
      <4> QED BY <2>1, <2>2, <3>2, <4>1
    <3>3. CASE x # p
      BY <2>1, <2>2, <2>3, <2>4, <3>1, <3>3
    <3> QED BY <3>2, <3>3
  <2> HIDE DEF joined
  <2>6. B[t] = {x \in used(cs) : joined(x, t)} /\ B[p] = {x \in used(cs) : joined(x, p)}
    BY <2>2
  <2>7. B[t] = {p} \cup B[p]
    BY <2>2, <2>5, <2>6
  <2> QED BY <2>7 DEF p
<1>4. B = rhs(B)
  <2>1. \A t \in Slots : B[t] = IF cs.prev[t] = Null THEN {} ELSE {cs.prev[t]} \cup B[cs.prev[t]]
    <3> HIDE DEF B
    <3> QED BY <1>2, <1>3
  <2>2. B = [t \in Slots |-> B[t]]
    OBVIOUS
  <2> HIDE DEF B
  <2> QED BY <2>1, <2>2
<1>5. b = rhs(b)
  <2> HIDE DEF rhs, B
  <2> QED BY <1>4
<1>6. before(cs, s) = b[s]
  BY DEF before
<1> HIDE DEF b, B, joined
<1>7. \A t \in Slots : cs.prev[t] # Null => b[t] = {cs.prev[t]} \cup b[cs.prev[t]]
  BY <1>5
<1> DEFINE Bad == {n \in Nat : \E t \in used(cs) : n = rank[t] /\ rank[u] < rank[t] /\ rank[t] <= rank[s] /\ u \notin b[t]}
<1>8. Bad = {}
  <2> SUFFICES ASSUME Bad # {} PROVE FALSE
    OBVIOUS
  <2>1. PICK m \in Bad : \A x \in Bad : m <= x
    <3>1. Bad \subseteq Nat
      OBVIOUS
    <3> HIDE DEF Bad
    <3> QED BY <3>1, Minimum
  <2>2. PICK t \in used(cs) : m = rank[t] /\ rank[u] < rank[t] /\ rank[t] <= rank[s] /\ u \notin b[t]
    BY <2>1
  <2>3. cs.prev[t] # Null /\ t \in Slots
    BY <1>1, <2>2
  <2> DEFINE p == cs.prev[t]
  <2>4. /\ p \in used(cs) /\ rank[p] \in Nat /\ rank[t] \in Nat /\ rank[p] < rank[t]
        /\ rank[u] < rank[t] <=> rank[u] <= rank[p]
    BY <2>3, Neighbours
  <2>5. u \notin {p} \cup b[p]
    BY <1>7, <2>2, <2>3
  <2> HIDE DEF p
  <2>6. rank[u] < rank[p] /\ rank[p] <= rank[s] /\ u \notin b[p]
    BY <1>1, <2>2, <2>4, <2>5
  <2>7. rank[p] \in Bad
    BY <2>4, <2>6
  <2>8. ~(m <= rank[p])
    BY <2>2, <2>4
  <2> QED BY <2>1, <2>7, <2>8
<1> QED BY <1>1, <1>6, <1>8

-----------------------------------------------------------------------------
(* The invariants *)

\* The inductive invariant, the one fact the others follow from: at every preemption point there is
\* a layout of the lists in which what is derived from a cap follows it, and the invocation that was
\* left unfinished finds its zombie or its untyped as it needs it.
THEOREM Inductive == Spec => []IInv
<1>1. Init => IInv
  BY InitSafe DEF IInv
<1>2. IInv /\ [Next]_vars => IInv'
  BY StepSafe DEF IInv
<1> QED BY <1>1, <1>2, PTL DEF Spec

\* What the invariant says of a state.
LEMMA Invariant ==
  ASSUME IInv
  PROVE  \E rank : Sound(cs, rank) /\ Structure(cs, rank) /\ Progress(op)
BY SoundFields DEF IInv, Safe

\* The slots that hold caps.
LEMMA FullUsed ==
  /\ usedSlots = used(cs)
  /\ \A s \in Slots : full(s) <=> s \in used(cs)
BY DEF usedSlots, full, used

\* Links and preempted invocations never refer to anything but slots: the end slot that reduceZombie
\* computes is one of its object, whatever happened to the zombie since it was made.
THEOREM LinksAreSlots == Spec => []TypeOK
<1>1. IInv => TypeOK
  <2> SUFFICES ASSUME IInv PROVE TypeOK
    OBVIOUS
  <2>1. PICK rank : Sound(cs, rank) /\ Structure(cs, rank) /\ Progress(op)
    BY Invariant
  <2>2. /\ cs.next \in [Slots -> Links] /\ cs.prev \in [Slots -> Links] /\ cs.revocable \subseteq Slots
        /\ cs.firstBadged \subseteq Slots /\ cs.asserts \in BOOLEAN
    BY <2>1, DatabaseFields DEF Structure
  <2>3. op.target \in Links /\ op.del \in Links /\ op.inner \in Links
    BY <2>1 DEF Progress, Shape
  <2> QED BY <2>2, <2>3 DEF TypeOK, Links
<1> QED BY <1>1, Inductive, PTL

\* No assertion of cteInsert, cteMove, cteDeleteOne, finaliseSlot, reduceZombie or capSwapForDelete fails,
\* however often deletions and revocations are preempted and abandoned half way.
THEOREM CapAssertionsHold == Spec => []NoCapAssertionFails
<1>1. IInv => NoCapAssertionFails
  BY Invariant DEF Sound, NoCapAssertionFails
<1> QED BY <1>1, Inductive, PTL

\* The database stays a set of doubly linked lists of the caps in use.
THEOREM ListsLinked == Spec => []MDBLinks
<1>1. IInv => MDBLinks
  <2> SUFFICES ASSUME IInv PROVE MDBLinks
    OBVIOUS
  <2>1. PICK rank : Structure(cs, rank)
    BY Invariant
  <2>2. Linked(cs)
    BY <2>1 DEF Structure
  <2> QED BY <2>2 DEF MDBLinks, Linked, used, full
<1> QED BY <1>1, Inductive, PTL

\* The two neighbours of a cap tell isFinalCapability whether it is the last cap to its object.
THEOREM NeighboursTellFinality == Spec => []FinalityKnown
<1>1. IInv => FinalityKnown
  <2> SUFFICES ASSUME IInv, NEW s \in usedSlots, cs.cap[s].type \in {"endpoint", "cnode", "thread"}
               PROVE  isFinalCapability(cs, s) <=> \A t \in Slots \ {s} : ~sameObjectAs(cs.cap[s], cs.cap[t])
    BY DEF FinalityKnown
  <2>1. PICK rank : Structure(cs, rank)
    BY Invariant
  <2>2. s \in used(cs) /\ cs.cap[s].type \in Objects /\ cs.cap[s].type # "untyped" /\ cs \in Databases
    BY <2>1, FullUsed DEF Objects, Structure
  <2>3. isFinalCapability(cs, s) <=> \A t \in used(cs) \ {s} : ~Kin(cs.cap[s], cs.cap[t])
    BY <2>1, <2>2, Final
  <2>4. ASSUME NEW t \in used(cs) PROVE sameObjectAs(cs.cap[s], cs.cap[t]) <=> Kin(cs.cap[s], cs.cap[t])
    BY <2>2, SameRegion, DatabaseFields
  <2>5. ASSUME NEW t \in Slots, t \notin used(cs) PROVE ~sameObjectAs(cs.cap[s], cs.cap[t])
    <3>1. cs.cap[s] \in Caps /\ cs.cap[t] \in Caps /\ cs.cap[t] = NullCap
      BY <2>2, <2>5, DatabaseFields DEF used
    <3> QED BY <3>1, NullRegion
  <2>6. used(cs) \subseteq Slots
    BY DEF used
  <2> QED BY <2>3, <2>4, <2>5, <2>6
<1> QED BY <1>1, Inductive, PTL

\* Caps whose memory overlaps name the same object: no Retype hands out memory that a cap or an
\* unfinished deletion still refers to.
THEOREM NoObjectsOverlap == Spec => []NoOverlap
<1>1. IInv => NoOverlap
  <2> SUFFICES ASSUME IInv, NEW s \in usedSlots, NEW t \in usedSlots, cs.cap[s].type # "untyped",
                      cs.cap[t].type # "untyped", s # t, region(cs.cap[s]) \cap region(cs.cap[t]) # {}
               PROVE  sameObjectAs(cs.cap[s], cs.cap[t])
    BY DEF NoOverlap
  <2>1. PICK rank : Structure(cs, rank)
    BY Invariant
  <2>2. s \in used(cs) /\ t \in used(cs)
    BY FullUsed
  <2>3. cs.cap[s] \in RealCaps /\ cs.cap[t] \in RealCaps
    BY <2>1, <2>2, DatabaseFields DEF Structure
  <2>4. meets(cs.cap[s], cs.cap[t])
    BY <2>3, RegionMeets
  <2>5. Kin(cs.cap[s], cs.cap[t]) \/ Kin(cs.cap[t], cs.cap[s])
    BY <2>1, <2>2, <2>4 DEF Structure, Nested
  <2>6. Kin(cs.cap[s], cs.cap[t])
    BY <2>3, <2>5, KinSym
  <2> QED BY <2>3, <2>6, SameRegion
<1> QED BY <1>1, Inductive, PTL

\* No cap is orphaned: its slot belongs to an object, or to a zombie that has not come to it yet.
THEOREM NoOrphans == Spec => []CapsInObjects
<1>1. IInv => CapsInObjects
  <2> SUFFICES ASSUME IInv, NEW s \in usedSlots PROVE \E t \in usedSlots : s \in storage(cs.cap[t])
    BY DEF CapsInObjects
  <2>1. Held(cs)
    BY Invariant DEF Sound
  <2> QED BY <2>1, FullUsed DEF Held
<1> QED BY <1>1, Inductive, PTL

\* A cap into the memory of an untyped follows the untyped in its list and lies below its free index,
\* or is the untyped it came from: hasChildren in decodeUntypedInvocation and a later revocation miss
\* nothing.
THEOREM UntypedCoversAll == Spec => []UntypedCovers
<1>1. IInv => UntypedCovers
  <2> SUFFICES ASSUME IInv, NEW u \in usedSlots, cs.cap[u].type = "untyped",
                      NEW s \in usedSlots \ {u}, sameRegionAs(cs.cap[u], cs.cap[s])
               PROVE  \/ /\ u \in before(cs, s)
                         /\ region(cs.cap[s]) \subseteq cs.cap[u].ptr .. cs.cap[u].ptr + cs.cap[u].free - 1
                      \/ s \in before(cs, u) /\ sameRegionAs(cs.cap[s], cs.cap[u])
    BY DEF UntypedCovers
  <2>1. PICK rank : Structure(cs, rank)
    BY Invariant
  <2>2. u \in used(cs) /\ s \in used(cs) /\ u # s
    BY FullUsed
  <2>3. cs.cap[u] \in RealCaps /\ cs.cap[s] \in RealCaps
    BY <2>1, <2>2, DatabaseFields DEF Structure
  <2>4. Kin(cs.cap[u], cs.cap[s])
    BY <2>3, SameRegion
  <2>5. inside(cs.cap[u], cs.cap[s])
    BY <2>3, <2>4, KinMeets
  <2>6. CASE rank[u] < rank[s] /\ end(cs.cap[s]) <= cs.cap[u].ptr + cs.cap[u].free
    <3>1. \A x \in used(cs) : rank[u] < rank[x] /\ rank[x] <= rank[s] => cs.prev[x] # Null
      BY <2>1, <2>2, <2>4, <2>6 DEF Structure, Chained
    <3>2. u \in before(cs, s)
      BY <2>1, <2>2, <2>6, <3>1, BeforeFinds
    <3>3. cs.cap[u].free \in Nat /\ cs.cap[u].ptr \in Nat /\ cs.cap[s].ptr \in Nat /\ BIT(cs.cap[s].bits) \in Nat
      <4>1. cs.cap[u] \in UntypedCaps
        BY <2>3, CapFields
      <4> QED BY <2>3, <4>1, CapFields DEF UntypedCaps
    <3>4. cs.cap[u].ptr <= cs.cap[s].ptr /\ cs.cap[s].ptr + BIT(cs.cap[s].bits) <= cs.cap[u].ptr + cs.cap[u].free
      BY <2>5, <2>6 DEF inside, end
    <3>5. region(cs.cap[s]) \subseteq cs.cap[u].ptr .. cs.cap[u].ptr + cs.cap[u].free - 1
      BY <3>3, <3>4 DEF region
    <3> QED BY <3>2, <3>5
  <2>7. CASE rank[s] < rank[u] /\ cs.cap[s].type = "untyped" /\ inside(cs.cap[s], cs.cap[u])
    <3>1. Kin(cs.cap[s], cs.cap[u])
      BY <2>7 DEF Kin
    <3>2. \A x \in used(cs) : rank[s] < rank[x] /\ rank[x] <= rank[u] => cs.prev[x] # Null
      BY <2>1, <2>2, <2>7, <3>1 DEF Structure, Chained
    <3>3. s \in before(cs, u)
      BY <2>1, <2>2, <2>7, <3>2, BeforeFinds
    <3> QED BY <2>3, <3>1, <3>3, SameRegion
  <2> QED BY <2>1, <2>2, <2>5, <2>6, <2>7 DEF Structure, Covered
<1> QED BY <1>1, Inductive, PTL

\* cteRevoke, which stops at the first cap that is not a child, reaches every cap to the endpoint whose
\* original it revokes and every cap into the memory of the untyped it revokes.
THEOREM RevokeFindsAll == Spec => []RevokeFinds
<1>1. IInv => RevokeFinds
  <2> SUFFICES ASSUME IInv, NEW p \in cs.revocable,
                      cs.cap[p].type = "untyped" \/ (cs.cap[p].type = "endpoint" /\ cs.cap[p].badge = 0),
                      NEW s \in usedSlots \ {p}, sameRegionAs(cs.cap[p], cs.cap[s])
               PROVE  s \in finds(cs, p) \/ (cs.cap[s].type = "untyped" /\ s \in before(cs, p))
    BY DEF RevokeFinds
  <2>1. PICK rank : Structure(cs, rank)
    BY Invariant
  <2>2. s \in used(cs) /\ p \in used(cs) /\ p # s
    <3>1. p \in Slots
      BY <2>1, DatabaseFields DEF Structure
    <3> QED BY <2>1, <3>1, FullUsed DEF Structure, Linked
  <2>3. \A x \in used(cs) : cs.cap[x] \in RealCaps
    BY <2>1, DatabaseFields DEF Structure
  <2>4. Kin(cs.cap[p], cs.cap[s])
    BY <2>2, <2>3, SameRegion
  <2>5. ASSUME NEW x \in used(cs), Kin(cs.cap[p], cs.cap[x]) PROVE isMDBParentOf(cs, p, x)
    <3>1. sameRegionAs(cs.cap[p], cs.cap[x])
      BY <2>2, <2>3, <2>5, SameRegion
    <3> QED BY <3>1 DEF isMDBParentOf
  <2>6. CASE rank[p] < rank[s]
    <3>1. /\ \A x \in used(cs) : rank[p] <= rank[x] /\ rank[x] < rank[s] => cs.next[x] # Null
          /\ \A x \in used(cs) : rank[p] < rank[x] /\ rank[x] <= rank[s] => Kin(cs.cap[p], cs.cap[x])
      BY <2>1, <2>2, <2>4, <2>6 DEF Structure, Chained
    <3>2. \A x \in used(cs) : rank[p] < rank[x] /\ rank[x] <= rank[s] => isMDBParentOf(cs, p, x)
      BY <2>5, <3>1
    <3>3. p \in Slots /\ Under(cs, rank, p, s)
      BY <2>2, <2>6, <3>2 DEF Under, used
    <3>4. s \in finds(cs, p)
      BY <2>1, <3>3, Finds
    <3> QED BY <3>4
  <2>7. CASE cs.cap[p].type = "untyped" /\ ~(rank[p] < rank[s])
    <3>1. inside(cs.cap[p], cs.cap[s])
      BY <2>2, <2>3, <2>4, KinMeets
    <3>2. rank[s] < rank[p] /\ cs.cap[s].type = "untyped" /\ inside(cs.cap[s], cs.cap[p])
      BY <2>1, <2>2, <2>7, <3>1 DEF Structure, Covered
    <3>3. Kin(cs.cap[s], cs.cap[p])
      BY <3>2 DEF Kin
    <3>4. \A x \in used(cs) : rank[s] < rank[x] /\ rank[x] <= rank[p] => cs.prev[x] # Null
      BY <2>1, <2>2, <3>2, <3>3 DEF Structure, Chained
    <3>5. s \in before(cs, p)
      BY <2>1, <2>2, <3>2, <3>4, BeforeFinds
    <3> QED BY <3>2, <3>5
  <2>8. CASE cs.cap[p].type = "endpoint" /\ ~(rank[p] < rank[s])
    BY <2>1, <2>2, <2>4, <2>8 DEF Structure, OriginalFirst
  <2> QED BY <2>6, <2>7, <2>8
<1> QED BY <1>1, Inductive, PTL

-----------------------------------------------------------------------------
(* The mapping database implements the derivation forest *)

\* The forest after two slots have changed places.
LEMMA Rearranged ==
  ASSUME NEW f, NEW g, NEW place, NEW inv,
         \A x \in Slots : f[x] \in Slots \cup {Null} /\ place[x] \in Slots /\ inv[x] \in Slots,
         \A x \in Slots : place[inv[x]] = x /\ inv[place[x]] = x,
         g = [x \in Slots |-> IF f[inv[x]] = Null THEN Null ELSE place[f[inv[x]]]]
  PROVE  g = Tree!rearranged(f, place)
<1>1. ASSUME NEW x \in Slots PROVE (CHOOSE r \in Slots : place[r] = x) = inv[x]
  <2> DEFINE y == CHOOSE r \in Slots : place[r] = x
  <2>1. \E r \in Slots : place[r] = x
    OBVIOUS
  <2>2. y \in Slots /\ place[y] = x
    BY <2>1
  <2> QED BY <2>2
<1> QED BY <1>1 DEF Tree!rearranged

\* Where the caps of three slots go when they are rotated.
rotated(a, p, b) == [Tree!Identity EXCEPT ![a] = p, ![p] = b, ![b] = a]

\* The places of two slots that have been exchanged, and of three that have been rotated.
LEMMA Places ==
  ASSUME NEW a \in Slots, NEW p \in Slots, NEW b \in Slots, a # b
  PROVE  /\ \A x \in Slots : Tree!swapped(a, b)[x] = flip(a, b, x)
         /\ p \notin {a, b} => \A x \in Slots : rotated(a, p, b)[x] = flip(a, p, flip(p, b, x))
BY DEF Tree!swapped, Tree!Identity, flip, rotated

\* Exchanging two slots, as the forest sees it.
LEMMA ExchangedForest ==
  ASSUME NEW c, NEW a, NEW b, NEW d, Exchanged(c, a, b, d), \A x \in Slots : parentOf(c, x) \in Slots \cup {Null}
  PROVE  [x \in Slots |-> parentOf(d, x)] = Tree!rearranged([x \in Slots |-> parentOf(c, x)], Tree!swapped(a, b))
<1> DEFINE f == [x \in Slots |-> parentOf(c, x)]
           g == [x \in Slots |-> parentOf(d, x)]
           place == Tree!swapped(a, b)
<1>1. a \in Slots /\ b \in Slots /\ a # b /\ Null \notin Slots
  BY MemoryMap DEF Exchanged
<1>2. \A x \in Slots : place[x] = flip(a, b, x)
  BY <1>1, Places
<1>3. \A x \in Slots : flip(a, b, x) \in Slots /\ flip(a, b, flip(a, b, x)) = x
  BY <1>1 DEF flip
<1>4. flip(a, b, Null) = Null
  BY <1>1 DEF flip
<1> HIDE DEF place
<1>5. \A x \in Slots : f[x] = parentOf(c, x) /\ f[x] \in Slots \cup {Null}
  OBVIOUS
<1>6. g = [x \in Slots |-> IF f[place[x]] = Null THEN Null ELSE place[f[place[x]]]]
  <2> SUFFICES ASSUME NEW x \in Slots
               PROVE  parentOf(d, x) = IF f[place[x]] = Null THEN Null ELSE place[f[place[x]]]
    OBVIOUS
  <2>1. parentOf(d, x) = flip(a, b, f[place[x]])
    BY <1>2, <1>3, <1>5 DEF Exchanged
  <2>2. f[place[x]] \in Slots \cup {Null}
    BY <1>2, <1>3, <1>5
  <2> QED BY <1>2, <1>4, <2>1, <2>2
<1> HIDE DEF f, g
<1>7. g = Tree!rearranged(f, place)
  BY <1>2, <1>3, <1>5, <1>6, Rearranged
<1> QED BY <1>7 DEF f, g, place

\* Rotating three slots, as the forest sees it.
LEMMA RotatedForest ==
  ASSUME NEW c, NEW a, NEW p, NEW b, NEW e, NEW d, Exchanged(c, p, b, e), Exchanged(e, a, p, d), a # b,
         \A x \in Slots : parentOf(c, x) \in Slots \cup {Null}
  PROVE  [x \in Slots |-> parentOf(d, x)] =
           Tree!rearranged([x \in Slots |-> parentOf(c, x)], rotated(a, p, b))
<1> DEFINE f == [x \in Slots |-> parentOf(c, x)]
           g == [x \in Slots |-> parentOf(d, x)]
           place == rotated(a, p, b)
           inv == [x \in Slots |-> flip(p, b, flip(a, p, x))]
<1>1. a \in Slots /\ p \in Slots /\ b \in Slots /\ a # b /\ p # a /\ p # b /\ Null \notin Slots
  BY MemoryMap DEF Exchanged
<1>2. \A x \in Slots : place[x] = flip(a, p, flip(p, b, x))
  BY <1>1, Places
<1>3. \A x \in Slots : /\ flip(a, p, x) \in Slots /\ flip(p, b, x) \in Slots
                       /\ flip(a, p, flip(a, p, x)) = x /\ flip(p, b, flip(p, b, x)) = x
  BY <1>1 DEF flip
<1>4. flip(a, p, Null) = Null /\ flip(p, b, Null) = Null
  BY <1>1 DEF flip
<1>5. \A x \in Slots : inv[x] = flip(p, b, flip(a, p, x)) /\ inv[x] \in Slots /\ place[x] \in Slots
  BY <1>2, <1>3
<1>6. \A x \in Slots : place[inv[x]] = x /\ inv[place[x]] = x
  <2> SUFFICES ASSUME NEW x \in Slots PROVE place[inv[x]] = x /\ inv[place[x]] = x
    OBVIOUS
  <2> HIDE DEF place, inv
  <2>1. place[inv[x]] = flip(a, p, flip(p, b, inv[x])) /\ inv[place[x]] = flip(p, b, flip(a, p, place[x]))
    BY <1>2, <1>5
  <2>2. flip(p, b, inv[x]) = flip(a, p, x) /\ flip(a, p, place[x]) = flip(p, b, x)
    BY <1>2, <1>3, <1>5
  <2> QED BY <1>3, <2>1, <2>2
<1> HIDE DEF place, inv
<1>7. \A x \in Slots : f[x] = parentOf(c, x) /\ f[x] \in Slots \cup {Null}
  OBVIOUS
<1>8. g = [x \in Slots |-> IF f[inv[x]] = Null THEN Null ELSE place[f[inv[x]]]]
  <2> SUFFICES ASSUME NEW x \in Slots
               PROVE  parentOf(d, x) = IF f[inv[x]] = Null THEN Null ELSE place[f[inv[x]]]
    OBVIOUS
  <2>1. parentOf(d, x) = flip(a, p, parentOf(e, flip(a, p, x)))
    BY DEF Exchanged
  <2>2. parentOf(e, flip(a, p, x)) = flip(p, b, parentOf(c, inv[x]))
    BY <1>3, <1>5 DEF Exchanged
  <2>3. f[inv[x]] = parentOf(c, inv[x]) /\ f[inv[x]] \in Slots \cup {Null}
    BY <1>5, <1>7
  <2> HIDE DEF f
  <2> QED BY <1>2, <1>4, <2>1, <2>2, <2>3
<1> HIDE DEF f, g
<1>9. g = Tree!rearranged(f, place)
  BY <1>5, <1>6, <1>7, <1>8, Rearranged
<1> QED BY <1>9 DEF f, g, place

\* What one operation on the forest is to DerivationTree.
LEMMA TreeNext ==
  ASSUME IInv, TreeStep(cs, cs')
  PROVE  [Tree!Next]_(Tree!vars)
<1> DEFINE P == [x \in Slots |-> parentOf(cs, x)]
           Q == [x \in Slots |-> parentOf(cs', x)]
           U == used(cs)
           V == used(cs')
<1>1. usedSlots = U /\ usedSlots' = V /\ parents = P /\ parents' = Q
  BY DEF usedSlots, full, used, parents
<1>2. PICK rank : Structure(cs, rank)
  BY Invariant
<1>3. U \subseteq Slots /\ Null \notin Slots /\ \A x \in Slots : parentOf(cs, x) \in U \cup {Null}
  BY <1>2, MemoryMap, ParentType DEF used
<1>4. CASE SameTree(cs, cs')
  <2>1. Q = P /\ V = U
    BY <1>4 DEF SameTree
  <2> QED BY <1>1, <2>1 DEF Tree!vars
<1>5. ASSUME NEW s, Pruned(cs, s, cs') PROVE Tree!Next
  <2>1. s \in U /\ V = U \ {s} /\ Q = Tree!without(P, s)
    <3>1. s \in U /\ V = U \ {s} /\ s \in Slots
      BY <1>3, <1>5 DEF Pruned
    <3>2. Q = [t \in Slots |-> IF t = s THEN Null ELSE IF P[t] = s THEN P[s] ELSE P[t]]
      BY <1>5, <3>1 DEF Pruned
    <3> HIDE DEF P, Q
    <3> QED BY <3>1, <3>2 DEF Tree!without
  <2> HIDE DEF P, Q, U, V
  <2>2. Tree!Delete(s)
    BY <1>1, <2>1 DEF Tree!Delete
  <2> QED BY <1>1, <2>1, <2>2 DEF Tree!Next
<1>6. ASSUME NEW S, Grafted(cs, S, cs') PROVE Tree!Next
  <2>1. PICK y \in U \cup {Null} : \A x \in Slots : parentOf(cs', x) = IF x \in S THEN y ELSE parentOf(cs, x)
    BY <1>6 DEF Grafted
  <2>2. S # {} /\ V = U \cup S /\ V \ U = S
    BY <1>6 DEF Grafted
  <2>3. Q = [x \in Slots |-> IF x \in V \ U THEN y ELSE P[x]]
    BY <2>1, <2>2
  <2> HIDE DEF P, Q, U, V
  <2>4. Tree!Derive
    BY <1>1, <2>2, <2>3 DEF Tree!Derive
  <2> QED BY <2>4 DEF Tree!Next
<1>7. ASSUME NEW s, NEW e, Pruned(cs, s, e), Grafted(e, {s}, cs') PROVE Tree!Next
  <2>1. PICK y \in used(e) \cup {Null} : \A x \in Slots : parentOf(cs', x) = IF x \in {s} THEN y ELSE parentOf(e, x)
    BY <1>7 DEF Grafted
  <2>2. s \in U /\ s \in Slots /\ used(e) = U \ {s} /\ V = U /\ y \in (U \ {s}) \cup {Null}
    BY <1>3, <1>7 DEF Grafted, Pruned
  <2>3. \A x \in Slots : Tree!without(P, s)[x] = IF x = s THEN Null ELSE IF P[x] = s THEN P[s] ELSE P[x]
    <3> HIDE DEF P
    <3> QED BY DEF Tree!without
  <2>4. \A x \in Slots \ {s} : parentOf(e, x) = Tree!without(P, s)[x]
    BY <1>7, <2>2, <2>3 DEF Pruned
  <2>5. Q = [x \in Slots |-> IF x = s THEN y ELSE Tree!without(P, s)[x]]
    BY <2>1, <2>4
  <2> HIDE DEF P, Q, U, V
  <2>6. Q = [Tree!without(P, s) EXCEPT ![s] = y]
    BY <2>2, <2>5 DEF Tree!without
  <2>7. Tree!Replace(s)
    BY <1>1, <2>2, <2>6 DEF Tree!Replace
  <2> QED BY <1>1, <2>2, <2>7 DEF Tree!Next
<1>8. ASSUME NEW a, NEW b, a \in U, Exchanged(cs, a, b, cs') PROVE Tree!Next
  <2>1. a \in Slots /\ b \in Slots /\ a # b /\ V = {x \in Slots : flip(a, b, x) \in U}
    BY <1>8 DEF Exchanged
  <2>2. Q = Tree!rearranged(P, Tree!swapped(a, b))
    BY <1>3, <1>8, ExchangedForest
  <2>3. CASE b \in U
    <3>1. V = U
      BY <1>3, <1>8, <2>1, <2>3 DEF flip
    <3> HIDE DEF P, Q, U, V
    <3>2. Tree!Swap
      BY <1>1, <1>8, <2>2, <2>3, <3>1 DEF Tree!Swap
    <3> QED BY <3>2 DEF Tree!Next
  <2>4. CASE b \notin U
    <3>1. V = (U \ {a}) \cup {b}
      BY <1>3, <1>8, <2>1, <2>4 DEF flip
    <3> HIDE DEF P, Q, U, V
    <3>2. Tree!Move(a, b)
      BY <1>1, <2>2, <3>1 DEF Tree!Move
    <3>3. b \in Tree!Empty
      BY <1>1, <2>1, <2>4 DEF Tree!Empty
    <3> QED BY <1>1, <1>8, <3>2, <3>3 DEF Tree!Next
  <2> QED BY <2>3, <2>4
<1>9. ASSUME NEW a, NEW b, b \in U, Exchanged(cs, a, b, cs') PROVE Tree!Next
  <2>1. \A x : flip(a, b, x) = flip(b, a, x)
    BY DEF flip
  <2>2. Exchanged(cs, b, a, cs')
    BY <1>9, <2>1 DEF Exchanged
  <2> QED BY <1>8, <1>9, <2>2
<1>10. ASSUME NEW src, NEW pivot, NEW dest, NEW e, src \in U, pivot \in U, dest \notin U, src # dest,
              Exchanged(cs, pivot, dest, e), Exchanged(e, src, pivot, cs')
       PROVE  Tree!Next
  <2>1. /\ src \in Slots /\ pivot \in Slots /\ dest \in Slots /\ src # pivot /\ pivot # dest
        /\ used(e) = {x \in Slots : flip(pivot, dest, x) \in U}
        /\ V = {x \in Slots : flip(src, pivot, x) \in used(e)}
    BY <1>10 DEF Exchanged
  <2>2. V = (U \ {src}) \cup {dest}
    BY <1>3, <1>10, <2>1 DEF flip
  <2>3. Q = Tree!rearranged(P, rotated(src, pivot, dest))
    BY <1>3, <1>10, RotatedForest
  <2> HIDE DEF P, Q, U, V
  <2>4. Tree!Move(src, dest)
    BY <1>1, <1>10, <2>1, <2>2, <2>3 DEF Tree!Move, rotated
  <2>5. dest \in Tree!Empty
    BY <1>1, <1>10, <2>1 DEF Tree!Empty
  <2> QED BY <1>1, <1>10, <2>4, <2>5 DEF Tree!Next
<1> HIDE DEF P, Q, V
<1> QED BY <1>4, <1>5, <1>6, <1>7, <1>8, <1>9, <1>10 DEF TreeStep

\* Every step of the kernel on the lists and flags of the mapping database is one operation on the
\* forest of caps and the caps they were derived from, or leaves it as it is.
THEOREM DatabaseIsForest == Spec => TreeSpec
<1>1. Init => Tree!Init
  <2> SUFFICES ASSUME Init PROVE Tree!Init
    OBVIOUS
  <2>1. PICK rank : Structure(cs, rank)
    BY InitSafe, Invariant DEF IInv
  <2>2. \A x \in Slots : parentOf(cs, x) \in usedSlots \cup {Null}
    BY <2>1, ParentType, FullUsed
  <2>3. usedSlots \subseteq Slots
    BY DEF usedSlots
  <2> QED BY <2>2, <2>3 DEF Tree!Init, parents
<1>2. IInv /\ [Next]_vars => [Tree!Next]_(Tree!vars)
  BY StepSafe, TreeNext DEF IInv
<1> QED BY <1>1, <1>2, Inductive, PTL DEF Spec, TreeSpec, Tree!Spec

=============================================================================
