------------------------------ MODULE CapSpace -------------------------------
(***************************************************************************)
(* Capability slots, the mapping database that records which cap was       *)
(* derived from which, deletion, revocation and Retype (object/cnode.c,    *)
(* object/untyped.c, object/objecttype.c; non-MCS).                        *)
(*                                                                         *)
(* Memory is counted in slots, and an address is a number: a CNode of      *)
(* radix b at p is the slots p .. p + 2^b - 1, a TCB is its tcbCTable slot *)
(* (the other slots of a TCB are deleted in the same way), an endpoint     *)
(* takes one unit.  Access rights, CNode guards and message buffers are    *)
(* left out.                                                               *)
(*                                                                         *)
(* A step is the code between two preemption points.  A preempted          *)
(* invocation returns to the user, whose thread restarts it: to the kernel *)
(* that is a new invocation, and other threads may have run in between.    *)
(***************************************************************************)
EXTENDS Naturals, FiniteSets

CONSTANTS
  Null,         \* the NULL pointer
  UntypedBits,  \* the boot untyped is the memory 0 .. 2^UntypedBits - 1
  RootBits,     \* the radix of the root CNode
  UserSlots,    \* the slots of the root CNode that the user programs name
  ObjectSizes,  \* the objects they create, as <<type, size bits>>
  MaxCaps,      \* how many caps they keep at a time
  MaxRetype,    \* how many objects they create at a time
  Badges,       \* endpoint badges
  ResetChunk,   \* BIT(CONFIG_RESET_CHUNK_BITS)
  Invocations   \* the invocations the user programs make

VARIABLES
  cs,   \* the slots and their mapping database
  op    \* the invocation in progress and where it stands

vars == <<cs, op>>

\* Two to the power n.
BIT(n) ==
  LET bit[i \in 0 .. n] == IF i = 0 THEN 1 ELSE 2 * bit[i - 1]
  IN  bit[n]

(***************************************************************************)
(* The memory map at boot: the untyped, the initial thread's TCB, and the  *)
(* root CNode at an address aligned to its size.                           *)
(***************************************************************************)
UntypedSize == BIT(UntypedBits)

RootSize == BIT(RootBits)

InitTCB == UntypedSize

RootCNode == RootSize * ((UntypedSize \div RootSize) + 1)

Memory == 0 .. UntypedSize - 1

Slots == Memory \cup {InitTCB} \cup RootCNode .. RootCNode + RootSize - 1

ASSUME MemoryMap ==
  /\ UntypedBits \in Nat /\ RootBits \in Nat /\ RootBits >= 2
  /\ UserSlots \subseteq 0 .. RootSize - 1
  /\ \E b \in 0 .. UntypedBits : ResetChunk = BIT(b)
  /\ Badges \subseteq Nat /\ MaxRetype \in Nat
  /\ \A o \in ObjectSizes : /\ o[1] \in {"untyped", "endpoint", "cnode", "thread"} /\ o[2] \in Nat
                            /\ o[1] \in {"endpoint", "thread"} => o[2] = 0
  /\ Null \notin Slots

-----------------------------------------------------------------------------
(* Caps *)

NullCap == [type |-> "null"]

UntypedCap(p, bits, free) == [type |-> "untyped", ptr |-> p, bits |-> bits, free |-> free]

EndpointCap(p, badge) == [type |-> "endpoint", ptr |-> p, bits |-> 0, badge |-> badge]

CNodeCap(p, radix) == [type |-> "cnode", ptr |-> p, bits |-> radix]

ThreadCap(p) == [type |-> "thread", ptr |-> p, bits |-> 0]

Zombie_new(num, ztype, p, radix) ==
  [type |-> "zombie", ptr |-> p, bits |-> radix, num |-> num, ztype |-> ztype]

\* The memory of the object a cap names.
region(cap) == cap.ptr .. cap.ptr + BIT(cap.bits) - 1

sameRegionAs(a, b) ==
  CASE a.type = "untyped" -> b.type # "null" /\ region(b) \subseteq region(a)
    [] a.type \in {"endpoint", "thread", "cnode"} ->
         b.type = a.type /\ b.ptr = a.ptr /\ b.bits = a.bits
    [] OTHER -> FALSE

sameObjectAs(a, b) == a.type # "untyped" /\ sameRegionAs(a, b)

isCapRevocable(derived, src) ==
  CASE derived.type = "endpoint" -> derived.badge # src.badge
    [] derived.type = "untyped" -> TRUE
    [] OTHER -> FALSE

-----------------------------------------------------------------------------
(* The mapping database: a slot is a cap and its mdb_node_t. *)

Assert_(c, cond) == [c EXCEPT !.asserts = @ /\ cond]

\* Mutant of isMDBParentOf: an unbadged endpoint cap is no exception.
isMDBParentOf_AllBadges(c, a, b) ==
  /\ a \in c.revocable
  /\ sameRegionAs(c.cap[a], c.cap[b])
  /\ c.cap[a].type = "endpoint" => c.cap[a].badge = c.cap[b].badge /\ b \notin c.firstBadged

isMDBParentOf(c, a, b) ==
  /\ a \in c.revocable
  /\ sameRegionAs(c.cap[a], c.cap[b])
  /\ (c.cap[a].type = "endpoint" /\ c.cap[a].badge # 0) =>
        c.cap[a].badge = c.cap[b].badge /\ b \notin c.firstBadged

hasChildren(c, s) == c.next[s] # Null /\ isMDBParentOf(c, s, c.next[s])

isFinalCapability(c, s) ==
  /\ c.prev[s] # Null => ~sameObjectAs(c.cap[c.prev[s]], c.cap[s])
  /\ c.next[s] # Null => ~sameObjectAs(c.cap[s], c.cap[c.next[s]])

slotCapLongRunningDelete(c, s) ==
  c.cap[s].type \in {"thread", "zombie", "cnode"} /\ isFinalCapability(c, s)

\* Set mdbNext, mdbPrev of p unless p is NULL.
setNext(next, p, s) == IF p = Null THEN next ELSE [next EXCEPT ![p] = s]

setPrev(prev, p, s) == IF p = Null THEN prev ELSE [prev EXCEPT ![p] = s]

\* Mutant of setUntypedCapAsFull: the source of a copied untyped keeps its free memory.
setUntypedCapAsFull_Dropped(c, newCap, src) == c

setUntypedCapAsFull(c, newCap, src) ==
  LET srcCap == c.cap[src]
  IN  IF /\ srcCap.type = "untyped" /\ newCap.type = "untyped"
         /\ srcCap.ptr = newCap.ptr /\ srcCap.bits = newCap.bits
      THEN [c EXCEPT !.cap[src].free = BIT(srcCap.bits)] ELSE c

\* The flag set S after the nodes of slots a and b have changed places.
relabel(S, a, b) == {IF s = a THEN b ELSE IF s = b THEN a ELSE s : s \in S}

slotEmpty(c, s) == c.cap[s] = NullCap /\ c.next[s] = Null /\ c.prev[s] = Null

\* Put cap into the empty slot dest, after src in the list.
linkAfter(c, cap, src, dest, revocable) ==
  LET next == c.next[src]
  IN  [c EXCEPT !.cap[dest]         = cap,
                !.next              = [@ EXCEPT ![src] = dest, ![dest] = next],
                !.prev              = setPrev([@ EXCEPT ![dest] = src], next, dest),
                !.revocable         = IF revocable THEN @ \cup {dest} ELSE @,
                !.firstBadged       = IF revocable THEN @ \cup {dest} ELSE @]

cteInsert(c, newCap, src, dest) ==
  linkAfter(setUntypedCapAsFull(Assert_(c, slotEmpty(c, dest)), newCap, src),
            newCap, src, dest, isCapRevocable(newCap, c.cap[src]))

insertNewCap(c, parent, slot, cap) == linkAfter(c, cap, parent, slot, TRUE)

cteMove(c, newCap, src, dest) ==
  LET prev == c.prev[src]
      next == c.next[src]
  IN  [Assert_(c, slotEmpty(c, dest)) EXCEPT
         !.cap         = [@ EXCEPT ![dest] = newCap, ![src] = NullCap],
         !.next        = setNext([@ EXCEPT ![dest] = next, ![src] = Null], prev, dest),
         !.prev        = setPrev([@ EXCEPT ![dest] = prev, ![src] = Null], next, dest),
         !.revocable   = relabel(@, src, dest),
         !.firstBadged = relabel(@, src, dest)]

\* Mutant of cteSwap: the node of slot2 is read before the neighbours of slot1
\* are redirected.
cteSwap_ReadFirst(c, cap1, slot1, cap2, slot2) ==
  LET next1 == c.next[slot1]
      prev1 == c.prev[slot1]
      next2 == c.next[slot2]
      prev2 == c.prev[slot2]
      nextA == [setNext(c.next, prev1, slot2) EXCEPT ![slot1] = next2, ![slot2] = next1]
      prevA == [setPrev(c.prev, next1, slot2) EXCEPT ![slot1] = prev2, ![slot2] = prev1]
  IN  [c EXCEPT
         !.cap         = [@ EXCEPT ![slot1] = cap2, ![slot2] = cap1],
         !.next        = setNext(nextA, prev2, slot1),
         !.prev        = setPrev(prevA, next2, slot1),
         !.revocable   = relabel(@, slot1, slot2),
         !.firstBadged = relabel(@, slot1, slot2)]

\* The neighbours of slot1 are redirected before the node of slot2 is read, so
\* that two adjacent slots can be swapped.
cteSwap(c, cap1, slot1, cap2, slot2) ==
  LET next1  == c.next[slot1]
      prev1  == c.prev[slot1]
      nextA  == setNext(c.next, prev1, slot2)
      prevA  == setPrev(c.prev, next1, slot2)
      next2  == nextA[slot2]
      prev2  == prevA[slot2]
      nextB  == [nextA EXCEPT ![slot1] = next2, ![slot2] = next1]
      prevB  == [prevA EXCEPT ![slot1] = prev2, ![slot2] = prev1]
  IN  [c EXCEPT
         !.cap         = [@ EXCEPT ![slot1] = cap2, ![slot2] = cap1],
         !.next        = setNext(nextB, prev2, slot1),
         !.prev        = setPrev(prevB, next2, slot1),
         !.revocable   = relabel(@, slot1, slot2),
         !.firstBadged = relabel(@, slot1, slot2)]

capSwapForDelete(c, slot1, slot2) ==
  IF slot1 = slot2 THEN c ELSE cteSwap(c, c.cap[slot1], slot1, c.cap[slot2], slot2)

\* A slot whose memory has been zeroed, or whose cap has been taken out.
clearSlots(c, S) ==
  LET clear(f, v) == [s \in Slots |-> IF s \in S THEN v ELSE f[s]]
  IN  [c EXCEPT !.cap = clear(@, NullCap), !.next = clear(@, Null), !.prev = clear(@, Null),
                !.revocable = @ \ S, !.firstBadged = @ \ S]

\* Mutant of emptySlot: mdbFirstBadged is not handed on to the next cap.
emptySlot_BadgeLost(c, s) ==
  IF c.cap[s] = NullCap THEN c
  ELSE clearSlots([c EXCEPT !.next = setNext(@, c.prev[s], c.next[s]),
                            !.prev = setPrev(@, c.next[s], c.prev[s])], {s})

\* Mutant of emptySlot: the previous cap is not linked to the next one.
emptySlot_NextKept(c, s) ==
  IF c.cap[s] = NullCap THEN c
  ELSE clearSlots([c EXCEPT !.prev = setPrev(@, c.next[s], c.prev[s])], {s})

emptySlot(c, s) ==
  LET prev == c.prev[s]
      next == c.next[s]
      c1   == [c EXCEPT !.next = setNext(@, prev, next), !.prev = setPrev(@, next, prev),
                        !.firstBadged = IF next # Null /\ s \in @ THEN @ \cup {next} ELSE @]
  IN  IF c.cap[s] = NullCap THEN c ELSE clearSlots(c1, {s})

-----------------------------------------------------------------------------
(* Finalising a cap *)

\* Mutant of finaliseCap: every cap to a CNode or a TCB is taken for the last one.
finaliseCap_NotFinal(c, s) ==
  LET cap == c.cap[s]
  IN  CASE cap.type = "cnode" -> Zombie_new(BIT(cap.bits), "cnode", cap.ptr, cap.bits)
        [] cap.type = "thread" -> Zombie_new(1, "tcb", cap.ptr, 0)
        [] cap.type = "zombie" -> cap
        [] OTHER -> NullCap

\* What finaliseCap leaves of the cap in slot s.
finaliseCap(c, s) ==
  LET cap   == c.cap[s]
      final == isFinalCapability(c, s)
  IN  CASE cap.type = "cnode" /\ final -> Zombie_new(BIT(cap.bits), "cnode", cap.ptr, cap.bits)
        [] cap.type = "thread" /\ final -> Zombie_new(1, "tcb", cap.ptr, 0)
        [] cap.type = "zombie" -> cap
        [] OTHER -> NullCap

\* Mutant of capRemovable: the last slot of a zombie may lie anywhere.
capRemovable_LastSlot(cap, s) == cap.type = "zombie" => cap.num <= 1

capRemovable(cap, s) ==
  cap.type = "zombie" => cap.num = 0 \/ (cap.num = 1 /\ cap.ptr = s)

capCyclicZombie(cap, s) == cap.type = "zombie" /\ cap.ptr = s

-----------------------------------------------------------------------------
(* The state at boot and the slots that user programs can name *)

rootSlot(i) == RootCNode + i

InitCS ==
  LET boot == {rootSlot(i) : i \in 0 .. 2}
      c    == [cap         |-> [s \in Slots |->
                                  CASE s = rootSlot(0) -> ThreadCap(InitTCB)
                                    [] s = rootSlot(1) -> CNodeCap(RootCNode, RootBits)
                                    [] s = rootSlot(2) -> UntypedCap(0, UntypedBits, 0)
                                    [] OTHER -> NullCap],
               next        |-> [s \in Slots |-> Null],
               prev        |-> [s \in Slots |-> Null],
               revocable   |-> boot,
               firstBadged |-> boot,
               asserts     |-> TRUE]
  IN  cteInsert(c, c.cap[rootSlot(1)], rootSlot(1), InitTCB)

NoRetype == [type |-> "null"]

Idle == [pc |-> "idle", target |-> Null, del |-> Null, zombie |-> NullCap, inner |-> Null,
         retype |-> NoRetype]

Init == cs = InitCS /\ op = Idle

liveTCBs(c) == {t \in Slots : \E s \in Slots : c.cap[s] = ThreadCap(t)}

cnodeSlots(c, S) == UNION {region(c.cap[s]) : s \in {x \in S : c.cap[x].type = "cnode"}}

\* The slots that a path of at most n CNodes leads to from the root of a thread.
reach(c) ==
  LET r[n \in 0 .. UntypedSize] ==
        IF n = 0 THEN cnodeSlots(c, liveTCBs(c))
        ELSE LET shorter == r[n - 1] IN shorter \cup cnodeSlots(c, shorter)
  IN  r[UntypedSize]

\* The slots the user programs name.
lookupSlot == reach(cs) \cap (Memory \cup {rootSlot(i) : i \in UserSlots})

\* Those they put new caps into.  Slots of the root CNode are alike: of the
\* empty ones, the first stands for all.
destSlot(Named) ==
  LET empty == {s \in Named : cs.cap[s] = NullCap}
  IN  {s \in empty : s \in Memory \/ \A t \in empty \ Memory : s <= t}

-----------------------------------------------------------------------------
(* CNode and TCB invocations that the kernel finishes in one step *)

Invoke(name) == op = Idle /\ name \in Invocations

Finish(c) == cs' = c /\ op' = Idle

\* deriveCap refuses a zombie, and an untyped with children.
derivable(s) ==
  /\ cs.cap[s].type \notin {"null", "zombie"}
  /\ cs.cap[s].type = "untyped" => ~hasChildren(cs, s)

\* Room for n more caps.
room(n) == Cardinality({s \in Slots : cs.cap[s] # NullCap}) + n <= MaxCaps

CNodeCopy(src, dest) ==
  /\ Invoke("Copy") /\ room(1)
  /\ cs.cap[dest] = NullCap /\ derivable(src)
  /\ Finish(cteInsert(cs, cs.cap[src], src, dest))

\* updateCapData: only an unbadged endpoint cap can be given a badge.
CNodeMint(src, dest, badge) ==
  /\ Invoke("Mint") /\ room(1)
  /\ cs.cap[dest] = NullCap /\ derivable(src)
  /\ cs.cap[src].type = "endpoint" /\ cs.cap[src].badge = 0
  /\ Finish(cteInsert(cs, [cs.cap[src] EXCEPT !.badge = badge], src, dest))

CNodeMove(src, dest) ==
  /\ Invoke("Move")
  /\ cs.cap[dest] = NullCap /\ cs.cap[src] # NullCap
  /\ Finish(cteMove(cs, cs.cap[src], src, dest))

\* updateCapData with preserve refuses an endpoint cap.
CNodeRotate(src, pivot, dest) ==
  /\ Invoke("Rotate")
  /\ pivot \notin {src, dest}
  /\ src # dest => cs.cap[dest] = NullCap
  /\ {cs.cap[src].type, cs.cap[pivot].type} \cap {"null", "endpoint"} = {}
  /\ Finish(IF src = dest
            THEN cteSwap(cs, cs.cap[src], src, cs.cap[pivot], pivot)
            ELSE cteMove(cteMove(cs, cs.cap[pivot], pivot, dest), cs.cap[src], src, pivot))

\* TCB_SetSpace: the thread cap in slot t, a new cspace root from slot src.
TCBSetSpace(t, src) ==
  LET tcb     == cs.cap[t].ptr
      newCap  == cs.cap[src]
      deleted == emptySlot(Assert_(cs, cs.cap[tcb] # NullCap => capRemovable(finaliseCap(cs, tcb), tcb)), tcb)
  IN  /\ Invoke("SetSpace")
      /\ cs.cap[t].type = "thread" /\ newCap.type = "cnode"
      /\ ~slotCapLongRunningDelete(cs, tcb)
      /\ Finish(IF /\ sameObjectAs(newCap, deleted.cap[src])
                   /\ sameObjectAs(ThreadCap(tcb), deleted.cap[t])
                THEN cteInsert(deleted, newCap, src, tcb) ELSE deleted)

-----------------------------------------------------------------------------
(* Deletion and revocation *)

\* preemptionPoint: the invocation goes on, or is abandoned to be restarted.
PreemptionPoint(goOn) == op' \in {goOn, Idle}

\* cteDelete(o.del, true) is done: the invocation o is over, or cteRevoke goes on.
deleteDone(o, c) ==
  /\ cs' = c
  /\ IF o.target = Null THEN op' = Idle
     ELSE PreemptionPoint([o EXCEPT !.pc = "cteRevoke", !.del = Null])

\* Mutant of finaliseSlot: the end slot is one past the last.
finaliseSlot_PastEnd(o) ==
  LET s         == o.del
      remainder == finaliseCap(cs, s)
  IN  \/ /\ cs.cap[s] = NullCap \/ capRemovable(remainder, s)
         /\ deleteDone(o, emptySlot(cs, s))
      \/ /\ cs.cap[s] # NullCap /\ ~capRemovable(remainder, s)
         /\ cs' = [Assert_(cs, remainder.num > 0) EXCEPT !.cap[s] = remainder]
         /\ op' = [o EXCEPT !.pc = "endSlot", !.zombie = remainder,
                            !.inner = remainder.ptr + remainder.num]

\* An iteration of finaliseSlot(o.del, true), as far as the call of cteDelete
\* for the last slot of the zombie in reduceZombie.
finaliseSlot(o) ==
  LET s         == o.del
      remainder == finaliseCap(cs, s)
  IN  \/ /\ cs.cap[s] = NullCap \/ capRemovable(remainder, s)
         /\ deleteDone(o, emptySlot(cs, s))
      \/ /\ cs.cap[s] # NullCap /\ ~capRemovable(remainder, s)
         /\ cs' = [Assert_(cs, remainder.num > 0) EXCEPT !.cap[s] = remainder]
         /\ op' = [o EXCEPT !.pc = "endSlot", !.zombie = remainder,
                            !.inner = remainder.ptr + remainder.num - 1]

CNodeDelete(s) ==
  /\ Invoke("Delete")
  /\ cs.cap[s] # NullCap
  /\ finaliseSlot([Idle EXCEPT !.del = s])

\* An iteration of cteRevoke(o.target), as far as the deletion of a child.
cteRevoke(o) ==
  \/ /\ hasChildren(cs, o.target)
     /\ finaliseSlot([o EXCEPT !.pc = "finaliseSlot", !.del = cs.next[o.target]])
  \/ /\ ~hasChildren(cs, o.target)
     /\ op' = Idle
     /\ UNCHANGED cs

CNodeRevoke(s) ==
  /\ Invoke("Revoke")
  /\ hasChildren(cs, s)
  /\ cteRevoke([Idle EXCEPT !.target = s])

RevokeNext == op.pc = "cteRevoke" /\ cteRevoke(op)

FinaliseSlot == op.pc = "finaliseSlot" /\ finaliseSlot(op)

\* Mutant of reduceZombie: the zombie does not become smaller.
reduceZombie_SameSize(c) == c

\* The rest of reduceZombie, once cteDelete(op.inner, false) has returned.
reduceZombie(c) ==
  LET s   == op.del
      cap == c.cap[s]
  IN  CASE cap = op.zombie ->
             [Assert_(c, c.cap[op.inner] = NullCap) EXCEPT !.cap[s].num = @ - 1]
        [] cap.type = "zombie" /\ cap # op.zombie ->
             Assert_(c, cap.ptr = s /\ op.zombie.ptr # s)
        [] OTHER -> Assert_(c, cap = NullCap)

EndSlotDone(c) ==
  /\ cs' = reduceZombie(c)
  /\ PreemptionPoint([op EXCEPT !.pc = "finaliseSlot", !.zombie = NullCap, !.inner = Null])

\* An iteration of finaliseSlot(op.inner, false): an unremovable zombie is moved
\* aside, into the first slot of its own CNode, and what was there is next.
EndSlot ==
  LET s         == op.inner
      remainder == finaliseCap(cs, s)
      c         == [cs EXCEPT !.cap[s] = remainder]
      ptr       == remainder.ptr
  IN  /\ op.pc = "endSlot"
      /\ \/ /\ cs.cap[s] = NullCap \/ capRemovable(remainder, s)
            /\ EndSlotDone(emptySlot(cs, s))
         \/ /\ cs.cap[s] # NullCap /\ ~capRemovable(remainder, s)
            /\ capCyclicZombie(remainder, s)
            /\ EndSlotDone(c)
         \/ /\ cs.cap[s] # NullCap /\ ~capRemovable(remainder, s)
            /\ ~capCyclicZombie(remainder, s)
            /\ cs' = capSwapForDelete(Assert_(c, ~capCyclicZombie(c.cap[ptr], ptr)), ptr, s)
            /\ PreemptionPoint(op)

-----------------------------------------------------------------------------
(* Untyped memory *)

objectCap(type, p, bits) ==
  CASE type = "untyped" -> UntypedCap(p, bits, 0)
    [] type = "endpoint" -> EndpointCap(p, 0)
    [] type = "cnode" -> CNodeCap(p, bits)
    [] type = "thread" -> ThreadCap(p)

alignUp(x, bits) == BIT(bits) * ((x + BIT(bits) - 1) \div BIT(bits))

\* createNewObjects: n objects from base on, their caps in the slots from dest on.
createNewObjects(c, r, base) ==
  LET after[i \in 0 .. r.n] ==
        IF i = 0 THEN c
        ELSE insertNewCap(after[i - 1], r.slot, r.dest + i - 1,
                          objectCap(r.type, base + (i - 1) * BIT(r.bits), r.bits))
  IN  after[r.n]

\* Mutant of retypeObjects: the free index stays where it is.
retypeObjects_FreeIndexKept(c, r) == createNewObjects(c, r, r.base)

\* invokeUntyped_Retype after the reset.
retypeObjects(c, r) ==
  createNewObjects([c EXCEPT !.cap[r.slot].free = r.base + r.n * BIT(r.bits) - c.cap[r.slot].ptr],
                   r, r.base)

\* decodeUntypedInvocation: r is the request, its base where the objects will be.
UntypedRetype(slot, type, bits, dest, n) ==
  LET cap   == cs.cap[slot]
      reset == ~hasChildren(cs, slot)
      free  == IF reset THEN 0 ELSE cap.free
      r     == [slot |-> slot, type |-> type, bits |-> bits, dest |-> dest, n |-> n,
                base |-> alignUp(cap.ptr + free, bits)]
  IN  /\ Invoke("Retype")
      /\ cap.type = "untyped"
      /\ \A s \in dest .. dest + n - 1 : cs.cap[s] = NullCap
      /\ (BIT(cap.bits) - free) \div BIT(bits) >= n
      /\ IF reset /\ cap.free # 0
         THEN op' = [op EXCEPT !.pc = "resetUntypedCap", !.retype = r] /\ UNCHANGED cs
         ELSE Finish(retypeObjects(cs, r))

\* An iteration of resetUntypedCap: the last dirty chunk is cleared.
ResetUntypedCap ==
  LET r      == op.retype
      cap    == cs.cap[r.slot]
      small  == BIT(cap.bits) < ResetChunk
      offset == IF small THEN 0 ELSE ResetChunk * ((cap.free - 1) \div ResetChunk)
      size   == IF small THEN BIT(cap.bits) ELSE ResetChunk
  IN  /\ op.pc = "resetUntypedCap"
      /\ cap.free # 0
      /\ cs' = [clearSlots(cs, cap.ptr + offset .. cap.ptr + offset + size - 1)
                  EXCEPT !.cap[r.slot].free = offset]
      /\ IF small THEN UNCHANGED op ELSE PreemptionPoint(op)

RetypeAfterReset ==
  /\ op.pc = "resetUntypedCap"
  /\ cs.cap[op.retype.slot].free = 0
  /\ Finish(retypeObjects(cs, op.retype))

-----------------------------------------------------------------------------

UserInvocation ==
  /\ op = Idle
  /\ LET Named == lookupSlot
         Dest  == destSlot(Named)
     IN  \/ \E s \in Named, d \in Dest : CNodeCopy(s, d) \/ CNodeMove(s, d)
         \/ \E s \in Named, d \in Dest, b \in Badges : CNodeMint(s, d, b)
         \/ \E s, p \in Named, d \in Named : CNodeRotate(s, p, d)
         \/ \E t, s \in Named : TCBSetSpace(t, s)
         \/ \E s \in Named : CNodeDelete(s) \/ CNodeRevoke(s)
         \/ \E s \in Named, d \in Dest, o \in ObjectSizes, n \in 1 .. MaxRetype :
              /\ d .. d + n - 1 \subseteq Named
              /\ \E t \in Slots : cs.cap[t].type = "cnode" /\ d .. d + n - 1 \subseteq region(cs.cap[t])
              /\ UntypedRetype(s, o[1], o[2], d, n)

KernelStep == RevokeNext \/ FinaliseSlot \/ EndSlot \/ ResetUntypedCap \/ RetypeAfterReset

Next == UserInvocation \/ KernelStep

Spec == Init /\ [][Next]_vars

=============================================================================
