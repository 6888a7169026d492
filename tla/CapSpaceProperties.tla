-------------------------- MODULE CapSpaceProperties ---------------------------
(***************************************************************************)
(* What the mapping database, deletion and Retype guarantee at every       *)
(* preemption point, where another thread may make any invocation.         *)
(***************************************************************************)
EXTENDS CapSpace

full(s) == cs.cap[s].type # "null"

usedSlots == {s \in Slots : full(s)}

\* Links lead to slots, and so do the slots a preempted invocation works on: the
\* end slot of a zombie is a slot of its object (reduceZombie).
TypeOK ==
  /\ cs.next \in [Slots -> Slots \cup {Null}]
  /\ cs.prev \in [Slots -> Slots \cup {Null}]
  /\ cs.revocable \cup cs.firstBadged \subseteq Slots
  /\ cs.asserts \in BOOLEAN
  /\ {op.target, op.del, op.inner} \subseteq Slots \cup {Null}

\* No assert() or fail() of cnode.c fails: cteInsert and cteMove find their
\* destination empty; reduceZombie finds the zombie as it left it, or gone, or
\* replaced by one that refers to its own slot; no cyclic zombie is moved aside.
NoCapAssertionFails == cs.asserts

\* The database is a set of doubly linked lists of the slots that hold a cap: a
\* cap that is deleted, moved or swapped leaves no link to its old slot.
MDBLinks ==
  \A s \in Slots :
    /\ ~full(s) => cs.next[s] = Null /\ cs.prev[s] = Null /\ s \notin cs.revocable \cup cs.firstBadged
    /\ cs.next[s] # Null => full(cs.next[s]) /\ cs.prev[cs.next[s]] = s
    /\ cs.prev[s] # Null => full(cs.prev[s]) /\ cs.next[cs.prev[s]] = s

\* isFinalCapability looks at the two neighbours of a cap only, yet it says
\* whether any other cap in the system names the same object.
FinalityKnown ==
  \A s \in usedSlots :
    cs.cap[s].type \in {"endpoint", "cnode", "thread"} =>
      (isFinalCapability(cs, s) <=> \A t \in Slots \ {s} : ~sameObjectAs(cs.cap[s], cs.cap[t]))

\* The slots before s in its list.
before(c, s) ==
  LET b[t \in Slots] == IF c.prev[t] = Null THEN {} ELSE {c.prev[t]} \cup b[c.prev[t]]
  IN  b[s]

\* Every cap into the memory of an untyped cap u is one that u's revocation and
\* the hasChildren test of decodeUntypedInvocation can find (it follows u) and
\* lies below u's free index; or it is an ancestor of u, or a full copy of u.
UntypedCovers ==
  \A u \in usedSlots : cs.cap[u].type = "untyped" =>
    \A s \in {t \in usedSlots \ {u} : sameRegionAs(cs.cap[u], cs.cap[t])} :
      \/ /\ u \in before(cs, s)
         /\ region(cs.cap[s]) \subseteq cs.cap[u].ptr .. cs.cap[u].ptr + cs.cap[u].free - 1
      \/ s \in before(cs, u) /\ sameRegionAs(cs.cap[s], cs.cap[u])

\* Caps whose memory overlaps name the same object, whatever was retyped,
\* deleted, reset and retyped again.
NoOverlap ==
  \A s, t \in {x \in usedSlots : cs.cap[x].type # "untyped"} :
    s # t /\ region(cs.cap[s]) \cap region(cs.cap[t]) # {} => sameObjectAs(cs.cap[s], cs.cap[t])

\* The slots of the object a cap leads to: a zombie leads to those it has not
\* yet deleted.
storage(cap) ==
  CASE cap.type \in {"cnode", "thread"} -> region(cap)
    [] cap.type = "zombie" -> cap.ptr .. cap.ptr + cap.num - 1
    [] OTHER -> {}

\* No cap is orphaned: the slot of every cap belongs to an object that some cap
\* names, even between the steps of a deletion and after one was abandoned.
CapsInObjects == usedSlots \subseteq UNION {storage(cs.cap[s]) : s \in usedSlots}

\* The caps that cteRevoke of p would delete: those that follow p in the list,
\* up to the first that p is not a parent of.
finds(c, p) ==
  LET f[s \in Slots \cup {Null}] ==
        IF s = Null THEN {}
        ELSE IF isMDBParentOf(c, p, s) THEN {s} \cup f[c.next[s]] ELSE {}
  IN  f[c.next[p]]

\* The parent of the cap in s: the nearest cap before it whose revocation finds it.
parentOf(c, s) ==
  LET f[p \in Slots \cup {Null}] ==
        IF p = Null THEN Null ELSE IF s \in finds(c, p) THEN p ELSE f[c.prev[p]]
  IN  f[c.prev[s]]

\* Revoking the original cap of an endpoint finds every other cap to it, badged or
\* not, and revoking an untyped finds every cap into its memory except the untyped
\* it was copied or retyped from: though cteRevoke stops at the first cap that is
\* not a child, nothing lies between a cap and its descendants.
RevokeFinds ==
  \A p \in cs.revocable :
    cs.cap[p].type = "untyped" \/ (cs.cap[p].type = "endpoint" /\ cs.cap[p].badge = 0) =>
      \A s \in usedSlots \ {p} :
        sameRegionAs(cs.cap[p], cs.cap[s]) =>
          s \in finds(cs, p) \/ (cs.cap[s].type = "untyped" /\ s \in before(cs, p))

-----------------------------------------------------------------------------
(* The lists and flags implement the derivation forest. *)

parents == [s \in Slots |-> parentOf(cs, s)]

Tree == INSTANCE DerivationTree WITH used <- usedSlots, parent <- parents

\* Every step of the kernel is one operation on the forest: new caps are leaves with
\* one parent or none (which one, is left open), caps change places with their
\* parents and children, a deletion hands the children to the parent, and the rest
\* of the forest stays as it is.
TreeSpec == Tree!Spec

-----------------------------------------------------------------------------
(* Deletion ends. *)

DeletionStep ==
  \/ RevokeNext \/ FinaliseSlot \/ EndSlot
  \/ \E s \in Slots : CNodeDelete(s) \/ CNodeRevoke(s)

\* An invocation in the kernel goes on or is preempted; the kernel does not stop.
FairSpec == Spec /\ WF_vars(KernelStep)

\* Deleting and revoking, with any number of preemptions and restarts in
\* between, comes to an end: a behaviour either makes other invocations again
\* and again or is idle for ever.
DeletionEnds == []<><<~DeletionStep>>_vars \/ <>[](op = Idle)

===============================================================================
