---------------------------- MODULE DerivationTree ----------------------------
(***************************************************************************)
(* What the mapping database promises: the caps form a forest, and         *)
(* operations on one cap leave the rest of the forest as it is.  Under     *)
(* which cap a new one is put is left open.                                *)
(***************************************************************************)
CONSTANTS Slots, Null

VARIABLES
  used,    \* the slots that hold a cap
  parent   \* the slot of the parent of each of them, Null for a root

vars == <<used, parent>>

Empty == Slots \ used

\* New caps, all with the same parent or all without one.
Derive ==
  LET new == used' \ used
      old == parent
  IN  /\ new # {} /\ used \subseteq used'
      /\ parent' \in {[s \in Slots |-> IF s \in new THEN p ELSE old[s]] :
                       p \in used \cup {Null}}

\* The forest f after the cap in each slot s has gone to place[s].
rearranged(f, place) ==
  LET from(s) == CHOOSE r \in Slots : place[r] = s
      to(s)   == IF s = Null THEN Null ELSE place[s]
  IN  [s \in Slots |-> to(f[from(s)])]

Identity == [s \in Slots |-> s]

swapped(a, b) == [Identity EXCEPT ![a] = b, ![b] = a]

\* Two caps change places.
Swap ==
  LET old == parent
  IN  /\ used' = used
      /\ parent' \in {rearranged(old, swapped(a, b)) : a, b \in used}

\* The cap in src moves to the empty slot dest, or to the slot of a cap that
\* moves to dest.
Move(src, dest) ==
  LET old == parent
  IN  /\ used' = (used \ {src}) \cup {dest}
      /\ parent' \in {rearranged(old, swapped(src, dest))} \cup
                     {rearranged(old, [Identity EXCEPT ![src] = p, ![p] = dest, ![dest] = src]) :
                        p \in used \ {src}}

\* The forest f without s: its children become children of its parent.
without(f, s) ==
  [t \in Slots |-> IF t = s THEN Null ELSE IF f[t] = s THEN f[s] ELSE f[t]]

Delete(s) ==
  /\ used' = used \ {s}
  /\ parent' = without(parent, s)

\* A deleted cap makes room for a new one.
Replace(s) ==
  LET rest == without(parent, s)
  IN  /\ used' = used
      /\ parent' \in {[rest EXCEPT ![s] = p] : p \in (used \ {s}) \cup {Null}}

Next ==
  \/ \E s \in used : Delete(s) \/ Replace(s) \/ \E d \in Empty : Move(s, d)
  \/ Derive
  \/ Swap

Init ==
  /\ used \subseteq Slots
  /\ parent \in [Slots -> used \cup {Null}]

Spec == Init /\ [][Next]_vars

=============================================================================
