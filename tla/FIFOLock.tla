------------------------------- MODULE FIFOLock --------------------------------
(***************************************************************************)
(* What the big kernel lock promises: cores get it in the order in which   *)
(* they asked for it, and each of them gives it back.                      *)
(***************************************************************************)
EXTENDS Sequences

CONSTANT Cores

VARIABLE queue   \* the owner, then the cores that wait

Init == queue = <<>>

Join(c) ==
  /\ \A i \in DOMAIN queue : queue[i] # c
  /\ queue' = Append(queue, c)

Leave == queue # <<>> /\ queue' = Tail(queue)

Next == Leave \/ \E c \in Cores : Join(c)

Spec == Init /\ [][Next]_queue /\ WF_queue(Leave)

================================================================================
